--------------------------- MODULE YaffsGutsProofs ---------------------------
(***************************************************************************)
(* Proofs about YaffsGuts, for any number of blocks, pages of a block,     *)
(* files and chunks of a file, calls, power cuts and failing erasures: the *)
(* running counts are exact, and what memory has for a file is a page of   *)
(* the flash that the file wrote.                                          *)
(*                                                                         *)
(* GutsInv is the inductive invariant.  It relates three tables that the   *)
(* code keeps apart: the chunks that the objects hold (HeldOk), the bits   *)
(* and counts of the blocks (BlockOk), and the pages of the flash          *)
(* (AllocOk); CountsOk says of every block how much room it adds to the    *)
(* count of free chunks (Room), which is what each step changes, and       *)
(* TodoOk what a call may still have to do.                                *)
(***************************************************************************)
EXTENDS YaffsGuts, FiniteSetTheorems, SequenceTheorems, WellFoundedInduction, TLAPS

(* Types.                                                                  *)
States == {"empty", "allocating", "full", "collecting", "dirty", "dead"}

BlockInfos ==
  [state : States, seq : Nat, bits : SUBSET Pages, pagesInUse : Nat, softDel : Nat,
   shrink : BOOLEAN, retire : BOOLEAN]

Devices ==
  [blk : [Blocks -> BlockInfos], alloc : Blocks \cup {None}, page : Nat, seq : Nat,
   erased : Int, free : Int]

Objects ==
  [here : BOOLEAN, dir : Dirs, hdr : Addr \cup {None}, size : 0 .. FileChunks,
   tnode : [1 .. FileChunks -> Addr \cup {None}], nData : Int, deleted : BOOLEAN,
   dirty : BOOLEAN]

Steps == {"gc", "put", "header", "prune", "destroy", "remove"}

Ops == [op : Steps, file : Files \cup {None}, chunk : 0 .. FileChunks \cup {1, 2},
        val : Values \cup {Hole}, shrink : BOOLEAN]

Flash == [Blocks -> Seq(PagesOfLog \cup {Torn})]

(* The chunk that memory has for chunk k of the file f, 0 its header.      *)
Own(o, f, k) == IF k = 0 THEN o[f].hdr ELSE o[f].tnode[k]

Held(o, b) ==
  {p \in Pages : \E f \in Files, k \in 0 .. FileChunks : Own(o, f, k) = <<b, p>>}

(* A chunk that memory has is in use and is a page of that file.           *)
HeldOk(o, d, n) ==
  \A f \in Files, k \in 0 .. FileChunks :
    LET c == Own(o, f, k) IN
    c # None => /\ o[f].here
                /\ c[2] \in d.blk[c[1]].bits
                /\ c[2] <= Len(n[c[1]]) /\ n[c[1]][c[2]] # Torn
                /\ n[c[1]][c[2]].file = f /\ n[c[1]][c[2]].chunk = k

DeletedOk(o) ==
  \A f \in Files : o[f].deleted => \A k \in 1 .. FileChunks : o[f].tnode[k] = None

BlockOk(d, o, g, b) ==
  LET r == d.blk[b] IN
  /\ r.pagesInUse = Cardinality(r.bits)
  /\ r.state \in {"empty", "dirty", "dead"} => r.bits = {}
  /\ r.state = "empty" => r.softDel = 0
  /\ r.state \in {"full", "allocating"} =>
        r.softDel + Cardinality(Held(o, b)) <= Cardinality(r.bits)
  /\ r.state = "collecting" => b = g /\ r.bits # {} /\ ~r.shrink

(* The sum of w over a finite set, and what the blocks have room for, the  *)
(* soft-deleted chunks of a block that is collected no longer counted.     *)
Chosen(s) == CHOOSE x \in s : TRUE

IsSum(w, S, it) ==
  /\ it \in [SUBSET S -> Int]
  /\ \A s \in SUBSET S :
       it[s] = IF s = {} THEN 0 ELSE w[Chosen(s)] + it[s \ {Chosen(s)}]

Total(w, S) == CHOOSE n : \E it : IsSum(w, S, it) /\ n = it[S]

Room(r) ==
  IF r.state \in {"empty", "allocating", "full"} THEN ChunksPerBlock - r.pagesInUse + r.softDel
  ELSE IF r.state = "collecting" THEN ChunksPerBlock - r.pagesInUse
  ELSE IF r.state = "dirty" THEN ChunksPerBlock ELSE 0

Rooms(t) == [b \in Blocks |-> Room(t[b])]

AllocOk(d, n) ==
  d.alloc # None =>
    /\ d.blk[d.alloc].state = "allocating"
    /\ d.page \in Pages /\ d.page <= Len(n[d.alloc]) + 1
    /\ \A p \in d.blk[d.alloc].bits : p < d.page

CountsOk(d) ==
  /\ d.erased = Cardinality(InState(d.blk, {"empty"}))
  /\ d.free = Total(Rooms(d.blk), Blocks)

On(t, i) == t[i].op # "gc"

TodoOk(t, o, g) ==
  /\ \A i \in DOMAIN t :
       On(t, i) =>
         /\ t[i].file \in Files /\ o[t[i].file].here
         /\ t[i].op = "put" => t[i].val \in Values
         /\ t[i].op \in {"put", "prune"} => t[i].chunk \in 1 .. FileChunks
         /\ o[t[i].file].deleted =>
              /\ t[i].op \in {"header", "remove"} /\ o[t[i].file].dir = "deleted"
              /\ g = None
              /\ \A j \in 1 .. i : t[j].op \in {"header", "remove"} /\ o[t[j].file].dir = "deleted"
  /\ \A i, j \in DOMAIN t :
       i < j /\ On(t, i) /\ On(t, j) /\ t[i].file = t[j].file =>
         \/ t[i].op = "prune" /\ t[j].op \in {"prune", "header"}
         \/ t[i].op = "header" /\ t[j].op = "remove" /\ o[t[i].file].dir = "deleted"

(* A device that agrees with the objects and the flash.                    *)
DevOk(d, o, n, g) ==
  /\ d \in Devices
  /\ HeldOk(o, d, n)
  /\ \A b \in Blocks : BlockOk(d, o, g, b)
  /\ AllocOk(d, n) /\ CountsOk(d)

MemoryOk ==
  /\ obj \in [Files -> Objects] /\ todo \in Seq(Ops) /\ gcBlock \in Blocks \cup {None}
  /\ DevOk(dev, obj, nand, gcBlock) /\ DeletedOk(obj) /\ TodoOk(todo, obj, gcBlock)

GutsInv ==
  /\ nand \in Flash /\ nseq \in [Blocks -> Nat]
  /\ IF mounted THEN MemoryOk ELSE gcBlock = None

-----------------------------------------------------------------------------
(* Finite sets and sums.                                                   *)

LEMMA LeastLemma ==
  ASSUME NEW T \in SUBSET Nat, T # {}
  PROVE  \E x \in T : \A y \in T : x <= y
<1>1. PICK x \in T : \A y \in T : ~ (<<y, x>> \in OpToRel(<, Nat))
  BY NatLessThanWellFounded, WFMin
<1>2. \A y \in T : <<y, x>> \in OpToRel(<, Nat) <=> y < x
  BY DEF OpToRel
<1>3. \A y \in T : ~ (y < x)
  BY <1>1, <1>2
<1>4. QED
  BY <1>3

(* Induction over a finite set: element by element.                        *)
LEMMA SetInduction ==
  ASSUME NEW S, IsFiniteSet(S), NEW G, {} \in G,
         \A T \in SUBSET S, x \in S : T \in G /\ x \notin T => T \cup {x} \in G
  PROVE  S \in G
<1> DEFINE N == {n \in Nat : \E T \in SUBSET S : T \in G /\ Cardinality(S \ T) = n}
<1>1. N \in SUBSET Nat /\ N # {}
  <2>1. Cardinality(S \ {}) \in Nat
    BY FS_CardinalityType, FS_Subset
  <2>2. QED
    BY <2>1
<1> HIDE DEF N
<1>2. PICK n \in N : \A m \in N : n <= m
  BY <1>1, LeastLemma
<1>3. PICK T \in SUBSET S : T \in G /\ Cardinality(S \ T) = n /\ n \in Nat
  BY DEF N
<1>4. S \ T = {}
  <2> SUFFICES ASSUME NEW x \in S \ T PROVE FALSE
    OBVIOUS
  <2>1. IsFiniteSet(S \ T)
    BY FS_Subset
  <2>2. Cardinality((S \ T) \ {x}) = n - 1 /\ Cardinality((S \ T) \ {x}) \in Nat
    BY <1>3, <2>1, FS_RemoveElement, FS_CardinalityType
  <2>3. (S \ T) \ {x} = S \ (T \cup {x})
    OBVIOUS
  <2>4. T \cup {x} \in G /\ T \cup {x} \in SUBSET S
    BY <1>3
  <2>5. n - 1 \in N
    BY <2>2, <2>3, <2>4 DEF N
  <2>6. QED
    BY <1>2, <1>3, <2>5
<1>5. S = T
  BY <1>4
<1>6. QED
  BY <1>3, <1>5

(* The same from all smaller sets.                                         *)
LEMMA SubsetInduction ==
  ASSUME NEW S, IsFiniteSet(S), NEW G,
         \A T \in SUBSET S : (\A x \in T : T \ {x} \in G) => T \in G
  PROVE  \A T \in SUBSET S : T \in G
<1> DEFINE N == {n \in Nat : \E T \in SUBSET S : T \notin G /\ Cardinality(T) = n}
<1> SUFFICES ASSUME NEW U \in SUBSET S, U \notin G PROVE FALSE
  OBVIOUS
<1>1. N \in SUBSET Nat /\ N # {}
  <2>1. Cardinality(U) \in Nat
    BY FS_CardinalityType, FS_Subset
  <2>2. QED
    BY <2>1
<1> HIDE DEF N
<1>2. PICK n \in N : \A m \in N : n <= m
  BY <1>1, LeastLemma
<1>3. PICK T \in SUBSET S : T \notin G /\ Cardinality(T) = n /\ n \in Nat
  BY DEF N
<1>4. PICK x \in T : T \ {x} \notin G
  BY <1>3
<1>5. IsFiniteSet(T)
  BY FS_Subset
<1>6. Cardinality(T \ {x}) = n - 1 /\ Cardinality(T \ {x}) \in Nat
  BY <1>3, <1>5, FS_RemoveElement, FS_CardinalityType, FS_Subset
<1>7. n - 1 \in N
  BY <1>4, <1>6 DEF N
<1>8. QED
  BY <1>2, <1>3, <1>7

(* A finite set of integers that is not empty has a greatest and a least.  *)
LEMMA MaxLemma ==
  ASSUME NEW S \in SUBSET Int, IsFiniteSet(S), S # {}
  PROVE  Max(S) \in S /\ \A y \in S : Max(S) >= y
<1> DEFINE G == {T \in SUBSET S : T # {} => \E x \in T : \A y \in T : x >= y}
<1>1. {} \in G
  OBVIOUS
<1>2. ASSUME NEW T \in SUBSET S, NEW z \in S, T \in G PROVE T \cup {z} \in G
  <2>1. CASE T = {}
    BY <2>1
  <2>2. CASE T # {}
    <3>1. PICK x \in T : \A y \in T : x >= y
      BY <1>2, <2>2
    <3>2. CASE x >= z
      <4>1. \A y \in T \cup {z} : x >= y
        BY <3>1, <3>2
      <4>2. QED
        BY <4>1
    <3>3. CASE ~(x >= z)
      <4>1. \A y \in T \cup {z} : z >= y
        BY <3>1, <3>3
      <4>2. QED
        BY <4>1
    <3>4. QED
      BY <3>2, <3>3
  <2>3. QED
    BY <2>1, <2>2
<1> HIDE DEF G
<1>3. S \in G
  BY <1>1, <1>2, SetInduction
<1>4. \E x \in S : \A y \in S : x >= y
  BY <1>3 DEF G
<1>5. QED
  BY <1>4 DEF Max

LEMMA MinLemma ==
  ASSUME NEW S \in SUBSET Nat, S # {}
  PROVE  Min(S) \in S /\ \A y \in S : Min(S) <= y
BY LeastLemma DEF Min

LEMMA ChosenIn ==
  ASSUME NEW s, s # {}
  PROVE  Chosen(s) \in s
BY DEF Chosen

LEMMA SumExists ==
  ASSUME NEW S, IsFiniteSet(S), NEW w, \A x \in S : w[x] \in Int
  PROVE  \E it : IsSum(w, S, it)
<1> DEFINE Next1(f, s) == IF s = {} THEN 0 ELSE w[Chosen(s)] + f[s \ {Chosen(s)}]
           F == [SUBSET S -> Int]
           Good(f, T) == \A s \in SUBSET S : Cardinality(s) <= Cardinality(T) => f[s] = Next1(f, s)
           G == {T \in SUBSET S : \E f \in F : Good(f, T)}
<1>1. \A s \in SUBSET S : s # {} => Chosen(s) \in s /\ s \ {Chosen(s)} \in SUBSET S
  BY ChosenIn
<1>2. \A s \in SUBSET S : IsFiniteSet(s) /\ Cardinality(s) \in Nat
  BY FS_Subset, FS_CardinalityType
<1>3. \A s \in SUBSET S : s # {} => Cardinality(s \ {Chosen(s)}) = Cardinality(s) - 1
  BY <1>1, <1>2, FS_RemoveElement
<1>4. ASSUME NEW f \in F PROVE [s \in SUBSET S |-> Next1(f, s)] \in F
  <2>1. ASSUME NEW s \in SUBSET S PROVE Next1(f, s) \in Int
    BY <1>1
  <2>2. QED
    BY <2>1
<1>5. {} \in G
  <2>1. [s \in SUBSET S |-> 0] \in F
    OBVIOUS
  <2>2. PICK f \in F : f = [s \in SUBSET S |-> 0]
    BY <2>1
  <2>3. ASSUME NEW s \in SUBSET S, Cardinality(s) <= Cardinality({}) PROVE f[s] = Next1(f, s)
    <3>1. s = {}
      BY <1>2, <2>3, FS_EmptySet
    <3>2. QED
      BY <2>2, <3>1
  <2>4. Good(f, {})
    BY <2>3
  <2>5. QED
    BY <2>2, <2>4
<1>6. ASSUME NEW T \in SUBSET S, NEW x \in S, T \in G, x \notin T PROVE T \cup {x} \in G
  <2>1. PICK f \in F : Good(f, T)
    BY <1>6
  <2>2. PICK h \in F : h = [s \in SUBSET S |-> Next1(f, s)]
    BY <1>4
  <2>3. Cardinality(T \cup {x}) = Cardinality(T) + 1 /\ Cardinality(T) \in Nat
    BY <1>2, <1>6, FS_AddElement
  <2>4. ASSUME NEW s \in SUBSET S, Cardinality(s) <= Cardinality(T \cup {x})
        PROVE  h[s] = Next1(h, s)
    <3>1. CASE s = {}
      BY <2>2, <3>1
    <3>2. CASE s # {}
      <4>1. PICK r \in SUBSET S : r = s \ {Chosen(s)}
        BY <1>1, <3>2
      <4>2. Cardinality(r) <= Cardinality(T)
        <5>1. PICK i, j, k \in Nat : i = Cardinality(r) /\ j = Cardinality(s) /\ k = Cardinality(T)
          BY <1>2, <2>3, FS_CardinalityType, FS_Subset
        <5>2. j <= k + 1
          BY ONLY <2>3, <2>4, <5>1
        <5>3. i < j
          BY <1>2, <1>3, <3>2, <4>1, <5>1
        <5>4. i <= k
          BY ONLY <5>2, <5>3
        <5>5. QED
          BY ONLY <5>1, <5>4
      <4>3. f[r] = Next1(f, r)
        BY <2>1, <4>2
      <4>4. h[r] = f[r]
        <5>1. h[r] = Next1(f, r)
          BY <2>2
        <5>2. QED
          BY <4>3, <5>1
      <4>5. h[s] = w[Chosen(s)] + f[r]
        BY <2>2, <3>2, <4>1
      <4>6. h[s] = w[Chosen(s)] + h[r]
        BY <4>4, <4>5
      <4>7. QED
        BY <3>2, <4>1, <4>6
    <3>3. QED
      BY <3>1, <3>2
  <2>5. Good(h, T \cup {x})
    BY <2>4
  <2>6. T \cup {x} \in SUBSET S
    OBVIOUS
  <2>7. QED
    BY <2>2, <2>5, <2>6
<1>7. S \in G
  <2> HIDE DEF G
  <2>1. QED
    BY <1>5, <1>6, SetInduction
<1>8. PICK f \in F : Good(f, S)
  BY <1>7
<1>9. ASSUME NEW s \in SUBSET S PROVE f[s] = Next1(f, s)
  <2>1. Cardinality(s) <= Cardinality(S)
    BY FS_Subset
  <2>2. QED
    BY <1>8, <2>1
<1>10. IsSum(w, S, f)
  BY <1>9 DEF IsSum
<1>11. QED
  BY <1>10

(* The order does not matter, nor what the function is elsewhere.          *)
LEMMA SumStep ==
  ASSUME NEW S, IsFiniteSet(S), NEW w, \A x \in S : w[x] \in Int, NEW it, IsSum(w, S, it)
  PROVE  \A s \in SUBSET S : \A x \in s : it[s] = w[x] + it[s \ {x}]
<1> DEFINE G == {s \in SUBSET S : \A x \in s : it[s] = w[x] + it[s \ {x}]}
<1>1. \A s \in SUBSET S : it[s] \in Int
  BY DEF IsSum
<1>2. ASSUME NEW T \in SUBSET S, \A x \in T : T \ {x} \in G PROVE T \in G
  <2> SUFFICES ASSUME NEW x \in T PROVE it[T] = w[x] + it[T \ {x}]
    OBVIOUS
  <2>1. PICK c \in T : c = Chosen(T)
    BY ChosenIn
  <2>2. it[T] = w[c] + it[T \ {c}]
    BY <2>1 DEF IsSum
  <2>3. CASE c = x
    BY <2>2, <2>3
  <2>4. CASE c # x
    <3>1. T \ {c} \in G /\ T \ {x} \in G
      BY <1>2
    <3>2. x \in T \ {c} /\ c \in T \ {x}
      BY <2>4
    <3>3. it[T \ {c}] = w[x] + it[(T \ {c}) \ {x}]
      BY <3>1, <3>2
    <3>4. it[T \ {x}] = w[c] + it[(T \ {x}) \ {c}]
      BY <3>1, <3>2
    <3>5. (T \ {x}) \ {c} = (T \ {c}) \ {x}
      OBVIOUS
    <3>6. PICK p, q, n \in Int : p = w[x] /\ q = w[c] /\ n = it[(T \ {c}) \ {x}]
      BY <1>1
    <3>7. it[T \ {c}] = p + n /\ it[T \ {x}] = q + n
      BY <3>3, <3>4, <3>5, <3>6
    <3>8. it[T] = q + (p + n)
      BY <2>2, <3>6, <3>7
    <3>9. w[x] + it[T \ {x}] = p + (q + n)
      BY <3>6, <3>7
    <3>10. QED
      BY <3>8, <3>9
  <2>5. QED
    BY <2>3, <2>4
<1> HIDE DEF G
<1>3. \A T \in SUBSET S : T \in G
  BY <1>2, SubsetInduction
<1>4. QED
  BY <1>3 DEF G

LEMMA SumSame ==
  ASSUME NEW S, IsFiniteSet(S), NEW w, \A x \in S : w[x] \in Int,
         NEW T, IsFiniteSet(T), NEW v, \A x \in T : v[x] \in Int,
         NEW it, IsSum(w, S, it), NEW jt, IsSum(v, T, jt),
         NEW U, U \subseteq S, U \subseteq T, \A x \in U : w[x] = v[x]
  PROVE  it[U] = jt[U]
<1> DEFINE G == {s \in SUBSET U : it[s] = jt[s]}
<1>1. {} \in G
  BY DEF IsSum
<1>2. ASSUME NEW R \in SUBSET U, NEW x \in U, R \in G, x \notin R PROVE R \cup {x} \in G
  <2>1. PICK s : s = R \cup {x}
    OBVIOUS
  <2>2. s \in SUBSET S /\ s \in SUBSET T /\ x \in s /\ s \ {x} = R
    BY <1>2, <2>1
  <2>3. it[s] = w[x] + it[s \ {x}]
    BY <2>2, SumStep
  <2>4. jt[s] = v[x] + jt[s \ {x}]
    BY <2>2, SumStep
  <2>5. it[s] = jt[s]
    BY <1>2, <2>2, <2>3, <2>4
  <2>6. QED
    BY <2>1, <2>2, <2>5
<1>3. IsFiniteSet(U)
  BY FS_Subset
<1> HIDE DEF G
<1>4. U \in G
  BY <1>1, <1>2, <1>3, SetInduction
<1>5. QED
  BY <1>4 DEF G

LEMMA TotalIs ==
  ASSUME NEW S, IsFiniteSet(S), NEW w, \A x \in S : w[x] \in Int, NEW it, IsSum(w, S, it)
  PROVE  Total(w, S) = it[S] /\ Total(w, S) \in Int
<1>1. PICK n : n = it[S]
  OBVIOUS
<1>2. \A m : (\E jt : IsSum(w, S, jt) /\ m = jt[S]) => m = n
  <2> SUFFICES ASSUME NEW m, NEW jt, IsSum(w, S, jt), m = jt[S] PROVE m = n
    OBVIOUS
  <2>1. it[S] = jt[S]
    BY SumSame
  <2>2. QED
    BY <1>1, <2>1
<1>3. Total(w, S) = n
  BY <1>1, <1>2 DEF Total
<1>4. n \in Int
  BY <1>1 DEF IsSum
<1>5. QED
  BY <1>1, <1>3, <1>4

LEMMA TotalEmpty ==
  ASSUME NEW w
  PROVE  Total(w, {}) = 0
<1>1. IsFiniteSet({})
  BY FS_EmptySet
<1>2. PICK it : IsSum(w, {}, it)
  BY <1>1, SumExists
<1>3. Total(w, {}) = it[{}]
  BY <1>1, <1>2, TotalIs
<1>4. QED
  BY <1>2, <1>3 DEF IsSum

LEMMA TotalSame ==
  ASSUME NEW S, IsFiniteSet(S), NEW w, \A x \in S : w[x] \in Int, NEW v, \A x \in S : w[x] = v[x]
  PROVE  Total(w, S) = Total(v, S) /\ Total(w, S) \in Int
<1>1. \A x \in S : v[x] \in Int
  OBVIOUS
<1>2. PICK it, jt : IsSum(w, S, it) /\ IsSum(v, S, jt)
  BY <1>1, SumExists
<1>3. it[S] = jt[S]
  BY <1>1, <1>2, SumSame
<1>4. Total(w, S) = it[S] /\ Total(w, S) \in Int
  BY <1>2, TotalIs
<1>5. Total(v, S) = jt[S]
  BY <1>1, <1>2, TotalIs
<1>6. QED
  BY <1>3, <1>4, <1>5

LEMMA TotalAdd ==
  ASSUME NEW S, IsFiniteSet(S), NEW x, x \notin S, NEW w, \A y \in S \cup {x} : w[y] \in Int
  PROVE  Total(w, S \cup {x}) = Total(w, S) + w[x]
<1>1. PICK T : T = S \cup {x}
  OBVIOUS
<1>2. IsFiniteSet(T) /\ x \in T /\ T \ {x} = S /\ (\A y \in T : w[y] \in Int) /\ S \subseteq T
  BY <1>1, FS_AddElement
<1>3. PICK it, jt : IsSum(w, T, it) /\ IsSum(w, S, jt)
  BY <1>2, SumExists
<1>4. it[T] = w[x] + it[T \ {x}]
  BY <1>2, <1>3, SumStep
<1>5. it[S] = jt[S]
  BY <1>2, <1>3, SumSame
<1>6. Total(w, T) = it[T]
  BY <1>2, <1>3, TotalIs
<1>7. Total(w, S) = jt[S] /\ Total(w, S) \in Int
  BY <1>2, <1>3, TotalIs
<1>8. w[x] \in Int
  BY <1>2
<1>9. Total(w, T) = w[x] + Total(w, S)
  BY <1>2, <1>4, <1>5, <1>6, <1>7
<1>10. QED
  BY <1>1, <1>7, <1>8, <1>9

(* One summand changes.                                                    *)
LEMMA TotalUpdate ==
  ASSUME NEW S, IsFiniteSet(S), NEW x \in S, NEW w, \A y \in S : w[y] \in Int,
         NEW v, \A y \in S : v[y] \in Int, \A y \in S \ {x} : w[y] = v[y]
  PROVE  Total(v, S) = Total(w, S) - w[x] + v[x]
<1>1. PICK R : R = S \ {x}
  OBVIOUS
<1>2. IsFiniteSet(R) /\ x \notin R /\ R \cup {x} = S
  BY <1>1, FS_Subset
<1>3. Total(w, S) = Total(w, R) + w[x]
  BY <1>2, TotalAdd
<1>4. Total(v, S) = Total(v, R) + v[x]
  BY <1>2, TotalAdd
<1>5. Total(w, R) = Total(v, R) /\ Total(w, R) \in Int
  BY <1>1, <1>2, TotalSame
<1>6. w[x] \in Int /\ v[x] \in Int
  OBVIOUS
<1>7. QED
  BY <1>3, <1>4, <1>5, <1>6

(* yaffs_CountFreeChunks is such a sum.                                    *)
Counted == {"empty", "allocating", "collecting", "full"}

Weights(t) == [b \in Blocks |-> ChunksPerBlock - t[b].pagesInUse + t[b].softDel]

LEMMA WeightsType ==
  ASSUME NEW t \in [Blocks -> BlockInfos]
  PROVE  /\ Weights(t) \in [Blocks -> Int] /\ Rooms(t) \in [Blocks -> Int]
         /\ \A b \in Blocks : t[b] \in BlockInfos
<1>1. ChunksPerBlock \in Int
  BY Geometry
<1>2. ASSUME NEW b \in Blocks
      PROVE  t[b] \in BlockInfos /\ Room(t[b]) \in Int
             /\ ChunksPerBlock - t[b].pagesInUse + t[b].softDel \in Int
  <2>1. t[b] \in BlockInfos /\ t[b].pagesInUse \in Int /\ t[b].softDel \in Int
    BY DEF BlockInfos
  <2>2. QED
    BY <1>1, <2>1 DEF Room
<1>3. QED
  BY <1>2 DEF Weights, Rooms

LEMMA CountTotal ==
  ASSUME NEW t \in [Blocks -> BlockInfos]
  PROVE  CountFreeChunks(t) = Total(Weights(t), InState(t, Counted))
<1>1. PICK S : S = InState(t, Counted)
  OBVIOUS
<1>2. S \subseteq Blocks /\ IsFiniteSet(S)
  BY <1>1, FS_Subset, Geometry DEF InState
<1>3. PICK w : w = Weights(t)
  OBVIOUS
<1>4. \A x \in S : w[x] = ChunksPerBlock - t[x].pagesInUse + t[x].softDel /\ w[x] \in Int
  BY <1>2, <1>3, WeightsType DEF Weights
<1> DEFINE Sums(it) ==
      it = [s \in SUBSET S |->
              IF s = {} THEN 0
              ELSE LET x == CHOOSE x \in s : TRUE
                   IN (ChunksPerBlock - t[x].pagesInUse + t[x].softDel) + it[s \ {x}]]
<1>5. CountFreeChunks(t) = (CHOOSE it : Sums(it))[S]
  BY <1>1 DEF CountFreeChunks, MapThenSumSet, MapThenFoldSet, Counted
<1>6. \A s \in SUBSET S : s # {} => Chosen(s) \in S /\ s \ {Chosen(s)} \in SUBSET S
  BY ChosenIn
<1>7. PICK jt : IsSum(w, S, jt)
  BY <1>2, <1>4, SumExists
<1>8. Sums(jt)
  <2>1. ASSUME NEW s \in SUBSET S
        PROVE  jt[s] = IF s = {} THEN 0
                       ELSE LET x == CHOOSE x \in s : TRUE
                            IN (ChunksPerBlock - t[x].pagesInUse + t[x].softDel) + jt[s \ {x}]
    BY <1>4, <1>6, <1>7 DEF IsSum, Chosen
  <2>2. jt \in [SUBSET S -> Int]
    BY <1>7 DEF IsSum
  <2>3. QED
    BY <2>1, <2>2
<1>9. PICK it : it = (CHOOSE i : Sums(i)) /\ Sums(it)
  <2> HIDE DEF Sums
  <2>1. QED
    BY <1>8
<1>10. it = jt
  <2> DEFINE G == {s \in SUBSET S : it[s] = jt[s]}
  <2>1. ASSUME NEW s \in SUBSET S
        PROVE  it[s] = IF s = {} THEN 0 ELSE w[Chosen(s)] + it[s \ {Chosen(s)}]
    <3>1. it[s] = IF s = {} THEN 0
                  ELSE LET x == CHOOSE x \in s : TRUE
                       IN (ChunksPerBlock - t[x].pagesInUse + t[x].softDel) + it[s \ {x}]
      BY <1>9
    <3>2. s # {} => w[Chosen(s)] = ChunksPerBlock - t[Chosen(s)].pagesInUse + t[Chosen(s)].softDel
      BY <1>4, <1>6
    <3>3. QED
      BY <3>1, <3>2 DEF Chosen
  <2>2. ASSUME NEW s \in SUBSET S
        PROVE  jt[s] = IF s = {} THEN 0 ELSE w[Chosen(s)] + jt[s \ {Chosen(s)}]
    BY <1>7 DEF IsSum
  <2>3. ASSUME NEW s \in SUBSET S, \A x \in s : s \ {x} \in G PROVE s \in G
    <3>1. CASE s = {}
      BY <2>1, <2>2, <3>1
    <3>2. CASE s # {}
      <4>1. it[s \ {Chosen(s)}] = jt[s \ {Chosen(s)}]
        BY <2>3, <3>2, ChosenIn
      <4>2. QED
        BY <2>1, <2>2, <3>2, <4>1
    <3>3. QED
      BY <3>1, <3>2
  <2> HIDE DEF G
  <2>4. \A s \in SUBSET S : s \in G
    BY <1>2, <2>3, SubsetInduction
  <2>5. \A s \in SUBSET S : it[s] = jt[s]
    BY <2>4 DEF G
  <2>6. it = [s \in SUBSET S |-> it[s]] /\ jt = [s \in SUBSET S |-> jt[s]]
    BY <1>7, <1>9 DEF IsSum
  <2>7. PICK D : D = SUBSET S
    OBVIOUS
  <2>8. \A s \in D : it[s] = jt[s]
    BY ONLY <2>5, <2>7
  <2>9. it = [s \in D |-> it[s]] /\ jt = [s \in D |-> jt[s]]
    BY ONLY <2>6, <2>7, Zenon
  <2>10. QED
    BY ONLY <2>8, <2>9
<1>11. Total(w, S) = jt[S]
  BY <1>2, <1>4, <1>7, TotalIs
<1>12. QED
  BY <1>1, <1>3, <1>5, <1>9, <1>10, <1>11

LEMMA RoomsCount ==
  ASSUME NEW t \in [Blocks -> BlockInfos], InState(t, {"collecting"}) = {}
  PROVE  Total(Rooms(t), Blocks)
           = CountFreeChunks(t) + ChunksPerBlock * Cardinality(InState(t, {"dirty"}))
<1> DEFINE C(T) == T \cap InState(t, Counted)
           D(T) == T \cap InState(t, {"dirty"})
           G == {T \in SUBSET Blocks :
                   Total(Rooms(t), T) = Total(Weights(t), C(T)) + ChunksPerBlock * Cardinality(D(T))}
<1>1. PICK w, r : w = Weights(t) /\ r = Rooms(t)
  OBVIOUS
<1>2. \A b \in Blocks : w[b] \in Int /\ r[b] \in Int
  BY <1>1, WeightsType
<1>3. ChunksPerBlock \in Int /\ IsFiniteSet(Blocks)
  BY Geometry
<1>4. \A b \in Blocks : t[b] \in BlockInfos
  OBVIOUS
<1>5. \A b \in Blocks : r[b] = Room(t[b]) /\ w[b] = ChunksPerBlock - t[b].pagesInUse + t[b].softDel
  BY <1>1 DEF Rooms, Weights
<1>6. \A b \in Blocks : t[b].state \in States /\ t[b].state # "collecting"
  BY <1>4 DEF InState, BlockInfos
<1>7. C({}) = {} /\ D({}) = {}
  OBVIOUS
<1>8. {} \in G
  <2>1. Cardinality(D({})) = 0
    BY <1>7, FS_EmptySet
  <2>2. Total(Weights(t), C({})) = 0 /\ Total(Rooms(t), {}) = 0
    BY <1>7, TotalEmpty
  <2>3. QED
    BY <2>1, <2>2, <1>3
<1>9. ASSUME NEW T \in SUBSET Blocks, NEW x \in Blocks, T \in G, x \notin T
      PROVE  T \cup {x} \in G
  <2>1. IsFiniteSet(T) /\ IsFiniteSet(C(T)) /\ IsFiniteSet(D(T))
    BY <1>3, FS_Subset
  <2>2. Total(r, T \cup {x}) = Total(r, T) + r[x]
    BY <1>2, <1>9, <2>1, TotalAdd
  <2>3. PICK m, n, e \in Int : /\ m = Total(w, C(T)) /\ n = Cardinality(D(T)) /\ e = Total(r, T)
    BY <1>2, <2>1, TotalSame, FS_CardinalityType
  <2>4. e = m + ChunksPerBlock * n
    BY <1>1, <1>9, <2>3
  <2>5. CASE t[x].state \in Counted
    <3>1. C(T \cup {x}) = C(T) \cup {x} /\ x \notin C(T) /\ D(T \cup {x}) = D(T)
      BY <1>9, <2>5 DEF InState, Counted
    <3>2. Total(w, C(T) \cup {x}) = m + w[x]
      BY <1>2, <2>1, <2>3, <3>1, TotalAdd
    <3>3. r[x] = w[x]
      BY <1>5, <1>6, <2>5 DEF Room, Counted
    <3>4. Total(r, T \cup {x}) = (m + w[x]) + ChunksPerBlock * n
      BY <1>2, <1>3, <2>2, <2>3, <2>4, <3>3
    <3>5. QED
      BY <1>1, <2>3, <3>1, <3>2, <3>4
  <2>6. CASE t[x].state = "dirty"
    <3>1. D(T \cup {x}) = D(T) \cup {x} /\ x \notin D(T) /\ C(T \cup {x}) = C(T)
      BY <1>9, <2>6 DEF InState, Counted
    <3>2. Cardinality(D(T) \cup {x}) = n + 1
      BY <2>1, <2>3, <3>1, FS_AddElement
    <3>3. r[x] = ChunksPerBlock
      BY <1>5, <2>6 DEF Room
    <3>4. ChunksPerBlock * (n + 1) = ChunksPerBlock * n + ChunksPerBlock
      BY <1>3
    <3>5. Total(r, T \cup {x}) = m + ChunksPerBlock * (n + 1)
      <4>1. PICK q \in Int : q = ChunksPerBlock * n
        BY <1>3
      <4>2. QED
        BY <1>3, <2>2, <2>3, <2>4, <3>3, <3>4, <4>1
    <3>6. QED
      BY <1>1, <2>3, <3>1, <3>2, <3>5
  <2>7. CASE t[x].state = "dead"
    <3>1. D(T \cup {x}) = D(T) /\ C(T \cup {x}) = C(T)
      BY <1>9, <2>7 DEF InState, Counted
    <3>2. r[x] = 0
      BY <1>5, <2>7 DEF Room
    <3>3. Total(r, T \cup {x}) = e
      BY <2>2, <2>3, <3>2
    <3>4. QED
      BY <1>1, <2>3, <2>4, <3>1, <3>3
  <2>8. QED
    BY <1>6, <2>5, <2>6, <2>7 DEF States, Counted
<1> HIDE DEF G
<1>10. Blocks \in G
  BY <1>3, <1>8, <1>9, SetInduction
<1>11. C(Blocks) = InState(t, Counted) /\ D(Blocks) = InState(t, {"dirty"})
  BY DEF InState
<1>12. Total(Rooms(t), Blocks) = Total(Weights(t), C(Blocks)) + ChunksPerBlock * Cardinality(D(Blocks))
  BY <1>10 DEF G
<1>13. QED
  BY <1>11, <1>12, CountTotal

(* Chunks of one block are told apart by their page.                       *)
PagesOf(C, b) == {p \in Pages : <<b, p>> \in C}
ChunksOf(C, b) == {c \in C : c[1] = b}

LEMMA PagesFinite ==
  IsFiniteSet(Pages) /\ \A P \in SUBSET Pages : IsFiniteSet(P) /\ Cardinality(P) \in Nat
<1>1. ChunksPerBlock \in Int /\ 1 \in Int
  BY Geometry
<1>2. IsFiniteSet(Pages)
  BY <1>1, FS_Interval DEF Pages
<1>3. QED
  BY <1>2, FS_Subset, FS_CardinalityType

LEMMA AddrPair ==
  /\ \A c \in Addr : c[1] \in Blocks /\ c[2] \in Pages /\ c = <<c[1], c[2]>>
  /\ \A b \in Blocks, p \in Pages : <<b, p>> \in Addr
BY DEF Addr

LEMMA PagesCounted ==
  ASSUME NEW C \in SUBSET Addr, IsFiniteSet(C), NEW b \in Blocks
  PROVE  /\ IsFiniteSet(ChunksOf(C, b))
         /\ Cardinality(PagesOf(C, b)) = Cardinality(ChunksOf(C, b))
         /\ Cardinality(ChunksOf(C, b)) \in Nat
<1>1. PICK S, T : S = ChunksOf(C, b) /\ T = PagesOf(C, b)
  OBVIOUS
<1>2. S \subseteq C /\ IsFiniteSet(S)
  BY <1>1, FS_Subset DEF ChunksOf
<1>3. PICK h : h = [c \in S |-> c[2]]
  OBVIOUS
<1>4. \A c \in S : c \in Addr /\ c[1] = b /\ c = <<b, c[2]>> /\ c[2] \in T
  BY <1>1, AddrPair DEF ChunksOf, PagesOf
<1>5. h \in [S -> T]
  BY <1>3, <1>4
<1>6. \A x, y \in S : h[x] = h[y] => x = y
  BY <1>3, <1>4
<1>7. \A p \in T : \E c \in S : h[c] = p
  <2> SUFFICES ASSUME NEW p \in T PROVE \E c \in S : h[c] = p
    OBVIOUS
  <2>1. <<b, p>> \in S
    BY <1>1 DEF PagesOf, ChunksOf
  <2>2. h[<<b, p>>] = p
    BY <1>3, <2>1
  <2>3. QED
    BY <2>1, <2>2
<1>8. h \in Bijection(S, T)
  BY <1>5, <1>6, <1>7 DEF Bijection, Injection, Surjection, IsInjective
<1>9. ExistsBijection(S, T)
  BY <1>8 DEF ExistsBijection
<1>10. Cardinality(T) = Cardinality(S) /\ Cardinality(S) \in Nat
  BY <1>2, <1>9, FS_Bijection, FS_CardinalityType
<1>11. QED
  BY <1>1, <1>2, <1>10

LEMMA ChunksAdd ==
  ASSUME NEW C, IsFiniteSet(C), NEW x, x \notin C, NEW b
  PROVE  Cardinality(ChunksOf(C \cup {x}, b))
           = Cardinality(ChunksOf(C, b)) + (IF x[1] = b THEN 1 ELSE 0)
<1>1. IsFiniteSet(ChunksOf(C, b)) /\ x \notin ChunksOf(C, b)
  BY FS_Subset DEF ChunksOf
<1>2. Cardinality(ChunksOf(C, b)) \in Nat
  BY <1>1, FS_CardinalityType
<1>3. CASE x[1] = b
  <2>1. ChunksOf(C \cup {x}, b) = ChunksOf(C, b) \cup {x}
    BY <1>3 DEF ChunksOf
  <2>2. Cardinality(ChunksOf(C, b) \cup {x}) = Cardinality(ChunksOf(C, b)) + 1
    BY ONLY <1>1, FS_AddElement
  <2>3. QED
    BY ONLY <1>3, <2>1, <2>2
<1>4. CASE x[1] # b
  <2>1. ChunksOf(C \cup {x}, b) = ChunksOf(C, b)
    BY <1>4 DEF ChunksOf
  <2>2. QED
    BY <1>2, <1>4, <2>1
<1>5. QED
  BY <1>3, <1>4

(* A sum that grows by the number of chunks in each block.                 *)
LEMMA TotalChunks ==
  ASSUME NEW C \in SUBSET Addr, IsFiniteSet(C), NEW w \in [Blocks -> Int]
  PROVE  Total([b \in Blocks |-> w[b] + Cardinality(ChunksOf(C, b))], Blocks)
           = Total(w, Blocks) + Cardinality(C)
<1> DEFINE v(R) == [b \in Blocks |-> w[b] + Cardinality(ChunksOf(R, b))]
           G == {R \in SUBSET C : Total(v(R), Blocks) = Total(w, Blocks) + Cardinality(R)}
<1>1. IsFiniteSet(Blocks)
  BY Geometry
<1>2. \A R \in SUBSET C : IsFiniteSet(R) /\ Cardinality(R) \in Nat
  BY FS_Subset, FS_CardinalityType
<1>3. ASSUME NEW R \in SUBSET C PROVE v(R) \in [Blocks -> Int]
  <2>1. \A b \in Blocks : Cardinality(ChunksOf(R, b)) \in Nat
    BY <1>2, PagesCounted
  <2>2. QED
    BY <2>1
<1>4. Total(w, Blocks) \in Int
  BY <1>1, TotalSame
<1>5. {} \in G
  <2>1. \A b \in Blocks : ChunksOf({}, b) = {} /\ Cardinality(ChunksOf({}, b)) = 0
    BY FS_EmptySet DEF ChunksOf
  <2>2. v({}) = [b \in Blocks |-> w[b]]
    BY <2>1
  <2>3. v({}) = w
    BY <2>2
  <2>4. QED
    BY <1>4, <2>3, FS_EmptySet
<1>6. ASSUME NEW R \in SUBSET C, NEW x \in C, R \in G, x \notin R PROVE R \cup {x} \in G
  <2>1. PICK u, q : u = v(R) /\ q = v(R \cup {x})
    OBVIOUS
  <2>2. u \in [Blocks -> Int] /\ q \in [Blocks -> Int]
    BY <1>3, <2>1
  <2>3. x[1] \in Blocks
    BY AddrPair
  <2>4. \A b \in Blocks : /\ Cardinality(ChunksOf(R, b)) \in Nat
                          /\ Cardinality(ChunksOf(R \cup {x}, b))
                               = Cardinality(ChunksOf(R, b)) + (IF x[1] = b THEN 1 ELSE 0)
    BY <1>2, <1>6, ChunksAdd, PagesCounted
  <2>5. \A b \in Blocks : q[b] = u[b] + (IF x[1] = b THEN 1 ELSE 0)
    <3>1. ASSUME NEW b \in Blocks PROVE q[b] = u[b] + (IF x[1] = b THEN 1 ELSE 0)
      <4>1. q[b] = w[b] + Cardinality(ChunksOf(R \cup {x}, b)) /\ u[b] = w[b] + Cardinality(ChunksOf(R, b))
        BY <2>1
      <4>2. PICK i, j \in Int : i = w[b] /\ j = Cardinality(ChunksOf(R, b))
        BY <2>4
      <4>3. QED
        BY <2>4, <4>1, <4>2
    <3>2. QED
      BY <3>1
  <2>6. Total(q, Blocks) = Total(u, Blocks) - u[x[1]] + q[x[1]]
    <3>1. \A b \in Blocks \ {x[1]} : u[b] = q[b]
      BY <2>2, <2>5
    <3>2. QED
      BY <1>1, <2>2, <2>3, <3>1, TotalUpdate
  <2>7. Total(u, Blocks) \in Int
    BY <1>1, <2>2, TotalSame
  <2>8. Total(q, Blocks) = Total(u, Blocks) + 1
    BY <2>2, <2>3, <2>5, <2>6, <2>7
  <2>9. Cardinality(R \cup {x}) = Cardinality(R) + 1 /\ Cardinality(R) \in Nat
    BY <1>2, <1>6, FS_AddElement
  <2>10. Total(u, Blocks) = Total(w, Blocks) + Cardinality(R)
    BY <1>6, <2>1
  <2>11. QED
    BY <1>4, <2>1, <2>8, <2>9, <2>10
<1> HIDE DEF G
<1>7. C \in G
  BY <1>5, <1>6, SetInduction
<1>8. QED
  BY <1>7 DEF G

-----------------------------------------------------------------------------
(* A chunk in use that memory does not have, and its block counts it.      *)
Spare(d, o, c) ==
  /\ c \in Addr /\ c[2] \in d.blk[c[1]].bits /\ c[2] \notin Held(o, c[1])
  /\ d.blk[c[1]].state \in {"full", "allocating"} =>
        d.blk[c[1]].softDel + Cardinality(Held(o, c[1])) < Cardinality(d.blk[c[1]].bits)

Vacant(r) == IF r.state = "empty" THEN 1 ELSE 0

LEMMA OwnType ==
  ASSUME NEW o \in [Files -> Objects]
  PROVE  \A f \in Files, k \in 0 .. FileChunks : Own(o, f, k) \in Addr \cup {None}
<1>1. ASSUME NEW f \in Files, NEW k \in 0 .. FileChunks PROVE Own(o, f, k) \in Addr \cup {None}
  <2>1. o[f] \in Objects
    OBVIOUS
  <2>2. k # 0 => k \in 1 .. FileChunks
    BY Geometry
  <2>3. QED
    BY <2>1, <2>2 DEF Objects, Own
<1>2. QED
  BY <1>1

LEMMA HeldIn ==
  ASSUME NEW o \in [Files -> Objects], NEW d, NEW n, HeldOk(o, d, n)
  PROVE  \A b \in Blocks : Held(o, b) \subseteq d.blk[b].bits
<1> SUFFICES ASSUME NEW b \in Blocks, NEW p \in Held(o, b) PROVE p \in d.blk[b].bits
  OBVIOUS
<1>1. PICK f \in Files, k \in 0 .. FileChunks : Own(o, f, k) = <<b, p>> /\ p \in Pages
  BY DEF Held
<1>2. <<b, p>> # None /\ <<b, p>>[1] = b /\ <<b, p>>[2] = p
  BY <1>1, AddrPair, Distinct
<1>3. PICK c : c = Own(o, f, k) /\ c = <<b, p>>
  BY <1>1
<1>4. c[2] \in d.blk[c[1]].bits
  <2>1. Own(o, f, k) # None => Own(o, f, k)[2] \in d.blk[Own(o, f, k)[1]].bits
    BY DEF HeldOk
  <2>2. QED
    BY <1>2, <1>3, <2>1
<1>5. QED
  BY <1>2, <1>3, <1>4

LEMMA HeldKept ==
  ASSUME NEW o \in [Files -> Objects], NEW d, NEW e, NEW n, HeldOk(o, d, n),
         \A b \in Blocks : Held(o, b) \subseteq e.blk[b].bits
  PROVE  HeldOk(o, e, n)
<1> SUFFICES ASSUME NEW f \in Files, NEW k \in 0 .. FileChunks, Own(o, f, k) # None
             PROVE  Own(o, f, k)[2] \in e.blk[Own(o, f, k)[1]].bits
  BY DEF HeldOk
<1>1. PICK c \in Addr : c = Own(o, f, k)
  BY OwnType
<1>2. c[1] \in Blocks /\ c[2] \in Pages /\ c = <<c[1], c[2]>>
  BY AddrPair
<1>3. c[2] \in Held(o, c[1])
  BY <1>1, <1>2 DEF Held
<1>4. QED
  BY <1>1, <1>2, <1>3

LEMMA CountsUpdate ==
  ASSUME NEW d \in Devices, NEW e \in Devices, CountsOk(d), NEW x \in Blocks,
         \A b \in Blocks \ {x} : e.blk[b] = d.blk[b],
         e.free = d.free - Room(d.blk[x]) + Room(e.blk[x]),
         e.erased = d.erased - Vacant(d.blk[x]) + Vacant(e.blk[x])
  PROVE  CountsOk(e)
<1>1. d.blk \in [Blocks -> BlockInfos] /\ e.blk \in [Blocks -> BlockInfos] /\ IsFiniteSet(Blocks)
  BY Geometry DEF Devices
<1>2. PICK w, v : w = Rooms(d.blk) /\ v = Rooms(e.blk)
  OBVIOUS
<1>3. w \in [Blocks -> Int] /\ v \in [Blocks -> Int]
  BY <1>1, <1>2, WeightsType
<1>4. \A b \in Blocks : w[b] = Room(d.blk[b]) /\ v[b] = Room(e.blk[b])
  BY <1>2 DEF Rooms
<1>5. \A b \in Blocks \ {x} : w[b] = v[b]
  BY <1>4
<1>6. Total(v, Blocks) = Total(w, Blocks) - w[x] + v[x]
  BY <1>1, <1>3, <1>5, TotalUpdate
<1>7. e.free = Total(v, Blocks)
  BY <1>2, <1>4, <1>6 DEF CountsOk
<1>8. PICK D, E : D = InState(d.blk, {"empty"}) /\ E = InState(e.blk, {"empty"})
  OBVIOUS
<1>9. D \subseteq Blocks /\ E \subseteq Blocks /\ IsFiniteSet(D) /\ IsFiniteSet(E)
  BY <1>1, <1>8, FS_Subset DEF InState
<1>10. /\ x \in D <=> d.blk[x].state = "empty"
       /\ x \in E <=> e.blk[x].state = "empty"
       /\ D \ {x} = E \ {x}
  BY <1>8 DEF InState
<1>11. /\ Cardinality(D \ {x}) = Cardinality(D) - Vacant(d.blk[x])
       /\ Cardinality(E \ {x}) = Cardinality(E) - Vacant(e.blk[x])
  <2>1. Cardinality(D) \in Nat /\ Cardinality(E) \in Nat
    BY <1>9, FS_CardinalityType
  <2>2. /\ Cardinality(D \ {x}) = IF x \in D THEN Cardinality(D) - 1 ELSE Cardinality(D)
        /\ Cardinality(E \ {x}) = IF x \in E THEN Cardinality(E) - 1 ELSE Cardinality(E)
    BY <1>9, FS_RemoveElement
  <2>3. QED
    BY <1>10, <2>1, <2>2 DEF Vacant
<1>12. e.erased = Cardinality(E)
  <2>1. PICK i, j, m \in Int : i = Cardinality(D) /\ j = Cardinality(E) /\ m = Cardinality(D \ {x})
    BY <1>9, FS_CardinalityType, FS_Subset
  <2>2. Vacant(d.blk[x]) \in Int /\ Vacant(e.blk[x]) \in Int
    BY DEF Vacant
  <2>3. m = i - Vacant(d.blk[x]) /\ m = j - Vacant(e.blk[x])
    BY <1>10, <1>11, <2>1
  <2>4. d.erased = i
    BY <1>8, <2>1 DEF CountsOk
  <2>5. QED
    BY <2>1, <2>2, <2>3, <2>4
<1>13. QED
  BY <1>2, <1>7, <1>8, <1>12 DEF CountsOk

(* A block that is not collected and holds no more than it did.            *)
LEMMA HeldFinite ==
  ASSUME NEW o, NEW b
  PROVE  Held(o, b) \in SUBSET Pages /\ IsFiniteSet(Held(o, b)) /\ Cardinality(Held(o, b)) \in Nat
BY PagesFinite DEF Held

LEMMA ReadyOk ==
  ASSUME NEW d, NEW o \in [Files -> Objects], NEW n \in Flash, NEW g, DevOk(d, o, n, g)
  PROVE  DevOk(Ready(d), o, n, g)
<1> DEFINE empty == InState(d.blk, {"empty"})
           x == CHOOSE y \in empty : \A z \in empty : y <= z
<1>1. d \in Devices
  BY DEF DevOk
<1>2. CASE d.alloc # None \/ d.erased < 1 \/ empty = {}
  BY <1>2 DEF Ready, FindBlockForAllocation
<1>3. CASE d.alloc = None /\ ~(d.erased < 1) /\ empty # {}
  <2>1. empty \in SUBSET Nat /\ empty \subseteq Blocks
    BY Geometry DEF InState
  <2>2. x \in empty
    BY <1>3, <2>1, LeastLemma
  <2>3. PICK b \in Blocks : b = x /\ d.blk[b].state = "empty"
    BY <2>1, <2>2 DEF InState
  <2>4. PICK e : e = Ready(d)
    OBVIOUS
  <2>5. e = [d EXCEPT !.alloc = b, !.page = 1, !.seq = @ + 1, !.erased = @ - 1,
                      !.blk[b].state = "allocating", !.blk[b].seq = d.seq + 1]
    BY <1>3, <2>3, <2>4 DEF Ready, FindBlockForAllocation
  <2>6. d.blk[b] \in BlockInfos /\ d.seq \in Nat /\ d.erased \in Int /\ d.blk \in [Blocks -> BlockInfos]
    BY <1>1 DEF Devices
  <2>7. PICK r : r = [d.blk[b] EXCEPT !.state = "allocating", !.seq = d.seq + 1]
    OBVIOUS
  <2>8. /\ r \in BlockInfos /\ r.state = "allocating" /\ r.bits = d.blk[b].bits
        /\ r.pagesInUse = d.blk[b].pagesInUse /\ r.softDel = d.blk[b].softDel
    <3>1. r = [state |-> "allocating", seq |-> d.seq + 1, bits |-> d.blk[b].bits,
               pagesInUse |-> d.blk[b].pagesInUse, softDel |-> d.blk[b].softDel,
               shrink |-> d.blk[b].shrink, retire |-> d.blk[b].retire]
      BY <2>6, <2>7 DEF BlockInfos
    <3>2. "allocating" \in States /\ d.seq + 1 \in Nat
      BY <2>6 DEF States
    <3>3. QED
      BY <2>6, <3>1, <3>2 DEF BlockInfos
  <2>9. e.blk = [d.blk EXCEPT ![b] = r]
    BY <1>1, <2>5, <2>6, <2>7 DEF Devices, BlockInfos
  <2>10. e.blk[b] = r /\ (\A y \in Blocks \ {b} : e.blk[y] = d.blk[y]) /\ e.blk \in [Blocks -> BlockInfos]
    BY <2>6, <2>8, <2>9
  <2>11. e.alloc = b /\ e.page = 1 /\ e.seq = d.seq + 1 /\ e.erased = d.erased - 1 /\ e.free = d.free
    BY <1>1, <2>5 DEF Devices
  <2>12. e \in Devices
    <3>1. e = [blk |-> e.blk, alloc |-> b, page |-> 1, seq |-> d.seq + 1,
               erased |-> d.erased - 1, free |-> d.free]
      BY <1>1, <2>5 DEF Devices
    <3>2. d.free \in Int
      BY <1>1 DEF Devices
    <3>3. QED
      BY <2>6, <2>10, <3>1, <3>2 DEF Devices
  <2>13. HeldOk(o, d, n)
    BY DEF DevOk
  <2>14. HeldOk(o, e, n)
    <3>1. \A y \in Blocks : Held(o, y) \subseteq d.blk[y].bits
      BY <2>13, HeldIn
    <3>2. \A y \in Blocks : Held(o, y) \subseteq e.blk[y].bits
      BY <2>8, <2>10, <3>1
    <3>3. QED
      BY <2>13, <3>2, HeldKept
  <2>15. \A y \in Blocks : BlockOk(d, o, g, y)
    BY DEF DevOk
  <2>16. d.blk[b].bits = {} /\ d.blk[b].softDel = 0 /\ d.blk[b].pagesInUse = Cardinality({})
    BY <2>3, <2>15 DEF BlockOk
  <2>17. ASSUME NEW y \in Blocks PROVE BlockOk(e, o, g, y)
    <3>1. CASE y = b
      <4>1. Held(o, b) = {}
        BY <2>13, <2>16, HeldIn
      <4>2. Cardinality({}) = 0
        BY FS_EmptySet
      <4>3. r.bits = {} /\ r.softDel = 0 /\ r.pagesInUse = Cardinality(r.bits)
        BY <2>8, <2>16
      <4>4. r.softDel + Cardinality(Held(o, b)) <= Cardinality(r.bits)
        BY <4>1, <4>2, <4>3
      <4>5. QED
        BY <2>8, <2>10, <3>1, <4>3, <4>4 DEF BlockOk
    <3>2. CASE y # b
      BY <2>10, <2>15, <3>2 DEF BlockOk
    <3>3. QED
      BY <3>1, <3>2
  <2>18. AllocOk(e, n)
    <3>1. 1 \in Pages
      BY Geometry DEF Pages
    <3>2. Len(n[b]) \in Nat
      BY DEF Flash
    <3>3. QED
      BY <2>8, <2>10, <2>11, <2>16, <3>1, <3>2 DEF AllocOk
  <2>19. CountsOk(e)
    <3>1. CountsOk(d)
      BY DEF DevOk
    <3>2. Room(r) = Room(d.blk[b]) /\ Room(r) \in Int
      BY <2>3, <2>6, <2>8, Geometry DEF Room, BlockInfos
    <3>3. Vacant(r) = 0 /\ Vacant(d.blk[b]) = 1
      BY <2>3, <2>8 DEF Vacant
    <3>4. d.free \in Int
      BY <1>1 DEF Devices
    <3>5. e.free = d.free - Room(d.blk[b]) + Room(e.blk[b])
      BY <2>10, <2>11, <3>2, <3>4
    <3>6. e.erased = d.erased - Vacant(d.blk[b]) + Vacant(e.blk[b])
      BY <2>6, <2>10, <2>11, <3>3
    <3>7. QED
      BY <1>1, <2>10, <2>12, <3>1, <3>5, <3>6, CountsUpdate
  <2>20. QED
    BY <2>4, <2>12, <2>14, <2>17, <2>18, <2>19 DEF DevOk
<1>4. QED
  BY <1>2, <1>3

LEMMA ProgramHeld ==
  ASSUME NEW o \in [Files -> Objects], NEW d, NEW n \in Flash, NEW b \in Blocks,
         NEW page \in PagesOfLog \cup {Torn}, HeldOk(o, d, n)
  PROVE  /\ [n EXCEPT ![b] = Append(@, page)] \in Flash
         /\ HeldOk(o, d, [n EXCEPT ![b] = Append(@, page)])
<1>1. PICK m : m = [n EXCEPT ![b] = Append(@, page)]
  OBVIOUS
<1>2. n[b] \in Seq(PagesOfLog \cup {Torn})
  BY DEF Flash
<1>3. /\ Append(n[b], page) \in Seq(PagesOfLog \cup {Torn}) /\ Len(Append(n[b], page)) = Len(n[b]) + 1
      /\ \A i \in 1 .. Len(n[b]) : Append(n[b], page)[i] = n[b][i]
      /\ Len(n[b]) \in Nat
  BY <1>2, AppendProperties, LenProperties
<1>4. m \in Flash /\ m[b] = Append(n[b], page) /\ \A y \in Blocks \ {b} : m[y] = n[y]
  BY <1>1, <1>3 DEF Flash
<1>5. ASSUME NEW f \in Files, NEW k \in 0 .. FileChunks, Own(o, f, k) # None
      PROVE  LET c == Own(o, f, k) IN
             /\ o[f].here /\ c[2] \in d.blk[c[1]].bits
             /\ c[2] <= Len(m[c[1]]) /\ m[c[1]][c[2]] # Torn
             /\ m[c[1]][c[2]].file = f /\ m[c[1]][c[2]].chunk = k
  <2>1. PICK c \in Addr : c = Own(o, f, k)
    BY <1>5, OwnType
  <2>2. c[1] \in Blocks /\ c[2] \in Pages
    BY AddrPair
  <2>3. /\ o[f].here /\ c[2] \in d.blk[c[1]].bits
        /\ c[2] <= Len(n[c[1]]) /\ n[c[1]][c[2]] # Torn
        /\ n[c[1]][c[2]].file = f /\ n[c[1]][c[2]].chunk = k
    BY <1>5, <2>1 DEF HeldOk
  <2>4. c[2] \in Nat /\ c[2] >= 1
    BY <2>2, Geometry DEF Pages
  <2>5. c[2] <= Len(m[c[1]]) /\ m[c[1]][c[2]] = n[c[1]][c[2]]
    <3>1. CASE c[1] = b
      BY <1>3, <1>4, <2>3, <2>4, <3>1
    <3>2. CASE c[1] # b
      BY <1>4, <2>2, <2>3, <3>2
    <3>3. QED
      BY <3>1, <3>2
  <2>6. QED
    BY <2>1, <2>3, <2>5
<1>6. HeldOk(o, d, m)
  BY <1>5 DEF HeldOk
<1>7. QED
  BY <1>1, <1>4, <1>6

LEMMA AllocatedOk ==
  ASSUME NEW d, NEW o \in [Files -> Objects], NEW n \in Flash, NEW m \in Flash, NEW g,
         DevOk(d, o, n, g), d.alloc # None, HeldOk(o, d, m), d.page <= Len(m[d.alloc])
  PROVE  /\ DevOk(Allocated(d), o, m, g)
         /\ Spare(Allocated(d), o, NextChunk(d))
         /\ Allocated(d).blk[d.alloc].state \in {"full", "allocating"}
         /\ NextChunk(d) \in Addr
<1>1. d \in Devices /\ HeldOk(o, d, n) /\ AllocOk(d, n) /\ CountsOk(d)
      /\ \A y \in Blocks : BlockOk(d, o, g, y)
  BY DEF DevOk
<1>2. PICK b \in Blocks : b = d.alloc
  BY <1>1 DEF Devices
<1>3. PICK p : p = d.page
  OBVIOUS
<1>4. PICK r : r = d.blk[b]
  OBVIOUS
<1>5. /\ r \in BlockInfos /\ d.blk \in [Blocks -> BlockInfos] /\ d.free \in Int /\ d.erased \in Int
      /\ d.seq \in Nat
  BY <1>1, <1>4 DEF Devices
<1>6. r.state = "allocating" /\ p \in Pages /\ \A q \in r.bits : q < p
  BY <1>1, <1>2, <1>3, <1>4 DEF AllocOk
<1>7. p \in Nat /\ p >= 1 /\ p <= ChunksPerBlock /\ ChunksPerBlock \in Nat /\ p \notin r.bits
  BY <1>6, Geometry DEF Pages
<1>8. BlockOk(d, o, g, b)
  BY <1>1
<1>9. /\ r.pagesInUse = Cardinality(r.bits) /\ r.pagesInUse \in Nat /\ r.softDel \in Nat
      /\ r.softDel + Cardinality(Held(o, b)) <= Cardinality(r.bits)
      /\ r.bits \in SUBSET Pages /\ r.shrink \in BOOLEAN /\ r.retire \in BOOLEAN /\ r.seq \in Nat
  BY <1>4, <1>5, <1>6, <1>8 DEF BlockOk, BlockInfos
<1>10. PICK u : u = [state |-> IF p = ChunksPerBlock THEN "full" ELSE "allocating", seq |-> r.seq,
                     bits |-> r.bits \cup {p}, pagesInUse |-> r.pagesInUse + 1,
                     softDel |-> r.softDel, shrink |-> r.shrink, retire |-> r.retire]
  OBVIOUS
<1>11. PICK e : e = Allocated(d)
  OBVIOUS
<1>12. e.blk = [d.blk EXCEPT ![b] = u]
  <2>1. u = [r EXCEPT !.bits = @ \cup {p}, !.pagesInUse = @ + 1,
                      !.state = IF p = ChunksPerBlock THEN "full" ELSE @]
    <3>1. PICK w : w = [r EXCEPT !.bits = @ \cup {p}, !.pagesInUse = @ + 1,
                                 !.state = IF p = ChunksPerBlock THEN "full" ELSE @]
      OBVIOUS
    <3>2. w = [state |-> w.state, seq |-> w.seq, bits |-> w.bits, pagesInUse |-> w.pagesInUse,
               softDel |-> w.softDel, shrink |-> w.shrink, retire |-> w.retire]
      BY <1>5, <3>1 DEF BlockInfos
    <3>3. /\ w.state = (IF p = ChunksPerBlock THEN "full" ELSE r.state) /\ w.seq = r.seq
          /\ w.bits = r.bits \cup {p} /\ w.pagesInUse = r.pagesInUse + 1
          /\ w.softDel = r.softDel /\ w.shrink = r.shrink /\ w.retire = r.retire
      BY <1>5, <3>1 DEF BlockInfos
    <3>4. QED
      BY <1>6, <1>10, <3>1, <3>2, <3>3
  <2>2. e = [d EXCEPT !.free = @ - 1, !.page = @ + 1,
                      !.alloc = IF p = ChunksPerBlock THEN None ELSE @, !.blk[b] = u]
    BY <1>2, <1>3, <1>4, <1>11, <2>1 DEF Allocated
  <2>3. QED
    BY <1>1, <2>2 DEF Devices
<1>13. /\ e.alloc = (IF p = ChunksPerBlock THEN None ELSE b) /\ e.page = p + 1
       /\ e.free = d.free - 1 /\ e.erased = d.erased /\ e.seq = d.seq
  BY <1>1, <1>2, <1>3, <1>11 DEF Allocated, Devices
<1>14. u \in BlockInfos /\ u.state \in {"full", "allocating"}
  <2>1. u.state \in States /\ u.bits \in SUBSET Pages /\ u.pagesInUse \in Nat
    BY <1>6, <1>9, <1>10 DEF States
  <2>2. QED
    BY <1>9, <1>10, <2>1 DEF BlockInfos
<1>15. e.blk[b] = u /\ (\A y \in Blocks \ {b} : e.blk[y] = d.blk[y]) /\ e.blk \in [Blocks -> BlockInfos]
  BY <1>5, <1>12, <1>14
<1>16. e \in Devices
  <2>1. e = [blk |-> e.blk, alloc |-> e.alloc, page |-> e.page, seq |-> e.seq,
             erased |-> e.erased, free |-> e.free]
    BY <1>1, <1>11 DEF Allocated, Devices
  <2>2. e.alloc \in Blocks \cup {None} /\ e.page \in Nat /\ e.free \in Int
    BY <1>5, <1>7, <1>13
  <2>3. QED
    BY <1>5, <1>13, <1>15, <2>1, <2>2 DEF Devices
<1>17. \A y \in Blocks : Held(o, y) \subseteq d.blk[y].bits
  BY <1>1, HeldIn
<1>18. HeldOk(o, e, m)
  <2>1. \A y \in Blocks : Held(o, y) \subseteq e.blk[y].bits
    BY <1>4, <1>10, <1>15, <1>17
  <2>2. QED
    BY <2>1, HeldKept
<1>19. Cardinality(u.bits) = Cardinality(r.bits) + 1
  <2>1. IsFiniteSet(r.bits)
    BY <1>9, PagesFinite
  <2>2. QED
    BY <1>7, <1>10, <2>1, FS_AddElement
<1>20. u.softDel + Cardinality(Held(o, b)) < Cardinality(u.bits)
  <2>1. Cardinality(Held(o, b)) \in Nat
    BY HeldFinite
  <2>2. u.softDel = r.softDel
    BY <1>10
  <2>3. QED
    BY <1>9, <1>19, <2>1, <2>2
<1>21. ASSUME NEW y \in Blocks PROVE BlockOk(e, o, g, y)
  <2>1. CASE y = b
    <3>1. u.pagesInUse = Cardinality(u.bits)
      BY <1>9, <1>10, <1>19
    <3>2. u.softDel + Cardinality(Held(o, b)) <= Cardinality(u.bits)
      <4>1. Cardinality(Held(o, b)) \in Nat /\ Cardinality(u.bits) \in Nat /\ u.softDel \in Nat
        BY <1>9, <1>10, <1>19, HeldFinite
      <4>2. QED
        BY <1>20, <4>1
    <3>3. QED
      BY <1>14, <1>15, <2>1, <3>1, <3>2 DEF BlockOk
  <2>2. CASE y # b
    <3>1. BlockOk(d, o, g, y)
      BY <1>1
    <3>2. QED
      BY <1>15, <2>2, <3>1 DEF BlockOk
  <2>3. QED
    BY <2>1, <2>2
<1>22. AllocOk(e, m)
  <2> SUFFICES ASSUME e.alloc # None
               PROVE  /\ e.blk[e.alloc].state = "allocating"
                      /\ e.page \in Pages /\ e.page <= Len(m[e.alloc]) + 1
                      /\ \A q \in e.blk[e.alloc].bits : q < e.page
    BY DEF AllocOk
  <2>1. p # ChunksPerBlock /\ e.alloc = b
    BY <1>13
  <2>2. u.state = "allocating" /\ u.bits = r.bits \cup {p}
    BY <1>10, <2>1
  <2>3. p + 1 \in Pages
    BY <1>7, <2>1 DEF Pages
  <2>4. p + 1 <= Len(m[b]) + 1
    <3>1. Len(m[b]) \in Nat
      BY DEF Flash
    <3>2. QED
      BY <1>2, <1>3, <1>7, <3>1
  <2>5. \A q \in r.bits \cup {p} : q < p + 1
    <3>1. \A q \in r.bits : q \in Nat
      BY <1>9, Geometry DEF Pages
    <3>2. QED
      BY <1>6, <1>7, <3>1
  <2>6. QED
    BY <1>13, <1>15, <2>1, <2>2, <2>3, <2>4, <2>5
<1>23. CountsOk(e)
  <2>1. Room(r) = ChunksPerBlock - r.pagesInUse + r.softDel
    BY <1>6 DEF Room
  <2>2. Room(u) = ChunksPerBlock - u.pagesInUse + u.softDel
    BY <1>14 DEF Room
  <2>3. Room(u) = Room(r) - 1 /\ Room(r) \in Int
    BY <1>7, <1>9, <1>10, <2>1, <2>2
  <2>4. Vacant(u) = 0 /\ Vacant(r) = 0
    BY <1>6, <1>14 DEF Vacant
  <2>5. e.free = d.free - Room(d.blk[b]) + Room(e.blk[b])
    BY <1>4, <1>5, <1>13, <1>15, <2>3
  <2>6. e.erased = d.erased - Vacant(d.blk[b]) + Vacant(e.blk[b])
    BY <1>4, <1>5, <1>13, <1>15, <2>4
  <2>7. QED
    BY <1>1, <1>15, <1>16, <2>5, <2>6, CountsUpdate
<1>24. PICK c : c = <<b, p>>
  OBVIOUS
<1>241. c = NextChunk(d) /\ c[1] = b /\ c[2] = p
  BY <1>2, <1>3, <1>24 DEF NextChunk
<1>25. Spare(e, o, c) /\ c \in Addr
  <2>1. c \in Addr
    BY <1>6, <1>24, AddrPair
  <2>2. c[2] \in u.bits /\ c[2] \notin Held(o, b)
    BY <1>4, <1>7, <1>10, <1>17, <1>241
  <2>3. QED
    BY <1>15, <1>20, <1>241, <2>1, <2>2 DEF Spare
<1>26. QED
  BY <1>2, <1>11, <1>14, <1>15, <1>16, <1>18, <1>21, <1>22, <1>23, <1>241, <1>25 DEF DevOk

LEMMA DeleteOk ==
  ASSUME NEW d, NEW o \in [Files -> Objects], NEW n \in Flash, NEW g,
         DevOk(d, o, n, g), NEW c, Spare(d, o, c)
  PROVE  /\ DevOk(DeleteChunk(d, c), o, n, g)
         /\ \A y \in Blocks : DeleteChunk(d, c).blk[y].state \in {d.blk[y].state, "dirty"}
<1>1. d \in Devices /\ HeldOk(o, d, n) /\ AllocOk(d, n) /\ CountsOk(d)
      /\ \A y \in Blocks : BlockOk(d, o, g, y)
  BY DEF DevOk
<1>2. PICK b \in Blocks, p \in Pages : b = c[1] /\ p = c[2]
  BY AddrPair DEF Spare
<1>3. PICK r : r = d.blk[b]
  OBVIOUS
<1>4. /\ r \in BlockInfos /\ d.blk \in [Blocks -> BlockInfos] /\ d.free \in Int /\ d.erased \in Int
      /\ d.seq \in Nat
  BY <1>1, <1>3 DEF Devices
<1>5. /\ p \in r.bits /\ p \notin Held(o, b) /\ c # None
      /\ r.state \in {"full", "allocating"} =>
            r.softDel + Cardinality(Held(o, b)) < Cardinality(r.bits)
  BY <1>2, <1>3, Distinct DEF Spare
<1>6. BlockOk(d, o, g, b)
  BY <1>1
<1>7. r.state \in {"allocating", "full", "collecting"}
  <2>1. r.state \in States
    BY <1>4 DEF BlockInfos
  <2>2. r.state \notin {"empty", "dirty", "dead"}
    BY <1>3, <1>5, <1>6 DEF BlockOk
  <2>3. QED
    BY <2>1, <2>2 DEF States
<1>8. /\ r.pagesInUse = Cardinality(r.bits) /\ r.pagesInUse \in Nat /\ r.softDel \in Nat
      /\ r.bits \in SUBSET Pages /\ r.shrink \in BOOLEAN /\ r.retire \in BOOLEAN /\ r.seq \in Nat
      /\ r.state = "collecting" => b = g /\ ~r.shrink
  BY <1>3, <1>4, <1>6 DEF BlockOk, BlockInfos
<1>9. PICK s : s = IF r.pagesInUse = 1 /\ ~r.shrink /\ r.state # "allocating" THEN "dirty" ELSE r.state
  OBVIOUS
<1>10. PICK u : u = [state |-> s, seq |-> r.seq, bits |-> r.bits \ {p},
                     pagesInUse |-> r.pagesInUse - 1, softDel |-> r.softDel,
                     shrink |-> r.shrink, retire |-> r.retire]
  OBVIOUS
<1>11. PICK e : e = DeleteChunk(d, c)
  OBVIOUS
<1>12. e = [d EXCEPT !.free = @ + 1, !.blk[b] = u]
  <2>1. PICK w : w = [r EXCEPT !.bits = @ \ {p}, !.pagesInUse = @ - 1,
                               !.state = IF r.pagesInUse = 1 /\ ~r.shrink /\ r.state # "allocating"
                                         THEN "dirty" ELSE @]
    OBVIOUS
  <2>2. w = [state |-> w.state, seq |-> w.seq, bits |-> w.bits, pagesInUse |-> w.pagesInUse,
             softDel |-> w.softDel, shrink |-> w.shrink, retire |-> w.retire]
    BY <1>4, <2>1 DEF BlockInfos
  <2>3. /\ w.state = s /\ w.seq = r.seq /\ w.bits = r.bits \ {p} /\ w.pagesInUse = r.pagesInUse - 1
        /\ w.softDel = r.softDel /\ w.shrink = r.shrink /\ w.retire = r.retire
    BY <1>4, <1>9, <2>1 DEF BlockInfos
  <2>4. w = u
    BY <1>10, <2>2, <2>3
  <2>5. ~(c = None \/ d.blk[c[1]].state \notin {"allocating", "full", "collecting"})
    BY <1>2, <1>3, <1>5, <1>7
  <2>6. QED
    BY <1>2, <1>3, <1>11, <2>1, <2>4, <2>5 DEF DeleteChunk
<1>13. /\ e.alloc = d.alloc /\ e.page = d.page /\ e.free = d.free + 1 /\ e.erased = d.erased
       /\ e.seq = d.seq /\ e.blk = [d.blk EXCEPT ![b] = u]
       /\ e = [blk |-> e.blk, alloc |-> e.alloc, page |-> e.page, seq |-> e.seq,
               erased |-> e.erased, free |-> e.free]
  BY <1>1, <1>12 DEF Devices
<1>14. Cardinality(r.bits \ {p}) = Cardinality(r.bits) - 1 /\ Cardinality(r.bits \ {p}) \in Nat
       /\ IsFiniteSet(r.bits \ {p})
  <2>1. IsFiniteSet(r.bits) /\ r.bits \ {p} \in SUBSET Pages
    BY <1>8, PagesFinite
  <2>2. QED
    BY <1>5, <2>1, FS_RemoveElement, PagesFinite
<1>15. s \in States /\ s \in {r.state, "dirty"} /\ s # "empty"
  BY <1>7, <1>9 DEF States
<1>16. u \in BlockInfos
  <2>1. r.pagesInUse - 1 \in Nat /\ r.bits \ {p} \in SUBSET Pages
    BY <1>8, <1>14
  <2>2. QED
    BY <1>8, <1>10, <1>15, <2>1 DEF BlockInfos
<1>17. e.blk[b] = u /\ (\A y \in Blocks \ {b} : e.blk[y] = d.blk[y]) /\ e.blk \in [Blocks -> BlockInfos]
  BY <1>4, <1>13, <1>16
<1>18. e \in Devices
  <2>1. e.alloc \in Blocks \cup {None} /\ e.page \in Nat /\ e.free \in Int
    BY <1>1, <1>4, <1>13 DEF Devices
  <2>2. QED
    BY <1>4, <1>13, <1>17, <2>1 DEF Devices
<1>19. HeldOk(o, e, n)
  <2>1. \A y \in Blocks : Held(o, y) \subseteq d.blk[y].bits
    BY <1>1, HeldIn
  <2>2. \A y \in Blocks : Held(o, y) \subseteq e.blk[y].bits
    BY <1>3, <1>5, <1>10, <1>17, <2>1
  <2>3. QED
    BY <1>1, <2>2, HeldKept
<1>20. s = "dirty" => /\ r.bits \ {p} = {} /\ r.pagesInUse = 1
                      /\ r.state # "collecting" => r.softDel = 0
  <2> SUFFICES ASSUME s = "dirty" PROVE /\ r.bits \ {p} = {} /\ r.pagesInUse = 1
                                        /\ r.state # "collecting" => r.softDel = 0
    OBVIOUS
  <2>1. r.pagesInUse = 1
    BY <1>7, <1>9
  <2>2. Cardinality(r.bits \ {p}) = 0
    BY <1>8, <1>14, <2>1
  <2>3. r.bits \ {p} = {}
    BY <1>14, <2>2, FS_EmptySet
  <2>4. ASSUME r.state # "collecting" PROVE r.softDel = 0
    <3>1. r.softDel + Cardinality(Held(o, b)) < 1
      BY <1>5, <1>7, <1>8, <2>1, <2>4
    <3>2. Cardinality(Held(o, b)) \in Nat
      BY HeldFinite
    <3>3. QED
      BY <1>8, <3>1, <3>2
  <2>5. QED
    BY <2>1, <2>3, <2>4
<1>21. ASSUME NEW y \in Blocks PROVE BlockOk(e, o, g, y)
  <2>1. CASE y = b
    <3>1. u.pagesInUse = Cardinality(u.bits)
      BY <1>8, <1>10, <1>14
    <3>2. u.state \in {"empty", "dirty", "dead"} => u.bits = {}
      BY <1>7, <1>10, <1>15, <1>20
    <3>3. u.state # "empty"
      BY <1>10, <1>15
    <3>4. u.state \in {"full", "allocating"} => u.softDel + Cardinality(Held(o, b)) <= Cardinality(u.bits)
      <4> SUFFICES ASSUME u.state \in {"full", "allocating"}
                   PROVE  u.softDel + Cardinality(Held(o, b)) <= Cardinality(u.bits)
        OBVIOUS
      <4>1. r.state \in {"full", "allocating"}
        BY <1>10, <1>15
      <4>2. Cardinality(Held(o, b)) \in Nat /\ Cardinality(r.bits) \in Nat
        BY <1>8, HeldFinite
      <4>3. u.softDel = r.softDel /\ u.bits = r.bits \ {p}
        BY <1>10
      <4>4. QED
        BY <1>5, <1>8, <1>14, <4>1, <4>2, <4>3
    <3>5. u.state = "collecting" => b = g /\ u.bits # {} /\ ~u.shrink
      <4> SUFFICES ASSUME u.state = "collecting" PROVE b = g /\ u.bits # {} /\ ~u.shrink
        OBVIOUS
      <4>1. r.state = "collecting" /\ s = r.state
        BY <1>10, <1>15
      <4>2. b = g /\ ~r.shrink
        BY <1>8, <4>1
      <4>3. r.pagesInUse # 1
        BY <1>9, <4>1, <4>2
      <4>4. Cardinality(r.bits \ {p}) # 0
        BY <1>8, <1>14, <4>3
      <4>5. r.bits \ {p} # {}
        BY <4>4, FS_EmptySet
      <4>6. QED
        BY <1>10, <4>2, <4>5
    <3>6. QED
      BY <1>17, <2>1, <3>1, <3>2, <3>3, <3>4, <3>5 DEF BlockOk
  <2>2. CASE y # b
    <3>1. BlockOk(d, o, g, y)
      BY <1>1
    <3>2. QED
      BY <1>17, <2>2, <3>1 DEF BlockOk
  <2>3. QED
    BY <2>1, <2>2
<1>22. AllocOk(e, n)
  <2> SUFFICES ASSUME e.alloc # None
               PROVE  /\ e.blk[e.alloc].state = "allocating"
                      /\ e.page \in Pages /\ e.page <= Len(n[e.alloc]) + 1
                      /\ \A q \in e.blk[e.alloc].bits : q < e.page
    BY DEF AllocOk
  <2>1. /\ d.blk[d.alloc].state = "allocating"
        /\ d.page \in Pages /\ d.page <= Len(n[d.alloc]) + 1
        /\ \A q \in d.blk[d.alloc].bits : q < d.page
    BY <1>1, <1>13 DEF AllocOk
  <2>2. d.alloc \in Blocks
    BY <1>1, <1>13 DEF Devices
  <2>3. CASE d.alloc = b
    <3>1. u.state = "allocating" /\ u.bits \subseteq r.bits
      BY <1>3, <1>9, <1>10, <2>1, <2>3
    <3>2. QED
      BY <1>3, <1>13, <1>17, <2>1, <2>3, <3>1
  <2>4. CASE d.alloc # b
    BY <1>13, <1>17, <2>1, <2>2, <2>4
  <2>5. QED
    BY <2>3, <2>4
<1>23. CountsOk(e)
  <2>1. ChunksPerBlock \in Int
    BY Geometry
  <2>2. Room(u) = Room(r) + 1 /\ Room(r) \in Int
    <3>1. CASE r.state = "collecting"
      <4>1. Room(r) = ChunksPerBlock - r.pagesInUse
        BY <3>1 DEF Room
      <4>2. CASE s = "dirty"
        <5>1. Room(u) = ChunksPerBlock
          BY <1>10, <4>2 DEF Room
        <5>2. QED
          BY <1>20, <2>1, <4>1, <4>2, <5>1
      <4>3. CASE s = r.state
        <5>1. Room(u) = ChunksPerBlock - u.pagesInUse
          BY <1>10, <3>1, <4>3 DEF Room
        <5>2. QED
          BY <1>8, <1>10, <2>1, <4>1, <5>1
      <4>4. QED
        BY <1>15, <4>2, <4>3
    <3>2. CASE r.state # "collecting"
      <4>1. Room(r) = ChunksPerBlock - r.pagesInUse + r.softDel
        BY <1>7, <3>2 DEF Room
      <4>2. CASE s = "dirty"
        <5>1. Room(u) = ChunksPerBlock
          BY <1>10, <4>2 DEF Room
        <5>2. QED
          BY <1>20, <2>1, <3>2, <4>1, <4>2, <5>1
      <4>3. CASE s = r.state
        <5>1. Room(u) = ChunksPerBlock - u.pagesInUse + u.softDel
          BY <1>7, <1>10, <3>2, <4>3 DEF Room
        <5>2. QED
          BY <1>8, <1>10, <2>1, <4>1, <5>1
      <4>4. QED
        BY <1>15, <4>2, <4>3
    <3>3. QED
      BY <3>1, <3>2
  <2>3. Vacant(u) = 0 /\ Vacant(r) = 0
    BY <1>7, <1>10, <1>15 DEF Vacant
  <2>4. e.free = d.free - Room(d.blk[b]) + Room(e.blk[b])
    BY <1>3, <1>4, <1>13, <1>17, <2>2
  <2>5. e.erased = d.erased - Vacant(d.blk[b]) + Vacant(e.blk[b])
    BY <1>3, <1>4, <1>13, <1>17, <2>3
  <2>6. QED
    BY <1>1, <1>17, <1>18, <2>4, <2>5, CountsUpdate
<1>24. \A y \in Blocks : e.blk[y].state \in {d.blk[y].state, "dirty"}
  BY <1>3, <1>10, <1>15, <1>17
<1>25. QED
  BY <1>11, <1>18, <1>19, <1>21, <1>22, <1>23, <1>24 DEF DevOk

(* The slot of an owner.                                                   *)
LEMMA OwnTag ==
  ASSUME NEW o, NEW d, NEW n, HeldOk(o, d, n), NEW f \in Files, NEW k \in 0 .. FileChunks,
         NEW c \in Addr, Own(o, f, k) = c
  PROVE  /\ o[f].here /\ c[2] \in d.blk[c[1]].bits
         /\ c[2] <= Len(n[c[1]]) /\ n[c[1]][c[2]] # Torn
         /\ n[c[1]][c[2]].file = f /\ n[c[1]][c[2]].chunk = k
<1>1. c # None
  BY Distinct
<1>2. QED
  BY <1>1 DEF HeldOk

(* Objects that have fewer chunks than before.                             *)
LEMMA FewerOk ==
  ASSUME NEW d, NEW o \in [Files -> Objects], NEW q \in [Files -> Objects], NEW n \in Flash, NEW g,
         DevOk(d, o, n, g),
         \A h \in Files, j \in 0 .. FileChunks :
            /\ Own(q, h, j) \in {Own(o, h, j), None}
            /\ Own(q, h, j) # None => q[h].here
  PROVE  /\ DevOk(d, q, n, g)
         /\ \A h \in Files, j \in 0 .. FileChunks :
               Own(o, h, j) # None /\ Own(q, h, j) = None => Spare(d, q, Own(o, h, j))
<1>1. d \in Devices /\ HeldOk(o, d, n) /\ AllocOk(d, n) /\ CountsOk(d)
      /\ \A y \in Blocks : BlockOk(d, o, g, y)
  BY DEF DevOk
<1>2. \A b \in Blocks : d.blk[b] \in BlockInfos /\ d.blk[b].softDel \in Nat
                        /\ d.blk[b].pagesInUse \in Nat
  BY <1>1 DEF Devices, BlockInfos
<1>3. \A b \in Blocks : Held(q, b) \subseteq Held(o, b)
  <2> SUFFICES ASSUME NEW b \in Blocks, NEW p \in Held(q, b) PROVE p \in Held(o, b)
    OBVIOUS
  <2>1. PICK h \in Files, j \in 0 .. FileChunks : Own(q, h, j) = <<b, p>> /\ p \in Pages
    BY DEF Held
  <2>2. <<b, p>> # None
    BY <2>1, AddrPair, Distinct
  <2>3. Own(o, h, j) = <<b, p>>
    BY <2>1, <2>2
  <2>4. QED
    BY <2>1, <2>3 DEF Held
<1>4. HeldOk(q, d, n)
  <2>1. ASSUME NEW h \in Files, NEW j \in 0 .. FileChunks, Own(q, h, j) # None
        PROVE  LET c == Own(q, h, j) IN
               /\ q[h].here /\ c[2] \in d.blk[c[1]].bits
               /\ c[2] <= Len(n[c[1]]) /\ n[c[1]][c[2]] # Torn
               /\ n[c[1]][c[2]].file = h /\ n[c[1]][c[2]].chunk = j
    <3>1. Own(q, h, j) = Own(o, h, j) /\ q[h].here
      BY <2>1
    <3>2. PICK c \in Addr : c = Own(o, h, j)
      BY <2>1, <3>1, OwnType
    <3>3. QED
      BY <1>1, <3>1, <3>2, OwnTag
  <2>2. QED
    BY <2>1 DEF HeldOk
<1>5. ASSUME NEW b \in Blocks
      PROVE  /\ BlockOk(d, q, g, b)
             /\ \A p \in Held(o, b) \ Held(q, b) : d.blk[b].state \in {"full", "allocating"} =>
                   d.blk[b].softDel + Cardinality(Held(q, b)) < Cardinality(d.blk[b].bits)
  <2>1. BlockOk(d, o, g, b)
    BY <1>1
  <2>2. PICK A, B : A = Held(o, b) /\ B = Held(q, b)
    OBVIOUS
  <2>3. B \subseteq A /\ IsFiniteSet(A) /\ Cardinality(A) \in Nat /\ Cardinality(B) \in Nat
    BY <1>3, <2>2, HeldFinite
  <2>4. Cardinality(B) <= Cardinality(A)
    BY <2>3, FS_Subset
  <2>5. ASSUME NEW p \in A \ B PROVE Cardinality(B) < Cardinality(A)
    <3>1. Cardinality(A) # Cardinality(B)
      BY <2>3, <2>5, FS_Subset
    <3>2. QED
      BY <2>3, <2>4, <3>1
  <2>6. d.blk[b].softDel \in Nat /\ d.blk[b].pagesInUse \in Nat
        /\ d.blk[b].pagesInUse = Cardinality(d.blk[b].bits)
    BY <1>2, <2>1 DEF BlockOk
  <2>7. d.blk[b].state \in {"full", "allocating"} =>
          d.blk[b].softDel + Cardinality(A) <= Cardinality(d.blk[b].bits)
    BY <2>1, <2>2 DEF BlockOk
  <2>8. d.blk[b].state \in {"full", "allocating"} =>
          d.blk[b].softDel + Cardinality(B) <= Cardinality(d.blk[b].bits)
    BY <2>3, <2>4, <2>6, <2>7
  <2>9. BlockOk(d, q, g, b)
    BY <2>1, <2>2, <2>8 DEF BlockOk
  <2>10. ASSUME NEW p \in A \ B, d.blk[b].state \in {"full", "allocating"}
         PROVE  d.blk[b].softDel + Cardinality(B) < Cardinality(d.blk[b].bits)
    BY <2>3, <2>5, <2>6, <2>7, <2>10
  <2>11. QED
    BY <2>2, <2>9, <2>10
<1>6. ASSUME NEW h \in Files, NEW j \in 0 .. FileChunks, Own(o, h, j) # None, Own(q, h, j) = None
      PROVE  Spare(d, q, Own(o, h, j))
  <2>1. PICK c \in Addr : c = Own(o, h, j)
    BY <1>6, OwnType
  <2>2. c[1] \in Blocks /\ c[2] \in Pages /\ c = <<c[1], c[2]>>
    BY AddrPair
  <2>3. c[2] \in Held(o, c[1])
    BY <2>1, <2>2 DEF Held
  <2>4. c[2] \notin Held(q, c[1])
    <3> SUFFICES ASSUME c[2] \in Held(q, c[1]) PROVE FALSE
      OBVIOUS
    <3>1. PICK i \in Files, l \in 0 .. FileChunks : Own(q, i, l) = c
      BY <2>2 DEF Held
    <3>2. Own(o, i, l) = c
      BY <3>1, Distinct
    <3>3. h = i /\ j = l
      BY <1>1, <2>1, <3>2, OwnTag
    <3>4. QED
      BY <1>6, <3>1, <3>3, Distinct
  <2>5. c[2] \in d.blk[c[1]].bits
    BY <1>1, <2>1, OwnTag
  <2>6. QED
    BY <1>5, <2>1, <2>2, <2>3, <2>4, <2>5 DEF Spare
<1>7. QED
  BY <1>1, <1>4, <1>5, <1>6 DEF DevOk

(* A chunk of an object moves to c.                                        *)
PageOf(n, c, f, k) ==
  c[2] <= Len(n[c[1]]) /\ n[c[1]][c[2]] # Torn /\ n[c[1]][c[2]].file = f /\ n[c[1]][c[2]].chunk = k

Moved(o, q, f, k, c) ==
  /\ q[f].here /\ \A h \in Files : q[h].here = o[h].here
  /\ \A h \in Files, j \in 0 .. FileChunks :
        Own(q, h, j) = IF h = f /\ j = k THEN c ELSE Own(o, h, j)

LEMMA MoveOk ==
  ASSUME NEW d, NEW o \in [Files -> Objects], NEW q \in [Files -> Objects], NEW n \in Flash, NEW g,
         DevOk(d, o, n, g), NEW f \in Files, NEW k \in 0 .. FileChunks,
         NEW c, Spare(d, o, c), PageOf(n, c, f, k), Moved(o, q, f, k, c)
  PROVE  /\ DevOk(d, q, n, g)
         /\ Own(o, f, k) # None => Spare(d, q, Own(o, f, k))
         /\ \A a \in Addr : /\ a # c /\ a[2] \in d.blk[a[1]].bits
                            /\ d.blk[a[1]].state = "collecting"
                            /\ n[a[1]][a[2]].file = f /\ n[a[1]][a[2]].chunk = k
                            => Spare(d, q, a)
<1> /\ c[2] <= Len(n[c[1]]) /\ n[c[1]][c[2]] # Torn
    /\ n[c[1]][c[2]].file = f /\ n[c[1]][c[2]].chunk = k
  BY DEF PageOf
<1> /\ \A h \in Files : q[h].here = o[h].here
    /\ q[f].here
    /\ \A h \in Files, j \in 0 .. FileChunks :
          Own(q, h, j) = IF h = f /\ j = k THEN c ELSE Own(o, h, j)
  BY DEF Moved
<1>1. d \in Devices /\ HeldOk(o, d, n) /\ AllocOk(d, n) /\ CountsOk(d)
      /\ \A y \in Blocks : BlockOk(d, o, g, y)
  BY DEF DevOk
<1>2. \A b \in Blocks : d.blk[b] \in BlockInfos /\ d.blk[b].softDel \in Nat
                        /\ d.blk[b].pagesInUse \in Nat
  BY <1>1 DEF Devices, BlockInfos
<1>3. /\ c \in Addr /\ c[1] \in Blocks /\ c[2] \in Pages /\ c = <<c[1], c[2]>> /\ c # None
      /\ c[2] \in d.blk[c[1]].bits /\ c[2] \notin Held(o, c[1])
      /\ d.blk[c[1]].state \in {"full", "allocating"} =>
            d.blk[c[1]].softDel + Cardinality(Held(o, c[1])) < Cardinality(d.blk[c[1]].bits)
  BY AddrPair, Distinct DEF Spare
<1>4. HeldOk(q, d, n)
  <2>1. ASSUME NEW h \in Files, NEW j \in 0 .. FileChunks, Own(q, h, j) # None
        PROVE  LET a == Own(q, h, j) IN
               /\ q[h].here /\ a[2] \in d.blk[a[1]].bits
               /\ a[2] <= Len(n[a[1]]) /\ n[a[1]][a[2]] # Torn
               /\ n[a[1]][a[2]].file = h /\ n[a[1]][a[2]].chunk = j
    <3>1. CASE h = f /\ j = k
      BY <1>3, <3>1
    <3>2. CASE ~(h = f /\ j = k)
      <4>1. Own(q, h, j) = Own(o, h, j)
        BY <3>2
      <4>2. PICK a \in Addr : a = Own(o, h, j)
        BY <2>1, <4>1, OwnType
      <4>3. QED
        BY <1>1, <4>1, <4>2, OwnTag
    <3>3. QED
      BY <3>1, <3>2
  <2>2. QED
    BY <2>1 DEF HeldOk
<1>5. ASSUME NEW b \in Blocks, NEW p \in Held(q, b)
      PROVE  /\ c = <<b, p>> \/ p \in Held(o, b)
             /\ <<b, p>> # c => ~(n[b][p].file = f /\ n[b][p].chunk = k)
  <2>1. PICK h \in Files, j \in 0 .. FileChunks : Own(q, h, j) = <<b, p>> /\ p \in Pages
    BY DEF Held
  <2>2. CASE h = f /\ j = k
    BY <2>1, <2>2
  <2>3. CASE ~(h = f /\ j = k)
    <3>1. Own(o, h, j) = <<b, p>>
      BY <2>1, <2>3
    <3>2. PICK a \in Addr : a = <<b, p>> /\ a[1] = b /\ a[2] = p
      BY <2>1, AddrPair
    <3>3. n[a[1]][a[2]].file = h /\ n[a[1]][a[2]].chunk = j
      BY <1>1, <3>1, <3>2, OwnTag
    <3>4. QED
      BY <2>1, <2>3, <3>1, <3>2, <3>3 DEF Held
  <2>4. QED
    BY <2>2, <2>3
<1>6. ASSUME NEW b \in Blocks, d.blk[b].state \in {"full", "allocating"}
      PROVE  /\ d.blk[b].softDel + Cardinality(Held(q, b)) <= Cardinality(d.blk[b].bits)
             /\ \A p \in Held(o, b) \ Held(q, b) :
                   d.blk[b].softDel + Cardinality(Held(q, b)) < Cardinality(d.blk[b].bits)
  <2>1. PICK A, B : A = Held(o, b) /\ B = Held(q, b)
    OBVIOUS
  <2>2. /\ IsFiniteSet(A) /\ Cardinality(A) \in Nat /\ IsFiniteSet(B) /\ Cardinality(B) \in Nat
    BY <2>1, HeldFinite
  <2>3. d.blk[b].softDel \in Nat /\ Cardinality(d.blk[b].bits) \in Nat
        /\ d.blk[b].softDel + Cardinality(A) <= Cardinality(d.blk[b].bits)
    <3>1. BlockOk(d, o, g, b)
      BY <1>1
    <3>2. QED
      BY <1>2, <1>6, <2>1, <3>1 DEF BlockOk
  <2>4. CASE c[1] = b
    <3>1. d.blk[b].softDel + Cardinality(A) < Cardinality(d.blk[b].bits) /\ c[2] \notin A
      BY <1>3, <1>6, <2>1, <2>4
    <3>2. B \subseteq A \cup {c[2]}
      BY <1>5, <2>1, <2>4
    <3>3. Cardinality(A \cup {c[2]}) = Cardinality(A) + 1 /\ IsFiniteSet(A \cup {c[2]})
      BY <2>2, <3>1, FS_AddElement
    <3>4. Cardinality(B) <= Cardinality(A) + 1
      BY <3>2, <3>3, FS_Subset
    <3>5. ASSUME NEW p \in A \ B PROVE Cardinality(B) <= Cardinality(A)
      <4>1. B # A \cup {c[2]}
        BY <3>5
      <4>2. Cardinality(B) # Cardinality(A) + 1
        BY <3>2, <3>3, <4>1, FS_Subset
      <4>3. QED
        BY <2>2, <3>4, <4>2
    <3>6. d.blk[b].softDel + Cardinality(B) <= Cardinality(d.blk[b].bits)
      <4>1. PICK x, y, z, w \in Nat : x = d.blk[b].softDel /\ y = Cardinality(A)
                                     /\ z = Cardinality(B) /\ w = Cardinality(d.blk[b].bits)
        BY <2>2, <2>3
      <4>2. x + y < w /\ z <= y + 1
        BY ONLY <3>1, <3>4, <4>1
      <4>3. x + z <= w
        BY ONLY <4>2
      <4>4. QED
        BY ONLY <4>1, <4>3
    <3>7. ASSUME NEW p \in A \ B
          PROVE  d.blk[b].softDel + Cardinality(B) < Cardinality(d.blk[b].bits)
      <4>1. PICK x, y, z, w \in Nat : x = d.blk[b].softDel /\ y = Cardinality(A)
                                     /\ z = Cardinality(B) /\ w = Cardinality(d.blk[b].bits)
        BY <2>2, <2>3
      <4>2. Cardinality(B) <= Cardinality(A)
        BY <3>5, <3>7
      <4>3. x + y < w /\ z <= y
        BY ONLY <3>1, <4>1, <4>2
      <4>4. x + z < w
        BY ONLY <4>3
      <4>5. QED
        BY ONLY <4>1, <4>4
    <3>8. QED
      BY <2>1, <3>6, <3>7
  <2>5. CASE c[1] # b
    <3>1. B \subseteq A
      <4>1. \A p : c = <<b, p>> => c[1] = b
        OBVIOUS
      <4>2. QED
        BY <1>5, <2>1, <2>5, <4>1
    <3>2. Cardinality(B) <= Cardinality(A)
      BY <2>2, <3>1, FS_Subset
    <3>3. ASSUME NEW p \in A \ B PROVE Cardinality(B) < Cardinality(A)
      <4>1. Cardinality(A) # Cardinality(B)
        BY <2>2, <3>1, <3>3, FS_Subset
      <4>2. QED
        BY <2>2, <3>2, <4>1
    <3>4. d.blk[b].softDel + Cardinality(B) <= Cardinality(d.blk[b].bits)
      BY <2>2, <2>3, <3>2
    <3>5. ASSUME NEW p \in A \ B
          PROVE  d.blk[b].softDel + Cardinality(B) < Cardinality(d.blk[b].bits)
      BY <2>2, <2>3, <3>3, <3>5
    <3>6. QED
      BY <2>1, <3>4, <3>5
  <2>6. QED
    BY <2>4, <2>5
<1>7. \A b \in Blocks : BlockOk(d, q, g, b)
  <2> SUFFICES ASSUME NEW b \in Blocks PROVE BlockOk(d, q, g, b)
    OBVIOUS
  <2>1. BlockOk(d, o, g, b)
    BY <1>1
  <2>2. QED
    BY <1>6, <2>1 DEF BlockOk
<1>8. DevOk(d, q, n, g)
  BY <1>1, <1>4, <1>7 DEF DevOk
<1>9. ASSUME Own(o, f, k) # None PROVE Spare(d, q, Own(o, f, k))
  <2>1. PICK a \in Addr : a = Own(o, f, k)
    BY <1>9, OwnType
  <2>2. a[1] \in Blocks /\ a[2] \in Pages /\ a = <<a[1], a[2]>>
    BY AddrPair
  <2>3. a[2] \in Held(o, a[1])
    BY <2>1, <2>2 DEF Held
  <2>4. a # c
    BY <1>3, <2>3
  <2>5. a[2] \in d.blk[a[1]].bits /\ n[a[1]][a[2]].file = f /\ n[a[1]][a[2]].chunk = k
    BY <1>1, <2>1, OwnTag
  <2>6. a[2] \notin Held(q, a[1])
    BY <1>5, <2>2, <2>4, <2>5
  <2>7. QED
    BY <1>6, <2>1, <2>2, <2>3, <2>5, <2>6 DEF Spare
<1>10. ASSUME NEW a \in Addr, a # c, a[2] \in d.blk[a[1]].bits, d.blk[a[1]].state = "collecting",
              n[a[1]][a[2]].file = f, n[a[1]][a[2]].chunk = k
       PROVE  Spare(d, q, a)
  <2>1. a[1] \in Blocks /\ a[2] \in Pages /\ a = <<a[1], a[2]>>
    BY AddrPair
  <2>2. a[2] \notin Held(q, a[1])
    BY <1>5, <1>10, <2>1
  <2>3. QED
    BY <1>10, <2>2 DEF Spare
<1>11. QED
  BY <1>8, <1>9, <1>10

-----------------------------------------------------------------------------
(* What is left of a call.                                                 *)

(* A step of a file that is deleted comes only behind steps of its kind.   *)
Closing(t, i, o) == t[i].op \in {"header", "remove"} /\ o[t[i].file].dir = "deleted"

LEMMA StepOk ==
  ASSUME NEW t, NEW o, NEW g, TodoOk(t, o, g), NEW i \in DOMAIN t, On(t, i)
  PROVE  /\ t[i].file \in Files /\ o[t[i].file].here
         /\ t[i].op = "put" => t[i].val \in Values
         /\ t[i].op \in {"put", "prune"} => t[i].chunk \in 1 .. FileChunks
         /\ o[t[i].file].deleted => Closing(t, i, o) /\ g = None /\ \A j \in 1 .. i : Closing(t, j, o)
BY DEF TodoOk, Closing

LEMMA HeadOk ==
  ASSUME NEW t \in Seq(Ops), NEW o, NEW g, TodoOk(t, o, g), t # << >>, Head(t).op # "gc"
  PROVE  /\ Head(t).file \in Files /\ o[Head(t).file].here
         /\ Head(t).op = "put" => Head(t).val \in Values
         /\ Head(t).op \in {"put", "prune"} => Head(t).chunk \in 1 .. FileChunks
         /\ o[Head(t).file].deleted =>
              Head(t).op \in {"header", "remove"} /\ o[Head(t).file].dir = "deleted"
         /\ \A i \in DOMAIN Tail(t) :
              On(Tail(t), i) /\ Tail(t)[i].file = Head(t).file =>
                \/ Head(t).op = "prune" /\ Tail(t)[i].op \in {"prune", "header"}
                \/ Head(t).op = "header" /\ Tail(t)[i].op = "remove" /\ o[Head(t).file].dir = "deleted"
<1>1. Head(t) = t[1] /\ Len(t) \in Nat /\ Len(t) >= 1 /\ DOMAIN t = 1 .. Len(t)
  BY LenProperties, EmptySeq
<1>2. 1 \in DOMAIN t /\ On(t, 1)
  BY <1>1 DEF On
<1>3. /\ t[1].file \in Files /\ o[t[1].file].here
      /\ t[1].op = "put" => t[1].val \in Values
      /\ t[1].op \in {"put", "prune"} => t[1].chunk \in 1 .. FileChunks
      /\ o[t[1].file].deleted => Closing(t, 1, o)
  BY <1>2, StepOk
<1>4. ASSUME NEW i \in DOMAIN Tail(t), On(Tail(t), i), Tail(t)[i].file = Head(t).file
      PROVE  \/ Head(t).op = "prune" /\ Tail(t)[i].op \in {"prune", "header"}
             \/ Head(t).op = "header" /\ Tail(t)[i].op = "remove" /\ o[Head(t).file].dir = "deleted"
  <2>1. Tail(t) \in Seq(Ops) /\ Len(Tail(t)) = Len(t) - 1
        /\ \A j \in 1 .. Len(Tail(t)) : Tail(t)[j] = t[j + 1]
    BY HeadTailProperties
  <2>2. i \in 1 .. Len(Tail(t)) /\ i \in Int
    BY <2>1, LenProperties
  <2>3. Tail(t)[i] = t[i + 1] /\ i + 1 \in DOMAIN t /\ 1 < i + 1
    BY <1>1, <2>1, <2>2
  <2>4. On(t, i + 1)
    BY <1>4, <2>3 DEF On
  <2>5. 1 < i + 1 /\ On(t, 1) /\ On(t, i + 1) /\ t[1].file = t[i + 1].file
    BY <1>1, <1>2, <1>4, <2>3, <2>4
  <2>6. \/ t[1].op = "prune" /\ t[i + 1].op \in {"prune", "header"}
        \/ t[1].op = "header" /\ t[i + 1].op = "remove" /\ o[t[1].file].dir = "deleted"
    BY <1>2, <2>3, <2>5 DEF TodoOk
  <2>7. QED
    BY <1>1, <2>3, <2>6
<1>5. QED
  BY <1>1, <1>3, <1>4 DEF Closing

(* The objects of the steps have not changed.                              *)
Alike(o, q, t) ==
  \A i \in DOMAIN t : On(t, i) =>
    LET f == t[i].file IN
    q[f].here = o[f].here /\ q[f].deleted = o[f].deleted /\ q[f].dir = o[f].dir

LEMMA AlikeOk ==
  ASSUME NEW t \in Seq(Ops), NEW o, NEW q, NEW g, TodoOk(t, o, g), Alike(o, q, t)
  PROVE  TodoOk(t, q, g)
<1>1. DOMAIN t = 1 .. Len(t) /\ Len(t) \in Nat
  BY LenProperties
<1>2. \A i \in DOMAIN t : On(t, i) =>
        /\ q[t[i].file].here = o[t[i].file].here /\ q[t[i].file].deleted = o[t[i].file].deleted
        /\ q[t[i].file].dir = o[t[i].file].dir
  BY DEF Alike
<1>3. ASSUME NEW i \in DOMAIN t, On(t, i)
      PROVE  /\ t[i].file \in Files /\ q[t[i].file].here
             /\ t[i].op = "put" => t[i].val \in Values
             /\ t[i].op \in {"put", "prune"} => t[i].chunk \in 1 .. FileChunks
             /\ q[t[i].file].deleted => Closing(t, i, q) /\ g = None /\ \A j \in 1 .. i : Closing(t, j, q)
  <2>1. /\ t[i].file \in Files /\ o[t[i].file].here
        /\ t[i].op = "put" => t[i].val \in Values
        /\ t[i].op \in {"put", "prune"} => t[i].chunk \in 1 .. FileChunks
        /\ o[t[i].file].deleted => Closing(t, i, o) /\ g = None /\ \A j \in 1 .. i : Closing(t, j, o)
    BY <1>3, StepOk
  <2>2. ASSUME NEW j \in 1 .. i, Closing(t, j, o) PROVE Closing(t, j, q)
    <3>1. j \in DOMAIN t /\ On(t, j)
      BY <1>1, <2>2 DEF Closing, On
    <3>2. QED
      BY <1>2, <2>2, <3>1 DEF Closing
  <2>3. i \in 1 .. i
    BY <1>1
  <2>4. QED
    BY <1>2, <1>3, <2>1, <2>2, <2>3
<1>4. \A i, j \in DOMAIN t :
        i < j /\ On(t, i) /\ On(t, j) /\ t[i].file = t[j].file =>
          \/ t[i].op = "prune" /\ t[j].op \in {"prune", "header"}
          \/ t[i].op = "header" /\ t[j].op = "remove" /\ q[t[i].file].dir = "deleted"
  BY <1>2 DEF TodoOk
<1>5. QED
  BY <1>3, <1>4 DEF TodoOk, Closing

LEMMA TailOk ==
  ASSUME NEW t \in Seq(Ops), NEW o, NEW g, TodoOk(t, o, g), t # << >>
  PROVE  /\ Tail(t) \in Seq(Ops) /\ TodoOk(Tail(t), o, g)
         /\ Head(t).op \notin {"header", "remove"} =>
              \A i \in DOMAIN Tail(t) : On(Tail(t), i) => ~o[Tail(t)[i].file].deleted
         /\ Head(t).op = "header" /\ o[Head(t).file].dir # "deleted" =>
              \A i \in DOMAIN Tail(t) : On(Tail(t), i) => ~o[Tail(t)[i].file].deleted
<1>1. Head(t) = t[1] /\ Len(t) \in Nat /\ Len(t) >= 1 /\ DOMAIN t = 1 .. Len(t)
  BY LenProperties, EmptySeq
<1>2. PICK s \in Seq(Ops) : s = Tail(t)
  BY HeadTailProperties
<1>3. Len(s) = Len(t) - 1 /\ DOMAIN s = 1 .. Len(s) /\ \A j \in 1 .. Len(s) : s[j] = t[j + 1]
  BY <1>2, HeadTailProperties, LenProperties
<1>4. \A i \in DOMAIN s : /\ i \in Int /\ i >= 1 /\ i + 1 \in DOMAIN t /\ s[i] = t[i + 1]
                          /\ On(s, i) <=> On(t, i + 1)
  BY <1>1, <1>3 DEF On
<1>5. \A i \in DOMAIN s : Closing(t, i + 1, o) <=> Closing(s, i, o)
  BY <1>4 DEF Closing
<1>6. ASSUME NEW i \in DOMAIN s, On(s, i)
      PROVE  /\ s[i].file \in Files /\ o[s[i].file].here
             /\ s[i].op = "put" => s[i].val \in Values
             /\ s[i].op \in {"put", "prune"} => s[i].chunk \in 1 .. FileChunks
             /\ o[s[i].file].deleted => Closing(s, i, o) /\ g = None /\ \A j \in 1 .. i : Closing(s, j, o)
             /\ o[s[i].file].deleted => Closing(t, 1, o)
  <2>1. /\ t[i + 1].file \in Files /\ o[t[i + 1].file].here
        /\ t[i + 1].op = "put" => t[i + 1].val \in Values
        /\ t[i + 1].op \in {"put", "prune"} => t[i + 1].chunk \in 1 .. FileChunks
        /\ o[t[i + 1].file].deleted =>
              Closing(t, i + 1, o) /\ g = None /\ \A j \in 1 .. i + 1 : Closing(t, j, o)
    BY <1>4, <1>6, StepOk
  <2>2. ASSUME NEW j \in 1 .. i, o[s[i].file].deleted PROVE Closing(s, j, o)
    <3>1. j \in DOMAIN s /\ j + 1 \in 1 .. i + 1
      BY <1>3, <1>4
    <3>2. Closing(t, j + 1, o)
      BY <1>4, <2>1, <2>2, <3>1
    <3>3. QED
      BY <1>5, <3>1, <3>2
  <2>3. 1 \in 1 .. i + 1 /\ i \in 1 .. i
    BY <1>4
  <2>4. QED
    BY <1>4, <2>1, <2>2, <2>3
<1>7. \A i, j \in DOMAIN s :
        i < j /\ On(s, i) /\ On(s, j) /\ s[i].file = s[j].file =>
          \/ s[i].op = "prune" /\ s[j].op \in {"prune", "header"}
          \/ s[i].op = "header" /\ s[j].op = "remove" /\ o[s[i].file].dir = "deleted"
  <2> SUFFICES ASSUME NEW i \in DOMAIN s, NEW j \in DOMAIN s, i < j, On(s, i), On(s, j),
                      s[i].file = s[j].file
               PROVE  \/ s[i].op = "prune" /\ s[j].op \in {"prune", "header"}
                      \/ s[i].op = "header" /\ s[j].op = "remove" /\ o[s[i].file].dir = "deleted"
    OBVIOUS
  <2>1. PICK k, l \in DOMAIN t : k = i + 1 /\ l = j + 1
    BY <1>4
  <2>2. k < l /\ On(t, k) /\ On(t, l) /\ t[k].file = t[l].file
    BY <1>4, <2>1
  <2>3. \/ t[k].op = "prune" /\ t[l].op \in {"prune", "header"}
        \/ t[k].op = "header" /\ t[l].op = "remove" /\ o[t[k].file].dir = "deleted"
    BY <2>2 DEF TodoOk
  <2>4. QED
    BY <1>4, <2>1, <2>3
<1>8. TodoOk(s, o, g)
  BY <1>6, <1>7 DEF TodoOk, Closing
<1>9. QED
  BY <1>1, <1>2, <1>6, <1>8 DEF Closing

NoneDeleted(t, o) == \A i \in DOMAIN t : On(t, i) => ~o[t[i].file].deleted

LEMMA NoneDeletedOk ==
  ASSUME NEW t, NEW o, NEW g, NEW h, TodoOk(t, o, g), NoneDeleted(t, o)
  PROVE  TodoOk(t, o, h)
<1>1. ASSUME NEW i \in DOMAIN t, On(t, i)
      PROVE  /\ t[i].file \in Files /\ o[t[i].file].here
             /\ t[i].op = "put" => t[i].val \in Values
             /\ t[i].op \in {"put", "prune"} => t[i].chunk \in 1 .. FileChunks
             /\ ~o[t[i].file].deleted
  BY <1>1, StepOk DEF NoneDeleted
<1>2. \A i, j \in DOMAIN t :
        i < j /\ On(t, i) /\ On(t, j) /\ t[i].file = t[j].file =>
          \/ t[i].op = "prune" /\ t[j].op \in {"prune", "header"}
          \/ t[i].op = "header" /\ t[j].op = "remove" /\ o[t[i].file].dir = "deleted"
  BY DEF TodoOk
<1>3. QED
  BY <1>1, <1>2 DEF TodoOk

LEMMA ConcatOk ==
  ASSUME NEW t \in Seq(Ops), NEW s \in Seq(Ops), NEW o, NEW g, TodoOk(t, o, g), TodoOk(s, o, g),
         \A i \in DOMAIN t, j \in DOMAIN s : On(t, i) /\ On(s, j) => t[i].file # s[j].file,
         (\A i \in DOMAIN t : Closing(t, i, o)) \/ NoneDeleted(s, o)
  PROVE  t \o s \in Seq(Ops) /\ TodoOk(t \o s, o, g)
<1>1. PICK u : u = t \o s
  OBVIOUS
<1>2. /\ u \in Seq(Ops) /\ Len(u) = Len(t) + Len(s) /\ DOMAIN u = 1 .. Len(u)
      /\ Len(t) \in Nat /\ Len(s) \in Nat /\ DOMAIN t = 1 .. Len(t) /\ DOMAIN s = 1 .. Len(s)
      /\ \A i \in 1 .. Len(t) + Len(s) : u[i] = IF i <= Len(t) THEN t[i] ELSE s[i - Len(t)]
  BY <1>1, ConcatProperties, LenProperties
<1>3. PICK m \in Nat : m = Len(t)
  BY <1>2
<1>4. \A i \in DOMAIN u :
        /\ i \in Int
        /\ i <= m => /\ i \in DOMAIN t /\ u[i] = t[i]
        /\ ~(i <= m) => /\ i - m \in DOMAIN s /\ u[i] = s[i - m]
  BY <1>2, <1>3
<1>5. \A i \in DOMAIN u :
        /\ i <= m => /\ On(u, i) <=> On(t, i)
                     /\ Closing(u, i, o) <=> Closing(t, i, o)
        /\ ~(i <= m) => /\ On(u, i) <=> On(s, i - m)
                        /\ Closing(u, i, o) <=> Closing(s, i - m, o)
  BY <1>4 DEF On, Closing
<1>6. ASSUME NEW i \in DOMAIN u, On(u, i)
      PROVE  /\ u[i].file \in Files /\ o[u[i].file].here
             /\ u[i].op = "put" => u[i].val \in Values
             /\ u[i].op \in {"put", "prune"} => u[i].chunk \in 1 .. FileChunks
             /\ o[u[i].file].deleted => Closing(u, i, o) /\ g = None /\ \A j \in 1 .. i : Closing(u, j, o)
  <2>1. CASE i <= m
    <3>1. i \in DOMAIN t /\ u[i] = t[i] /\ On(t, i)
      BY <1>4, <1>5, <1>6, <2>1
    <3>2. \A j \in 1 .. i : j \in DOMAIN u /\ j <= m
      BY <1>2, <1>4, <2>1
    <3>3. \A j \in 1 .. i : Closing(t, j, o) => Closing(u, j, o)
      BY <1>5, <3>2
    <3>4. Closing(t, i, o) => Closing(u, i, o)
      BY <1>5, <2>1
    <3>5. QED
      BY <3>1, <3>3, <3>4, StepOk
  <2>2. CASE ~(i <= m)
    <3>1. PICK k \in DOMAIN s : k = i - m
      BY <1>4, <2>2
    <3>2. u[i] = s[k] /\ On(s, k)
      BY <1>4, <1>5, <1>6, <2>2, <3>1
    <3>3. /\ s[k].file \in Files /\ o[s[k].file].here
          /\ s[k].op = "put" => s[k].val \in Values
          /\ s[k].op \in {"put", "prune"} => s[k].chunk \in 1 .. FileChunks
          /\ o[s[k].file].deleted => Closing(s, k, o) /\ g = None /\ \A j \in 1 .. k : Closing(s, j, o)
      BY <3>2, StepOk
    <3>4. ASSUME o[s[k].file].deleted, NEW j \in 1 .. i PROVE Closing(u, j, o)
      <4>1. j \in DOMAIN u
        BY <1>2, <1>4
      <4>2. \A l \in DOMAIN t : Closing(t, l, o)
        BY <3>2, <3>4 DEF NoneDeleted
      <4>3. CASE j <= m
        BY <1>4, <1>5, <4>1, <4>2, <4>3
      <4>4. CASE ~(j <= m)
        <5>1. PICK l : l = j - m
          OBVIOUS
        <5>2. l \in 1 .. k
          BY <1>4, <3>1, <4>1, <4>4, <5>1
        <5>3. Closing(s, l, o)
          BY <3>3, <3>4, <5>2
        <5>4. QED
          BY <1>5, <4>1, <4>4, <5>1, <5>3
      <4>5. QED
        BY <4>3, <4>4
    <3>5. i \in 1 .. i
      BY <1>2, <1>4
    <3>6. QED
      BY <3>2, <3>3, <3>4, <3>5
  <2>3. QED
    BY <2>1, <2>2
<1>7. ASSUME NEW i \in DOMAIN u, NEW j \in DOMAIN u, i < j, On(u, i), On(u, j), u[i].file = u[j].file
      PROVE  \/ u[i].op = "prune" /\ u[j].op \in {"prune", "header"}
             \/ u[i].op = "header" /\ u[j].op = "remove" /\ o[u[i].file].dir = "deleted"
  <2>1. i \in Int /\ j \in Int
    BY <1>4
  <2>2. CASE j <= m
    <3>1. i <= m
      BY <1>7, <2>1, <2>2
    <3>2. /\ i \in DOMAIN t /\ j \in DOMAIN t /\ u[i] = t[i] /\ u[j] = t[j] /\ On(t, i) /\ On(t, j)
      BY <1>4, <1>5, <1>7, <2>2, <3>1
    <3>3. \/ t[i].op = "prune" /\ t[j].op \in {"prune", "header"}
          \/ t[i].op = "header" /\ t[j].op = "remove" /\ o[t[i].file].dir = "deleted"
      BY <1>7, <3>2 DEF TodoOk
    <3>4. QED
      BY <3>2, <3>3
  <2>3. CASE ~(i <= m)
    <3>1. ~(j <= m)
      BY <1>7, <2>1, <2>3
    <3>2. PICK k, l \in DOMAIN s : k = i - m /\ l = j - m
      BY <1>4, <2>3, <3>1
    <3>3. u[i] = s[k] /\ u[j] = s[l] /\ On(s, k) /\ On(s, l) /\ k < l
      BY <1>4, <1>5, <1>7, <2>1, <2>3, <3>1, <3>2
    <3>4. \/ s[k].op = "prune" /\ s[l].op \in {"prune", "header"}
          \/ s[k].op = "header" /\ s[l].op = "remove" /\ o[s[k].file].dir = "deleted"
      BY <1>7, <3>3 DEF TodoOk
    <3>5. QED
      BY <3>3, <3>4
  <2>4. CASE i <= m /\ ~(j <= m)
    <3>1. PICK l \in DOMAIN s : l = j - m
      BY <1>4, <2>4
    <3>2. u[i] = t[i] /\ u[j] = s[l] /\ On(t, i) /\ On(s, l) /\ i \in DOMAIN t
      BY <1>4, <1>5, <1>7, <2>4, <3>1
    <3>3. QED
      BY <1>7, <3>2
  <2>5. QED
    BY <2>2, <2>3, <2>4
<1>8. TodoOk(u, o, g)
  BY <1>6, <1>7 DEF TodoOk, Closing
<1>9. QED
  BY <1>1, <1>2, <1>8

LEMMA OpType ==
  /\ \A f \in Files \cup {None}, name \in Steps :
       /\ Op(name, f) \in Ops /\ Op(name, f).op = name /\ Op(name, f).file = f
       /\ Op(name, f).val = Hole /\ Op(name, f).chunk = 0
  /\ \A f \in Files, x \in BOOLEAN :
       /\ UpdateObjectHeader(f, x) \in Ops /\ UpdateObjectHeader(f, x).op = "header"
       /\ UpdateObjectHeader(f, x).file = f
<1>1. 0 \in 0 .. FileChunks \cup {1, 2} /\ Hole \in Values \cup {Hole} /\ FALSE \in BOOLEAN
  BY Geometry
<1>2. \A f \in Files \cup {None}, name \in Steps :
       /\ Op(name, f) \in Ops /\ Op(name, f).op = name /\ Op(name, f).file = f
       /\ Op(name, f).val = Hole /\ Op(name, f).chunk = 0
  BY <1>1 DEF Op, Ops
<1>3. \A f \in Files, x \in BOOLEAN :
        UpdateObjectHeader(f, x) = [op |-> "header", file |-> f, chunk |-> 0, val |-> Hole, shrink |-> x]
  BY DEF UpdateObjectHeader, Op
<1>4. \A f \in Files, x \in BOOLEAN :
       /\ UpdateObjectHeader(f, x) \in Ops /\ UpdateObjectHeader(f, x).op = "header"
       /\ UpdateObjectHeader(f, x).file = f
  BY <1>1, <1>3 DEF Ops, Steps
<1>5. QED
  BY <1>2, <1>4

LEMMA WithChunk ==
  ASSUME NEW f \in Files \cup {None}, NEW name \in Steps, NEW k \in 0 .. FileChunks \cup {1, 2}
  PROVE  LET w == [Op(name, f) EXCEPT !.chunk = k] IN
         w \in Ops /\ w.op = name /\ w.file = f /\ w.chunk = k
<1>1. PICK x \in Ops : x = Op(name, f) /\ x.op = name /\ x.file = f /\ x.val = Hole
  BY OpType
<1>2. PICK w : w = [x EXCEPT !.chunk = k]
  OBVIOUS
<1>3. w.op = name /\ w.file = f /\ w.chunk = k /\ w.val = x.val /\ w.shrink = x.shrink
  BY <1>1, <1>2 DEF Ops
<1>4. w = [op |-> w.op, file |-> w.file, chunk |-> w.chunk, val |-> w.val, shrink |-> w.shrink]
  BY <1>1, <1>2 DEF Ops
<1>5. x.val \in Values \cup {Hole} /\ x.shrink \in BOOLEAN
  BY <1>1 DEF Ops
<1>6. w \in Ops
  BY <1>3, <1>4, <1>5 DEF Ops
<1>7. QED
  BY <1>1, <1>2, <1>3, <1>6

PutOp(f, k, v) == [Op("put", f) EXCEPT !.chunk = k, !.val = v]

LEMMA PutType ==
  ASSUME NEW f \in Files, NEW k \in 1 .. FileChunks, NEW v \in Values
  PROVE  LET w == PutOp(f, k, v) IN
         w \in Ops /\ w.op = "put" /\ w.file = f /\ w.chunk = k /\ w.val = v
<1>1. PICK x \in Ops : x = Op("put", f) /\ x.op = "put" /\ x.file = f
  BY OpType DEF Steps
<1>2. PICK w : w = [x EXCEPT !.chunk = k, !.val = v]
  OBVIOUS
<1>3. w.op = "put" /\ w.file = f /\ w.chunk = k /\ w.val = v /\ w.shrink = x.shrink
  BY <1>1, <1>2 DEF Ops
<1>4. w = [op |-> w.op, file |-> w.file, chunk |-> w.chunk, val |-> w.val, shrink |-> w.shrink]
  BY <1>1, <1>2 DEF Ops
<1>5. x.shrink \in BOOLEAN /\ k \in 0 .. FileChunks \cup {1, 2}
  BY <1>1, Geometry DEF Ops
<1>6. w \in Ops
  BY <1>3, <1>4, <1>5 DEF Ops, Steps
<1>7. QED
  BY <1>1, <1>2, <1>3, <1>6 DEF PutOp

LEMMA GcType ==
  /\ Gc(1) \in Ops /\ Gc(1).op = "gc"
  /\ Gc(2) \in Ops /\ Gc(2).op = "gc"
<1>1. \A k \in {1, 2} : k \in 0 .. FileChunks \cup {1, 2}
  OBVIOUS
<1>2. "gc" \in Steps /\ None \in Files \cup {None}
  BY DEF Steps
<1>3. \A k \in {1, 2} : Gc(k) \in Ops /\ Gc(k).op = "gc"
  BY <1>1, <1>2, WithChunk DEF Gc
<1>4. QED
  BY <1>3

(* Single steps.                                                           *)
LEMMA OneOk ==
  ASSUME NEW x \in Ops, NEW o, NEW g,
         x.op = "gc" \/ (/\ x.op \in {"header", "remove", "destroy"} /\ x.file \in Files
                         /\ o[x.file].here /\ (~o[x.file].deleted \/ (g = None /\ Closing(<<x>>, 1, o))))
  PROVE  <<x>> \in Seq(Ops) /\ TodoOk(<<x>>, o, g)
<1>1. PICK s : s = <<x>>
  OBVIOUS
<1>2. s \in Seq(Ops) /\ Len(s) = 1 /\ DOMAIN s = 1 .. 1 /\ s[1] = x
  BY <1>1
<1>3. \A i \in DOMAIN s : i = 1
  BY <1>2
<1>4. \A i, j \in DOMAIN s : ~(i < j)
  BY <1>3
<1>5. ASSUME NEW i \in DOMAIN s, On(s, i)
      PROVE  /\ s[i].file \in Files /\ o[s[i].file].here
             /\ s[i].op = "put" => s[i].val \in Values
             /\ s[i].op \in {"put", "prune"} => s[i].chunk \in 1 .. FileChunks
             /\ o[s[i].file].deleted => Closing(s, i, o) /\ g = None /\ \A j \in 1 .. i : Closing(s, j, o)
  <2>1. i = 1 /\ s[i] = x /\ x.op # "gc"
    BY <1>2, <1>3, <1>5 DEF On
  <2>2. /\ x.op \in {"header", "remove", "destroy"} /\ x.file \in Files
        /\ o[x.file].here /\ (~o[x.file].deleted \/ (g = None /\ Closing(s, 1, o)))
    BY <1>1, <2>1
  <2>3. \A j \in 1 .. 1 : j = 1
    OBVIOUS
  <2>4. QED
    BY <2>1, <2>2, <2>3
<1>6. TodoOk(s, o, g)
  BY <1>4, <1>5 DEF TodoOk, Closing
<1>7. QED
  BY <1>1, <1>2, <1>6

(* A header and then the end of an object that is deleted.                 *)
LEMMA EndOk ==
  ASSUME NEW f \in Files, NEW x \in BOOLEAN, NEW o, NEW g, o[f].here, o[f].dir = "deleted",
         o[f].deleted => g = None
  PROVE  LET s == <<UpdateObjectHeader(f, x), Op("remove", f)>> IN
         /\ s \in Seq(Ops) /\ TodoOk(s, o, g) /\ DOMAIN s = {1, 2}
         /\ \A i \in DOMAIN s : s[i].file = f /\ Closing(s, i, o)
<1>1. PICK y, z \in Ops : y = UpdateObjectHeader(f, x) /\ z = Op("remove", f)
  BY OpType DEF Steps
<1>2. y.op = "header" /\ y.file = f /\ z.op = "remove" /\ z.file = f
  BY <1>1, OpType DEF Steps
<1>3. PICK s : s = <<y, z>>
  OBVIOUS
<1>4. s \in Seq(Ops) /\ DOMAIN s = {1, 2} /\ s[1] = y /\ s[2] = z
  BY <1>3
<1>5. \A i \in DOMAIN s : s[i].file = f /\ Closing(s, i, o)
  BY <1>2, <1>4 DEF Closing
<1>6. ASSUME NEW i \in DOMAIN s
      PROVE  /\ s[i].file \in Files /\ o[s[i].file].here
             /\ s[i].op \notin {"put", "prune"}
             /\ o[s[i].file].deleted => Closing(s, i, o) /\ g = None /\ \A j \in 1 .. i : Closing(s, j, o)
  <2>1. \A j \in 1 .. i : j \in DOMAIN s
    BY <1>4
  <2>2. s[i].op \in {"header", "remove"}
    BY <1>2, <1>4
  <2>3. QED
    BY <1>5, <2>1, <2>2
<1>7. \A i, j \in DOMAIN s : i < j => s[i].op = "header" /\ s[j].op = "remove"
  BY <1>2, <1>4
<1>8. TodoOk(s, o, g)
  BY <1>5, <1>6, <1>7 DEF TodoOk, Closing
<1>9. QED
  BY <1>1, <1>3, <1>4, <1>5, <1>8

-----------------------------------------------------------------------------
(* The steps that change the device alone.                                 *)
LEMMA DeviceRecord ==
  ASSUME NEW d, NEW t \in [Blocks -> BlockInfos], NEW a \in Blocks \cup {None}, NEW p \in Nat,
         NEW s \in Nat, NEW m \in Int, NEW r \in Int,
         d = [blk |-> t, alloc |-> a, page |-> p, seq |-> s, erased |-> m, free |-> r]
  PROVE  d \in Devices
BY DEF Devices

LEMMA DeviceFields ==
  ASSUME NEW d \in Devices
  PROVE  /\ d.blk \in [Blocks -> BlockInfos] /\ d.alloc \in Blocks \cup {None} /\ d.page \in Nat
         /\ d.seq \in Nat /\ d.erased \in Int /\ d.free \in Int
BY DEF Devices

LEMMA BlockFields ==
  ASSUME NEW r \in BlockInfos
  PROVE  /\ r.state \in States /\ r.seq \in Nat /\ r.bits \in SUBSET Pages /\ r.pagesInUse \in Nat
         /\ r.softDel \in Nat /\ r.shrink \in BOOLEAN /\ r.retire \in BOOLEAN
BY DEF BlockInfos

(* A full block is collected.                                              *)
LEMMA StartOk ==
  ASSUME NEW d, NEW o \in [Files -> Objects], NEW n \in Flash, DevOk(d, o, n, None),
         NEW b \in Blocks, d.blk[b].state = "full"
  PROVE  DevOk([d EXCEPT !.free = @ - d.blk[b].softDel,
                         !.blk[b].shrink = FALSE,
                         !.blk[b].state = IF d.blk[b].bits = {} THEN "dirty" ELSE "collecting"],
               o, n, b)
<1>1. d \in Devices /\ HeldOk(o, d, n) /\ AllocOk(d, n) /\ CountsOk(d)
      /\ \A y \in Blocks : BlockOk(d, o, None, y)
  BY DEF DevOk
<1>2. PICK r : r = d.blk[b]
  OBVIOUS
<1>3. d.blk \in [Blocks -> BlockInfos] /\ r \in BlockInfos
  BY <1>1, <1>2, DeviceFields
<1>4. PICK s : s = IF r.bits = {} THEN "dirty" ELSE "collecting"
  OBVIOUS
<1>5. PICK e : e = [d EXCEPT !.free = @ - d.blk[b].softDel,
                             !.blk[b].shrink = FALSE,
                             !.blk[b].state = IF d.blk[b].bits = {} THEN "dirty" ELSE "collecting"]
  OBVIOUS
<1>6. e = [d EXCEPT !.free = @ - r.softDel, !.blk[b].shrink = FALSE, !.blk[b].state = s]
  BY <1>2, <1>4, <1>5
<1>7. PICK v : v = [r EXCEPT !.shrink = FALSE, !.state = s]
  OBVIOUS
<1>8. /\ v.state = s /\ v.seq = r.seq /\ v.bits = r.bits /\ v.pagesInUse = r.pagesInUse
      /\ v.softDel = r.softDel /\ v.shrink = FALSE /\ v.retire = r.retire
      /\ v = [state |-> v.state, seq |-> v.seq, bits |-> v.bits, pagesInUse |-> v.pagesInUse,
              softDel |-> v.softDel, shrink |-> v.shrink, retire |-> v.retire]
  BY <1>3, <1>7 DEF BlockInfos
<1>9. /\ e.free = d.free - r.softDel /\ e.alloc = d.alloc /\ e.page = d.page /\ e.seq = d.seq
      /\ e.erased = d.erased /\ e.blk = [d.blk EXCEPT ![b] = v]
      /\ e = [blk |-> e.blk, alloc |-> e.alloc, page |-> e.page, seq |-> e.seq,
              erased |-> e.erased, free |-> e.free]
  BY <1>1, <1>2, <1>6, <1>7 DEF Devices
<1>10. s \in {"dirty", "collecting"} /\ s \in States
  BY <1>4 DEF States
<1>11. v \in BlockInfos
  BY <1>3, <1>8, <1>10, BlockFields DEF BlockInfos
<1>12. e.blk[b] = v /\ (\A y \in Blocks \ {b} : e.blk[y] = d.blk[y]) /\ e.blk \in [Blocks -> BlockInfos]
  BY <1>3, <1>9, <1>11
<1>13. r.softDel \in Nat /\ r.pagesInUse \in Nat /\ ChunksPerBlock \in Nat
  BY <1>3, Geometry, BlockFields
<1>14. e \in Devices
  <2>1. d.alloc \in Blocks \cup {None} /\ d.page \in Nat /\ d.seq \in Nat /\ d.erased \in Int
        /\ d.free - r.softDel \in Int
    BY <1>1, <1>13, DeviceFields
  <2>2. QED
    BY <1>9, <1>12, <2>1, DeviceRecord
<1>15. HeldOk(o, e, n)
  <2>1. \A y \in Blocks : Held(o, y) \subseteq d.blk[y].bits
    BY <1>1, HeldIn
  <2>2. \A y \in Blocks : Held(o, y) \subseteq e.blk[y].bits
    BY <1>2, <1>8, <1>12, <2>1
  <2>3. QED
    BY <1>1, <2>2, HeldKept
<1>16. /\ r.pagesInUse = Cardinality(r.bits)
       /\ r.softDel + Cardinality(Held(o, b)) <= Cardinality(r.bits)
  <2>1. BlockOk(d, o, None, b)
    BY <1>1
  <2>2. QED
    BY <1>2, <2>1 DEF BlockOk
<1>17. ASSUME NEW y \in Blocks PROVE BlockOk(e, o, b, y)
  <2>1. CASE y = b
    BY <1>4, <1>8, <1>10, <1>12, <1>16, <2>1 DEF BlockOk
  <2>2. CASE y # b
    <3>1. BlockOk(d, o, None, y)
      BY <1>1
    <3>2. d.blk[y].state # "collecting"
      <4>1. y # None
        BY Distinct
      <4>2. QED
        BY <3>1, <4>1 DEF BlockOk
    <3>3. QED
      BY <1>12, <2>2, <3>1, <3>2 DEF BlockOk
  <2>3. QED
    BY <2>1, <2>2
<1>18. AllocOk(e, n)
  <2>1. d.alloc # None => d.alloc \in Blocks \ {b}
    BY <1>1, DeviceFields DEF AllocOk
  <2>2. QED
    BY <1>1, <1>9, <1>12, <2>1 DEF AllocOk
<1>19. CountsOk(e)
  <2>1. Room(r) = ChunksPerBlock - r.pagesInUse + r.softDel
    BY <1>2 DEF Room
  <2>2. Room(v) = ChunksPerBlock - r.pagesInUse
    <3>1. CASE r.bits = {}
      <4>1. Room(v) = ChunksPerBlock
        BY <1>4, <1>8, <3>1 DEF Room
      <4>2. r.pagesInUse = 0
        BY <1>16, <3>1, FS_EmptySet
      <4>3. QED
        BY <1>13, <4>1, <4>2
    <3>2. CASE r.bits # {}
      BY <1>4, <1>8, <3>2 DEF Room
    <3>3. QED
      BY <3>1, <3>2
  <2>3. Vacant(r) = 0 /\ Vacant(v) = 0
    BY <1>2, <1>8, <1>10 DEF Vacant
  <2>4. d.free \in Int /\ d.erased \in Int
    BY <1>1, DeviceFields
  <2>5. e.free = d.free - Room(d.blk[b]) + Room(e.blk[b])
    <3>1. e.free = d.free - Room(r) + Room(v)
      BY <1>9, <1>13, <2>1, <2>2, <2>4
    <3>2. QED
      BY <1>2, <1>12, <3>1
  <2>6. e.erased = d.erased - Vacant(d.blk[b]) + Vacant(e.blk[b])
    BY <1>2, <1>9, <1>12, <2>3, <2>4
  <2>7. QED
    BY <1>1, <1>12, <1>14, <2>5, <2>6, CountsUpdate
<1>20. QED
  BY <1>5, <1>14, <1>15, <1>17, <1>18, <1>19 DEF DevOk

(* A block without chunks is erased, or lost.                              *)
LEMMA ErasedOk ==
  ASSUME NEW d, NEW o \in [Files -> Objects], NEW n \in Flash, NEW g, DevOk(d, o, n, g),
         NEW b \in Blocks, d.blk[b].state = "dirty"
  PROVE  /\ [n EXCEPT ![b] = <<>>] \in Flash
         /\ DevOk([d EXCEPT !.erased = @ + 1,
                            !.blk[b] = [@ EXCEPT !.state = "empty", !.pagesInUse = 0,
                                                 !.bits = {}, !.softDel = 0, !.shrink = FALSE]],
                  o, [n EXCEPT ![b] = <<>>], g)
<1>1. d \in Devices /\ HeldOk(o, d, n) /\ AllocOk(d, n) /\ CountsOk(d)
      /\ \A y \in Blocks : BlockOk(d, o, g, y)
  BY DEF DevOk
<1>2. PICK r : r = d.blk[b]
  OBVIOUS
<1>3. d.blk \in [Blocks -> BlockInfos] /\ r \in BlockInfos
  BY <1>1, <1>2, DeviceFields
<1>4. PICK v : v = [r EXCEPT !.state = "empty", !.pagesInUse = 0,
                             !.bits = {}, !.softDel = 0, !.shrink = FALSE]
  OBVIOUS
<1>5. /\ v.state = "empty" /\ v.seq = r.seq /\ v.bits = {} /\ v.pagesInUse = 0
      /\ v.softDel = 0 /\ v.shrink = FALSE /\ v.retire = r.retire
      /\ v = [state |-> v.state, seq |-> v.seq, bits |-> v.bits, pagesInUse |-> v.pagesInUse,
              softDel |-> v.softDel, shrink |-> v.shrink, retire |-> v.retire]
  BY <1>3, <1>4 DEF BlockInfos
<1>6. PICK e : e = [d EXCEPT !.erased = @ + 1,
                             !.blk[b] = [@ EXCEPT !.state = "empty", !.pagesInUse = 0,
                                                  !.bits = {}, !.softDel = 0, !.shrink = FALSE]]
  OBVIOUS
<1>7. e = [d EXCEPT !.erased = @ + 1, !.blk[b] = v]
  BY <1>2, <1>4, <1>6
<1>8. /\ e.free = d.free /\ e.alloc = d.alloc /\ e.page = d.page /\ e.seq = d.seq
      /\ e.erased = d.erased + 1 /\ e.blk = [d.blk EXCEPT ![b] = v]
      /\ e = [blk |-> e.blk, alloc |-> e.alloc, page |-> e.page, seq |-> e.seq,
              erased |-> e.erased, free |-> e.free]
  BY <1>1, <1>7 DEF Devices
<1>9. v \in BlockInfos
  <2>1. "empty" \in States /\ {} \in SUBSET Pages /\ 0 \in Nat
    BY DEF States
  <2>2. QED
    BY <1>3, <1>5, <2>1, BlockFields DEF BlockInfos
<1>10. e.blk[b] = v /\ (\A y \in Blocks \ {b} : e.blk[y] = d.blk[y]) /\ e.blk \in [Blocks -> BlockInfos]
  BY <1>3, <1>8, <1>9
<1>11. d.alloc \in Blocks \cup {None} /\ d.page \in Nat /\ d.seq \in Nat /\ d.erased \in Int
       /\ d.free \in Int /\ ChunksPerBlock \in Nat
  BY <1>1, DeviceFields, Geometry
<1>12. e \in Devices
  BY <1>8, <1>10, <1>11, DeviceRecord
<1>13. PICK m : m = [n EXCEPT ![b] = <<>>]
  OBVIOUS
<1>14. m \in Flash /\ \A y \in Blocks \ {b} : m[y] = n[y]
  BY <1>13 DEF Flash
<1>15. d.blk[b].bits = {} /\ Held(o, b) = {}
  <2>1. BlockOk(d, o, g, b)
    BY <1>1
  <2>2. d.blk[b].bits = {}
    BY <2>1 DEF BlockOk
  <2>3. QED
    BY <1>1, <2>2, HeldIn
<1>16. HeldOk(o, e, m)
  <2>1. ASSUME NEW f \in Files, NEW k \in 0 .. FileChunks, Own(o, f, k) # None
        PROVE  LET c == Own(o, f, k) IN
               /\ o[f].here /\ c[2] \in e.blk[c[1]].bits
               /\ c[2] <= Len(m[c[1]]) /\ m[c[1]][c[2]] # Torn
               /\ m[c[1]][c[2]].file = f /\ m[c[1]][c[2]].chunk = k
    <3>1. PICK c \in Addr : c = Own(o, f, k)
      BY <2>1, OwnType
    <3>2. /\ o[f].here /\ c[2] \in d.blk[c[1]].bits
          /\ c[2] <= Len(n[c[1]]) /\ n[c[1]][c[2]] # Torn
          /\ n[c[1]][c[2]].file = f /\ n[c[1]][c[2]].chunk = k
      BY <1>1, <3>1, OwnTag
    <3>3. c[1] \in Blocks \ {b}
      BY <1>15, <3>2, AddrPair
    <3>4. QED
      BY <1>10, <1>14, <3>1, <3>2, <3>3
  <2>2. QED
    BY <2>1 DEF HeldOk
<1>17. ASSUME NEW y \in Blocks PROVE BlockOk(e, o, g, y)
  <2>1. CASE y = b
    BY <1>5, <1>10, <2>1, FS_EmptySet DEF BlockOk
  <2>2. CASE y # b
    <3>1. BlockOk(d, o, g, y)
      BY <1>1
    <3>2. QED
      BY <1>10, <2>2, <3>1 DEF BlockOk
  <2>3. QED
    BY <2>1, <2>2
<1>18. AllocOk(e, m)
  <2>1. d.alloc # None => d.alloc \in Blocks \ {b}
    BY <1>1, <1>11 DEF AllocOk
  <2>2. QED
    BY <1>1, <1>8, <1>10, <1>14, <2>1 DEF AllocOk
<1>19. CountsOk(e)
  <2>1. Room(r) = ChunksPerBlock /\ Room(v) = ChunksPerBlock
    BY <1>2, <1>5, <1>11 DEF Room
  <2>2. Vacant(r) = 0 /\ Vacant(v) = 1
    BY <1>2, <1>5 DEF Vacant
  <2>3. e.free = d.free - Room(d.blk[b]) + Room(e.blk[b])
    BY <1>2, <1>8, <1>10, <1>11, <2>1
  <2>4. e.erased = d.erased - Vacant(d.blk[b]) + Vacant(e.blk[b])
    BY <1>2, <1>8, <1>10, <1>11, <2>2
  <2>5. QED
    BY <1>1, <1>10, <1>12, <2>3, <2>4, CountsUpdate
<1>20. QED
  BY <1>6, <1>12, <1>13, <1>14, <1>16, <1>17, <1>18, <1>19 DEF DevOk

LEMMA LostOk ==
  ASSUME NEW d, NEW o \in [Files -> Objects], NEW n \in Flash, NEW g, DevOk(d, o, n, g),
         NEW b \in Blocks, d.blk[b].state = "dirty"
  PROVE  DevOk([d EXCEPT !.free = @ - ChunksPerBlock,
                         !.blk[b] = [@ EXCEPT !.state = "dead", !.retire = FALSE]], o, n, g)
<1>1. d \in Devices /\ HeldOk(o, d, n) /\ AllocOk(d, n) /\ CountsOk(d)
      /\ \A y \in Blocks : BlockOk(d, o, g, y)
  BY DEF DevOk
<1>2. PICK r : r = d.blk[b]
  OBVIOUS
<1>3. d.blk \in [Blocks -> BlockInfos] /\ r \in BlockInfos
  BY <1>1, <1>2, DeviceFields
<1>4. PICK v : v = [r EXCEPT !.state = "dead", !.retire = FALSE]
  OBVIOUS
<1>5. /\ v.state = "dead" /\ v.seq = r.seq /\ v.bits = r.bits /\ v.pagesInUse = r.pagesInUse
      /\ v.softDel = r.softDel /\ v.shrink = r.shrink /\ v.retire = FALSE
      /\ v = [state |-> v.state, seq |-> v.seq, bits |-> v.bits, pagesInUse |-> v.pagesInUse,
              softDel |-> v.softDel, shrink |-> v.shrink, retire |-> v.retire]
  BY <1>3, <1>4 DEF BlockInfos
<1>6. PICK e : e = [d EXCEPT !.free = @ - ChunksPerBlock,
                             !.blk[b] = [@ EXCEPT !.state = "dead", !.retire = FALSE]]
  OBVIOUS
<1>7. e = [d EXCEPT !.free = @ - ChunksPerBlock, !.blk[b] = v]
  BY <1>2, <1>4, <1>6
<1>8. /\ e.free = d.free - ChunksPerBlock /\ e.alloc = d.alloc /\ e.page = d.page /\ e.seq = d.seq
      /\ e.erased = d.erased /\ e.blk = [d.blk EXCEPT ![b] = v]
      /\ e = [blk |-> e.blk, alloc |-> e.alloc, page |-> e.page, seq |-> e.seq,
              erased |-> e.erased, free |-> e.free]
  BY <1>1, <1>7 DEF Devices
<1>9. v \in BlockInfos
  <2>1. "dead" \in States
    BY DEF States
  <2>2. QED
    BY <1>3, <1>5, <2>1, BlockFields DEF BlockInfos
<1>10. e.blk[b] = v /\ (\A y \in Blocks \ {b} : e.blk[y] = d.blk[y]) /\ e.blk \in [Blocks -> BlockInfos]
  BY <1>3, <1>8, <1>9
<1>11. d.alloc \in Blocks \cup {None} /\ d.page \in Nat /\ d.seq \in Nat /\ d.erased \in Int
       /\ d.free \in Int /\ ChunksPerBlock \in Nat
  BY <1>1, DeviceFields, Geometry
<1>12. e \in Devices
  <2>1. d.free - ChunksPerBlock \in Int
    BY <1>11
  <2>2. QED
    BY <1>8, <1>10, <1>11, <2>1, DeviceRecord
<1>13. HeldOk(o, e, n)
  <2>1. \A y \in Blocks : Held(o, y) \subseteq d.blk[y].bits
    BY <1>1, HeldIn
  <2>2. \A y \in Blocks : Held(o, y) \subseteq e.blk[y].bits
    BY <1>2, <1>5, <1>10, <2>1
  <2>3. QED
    BY <1>1, <2>2, HeldKept
<1>14. ASSUME NEW y \in Blocks PROVE BlockOk(e, o, g, y)
  <2>1. CASE y = b
    <3>1. BlockOk(d, o, g, b)
      BY <1>1
    <3>2. QED
      BY <1>2, <1>5, <1>10, <2>1, <3>1 DEF BlockOk
  <2>2. CASE y # b
    <3>1. BlockOk(d, o, g, y)
      BY <1>1
    <3>2. QED
      BY <1>10, <2>2, <3>1 DEF BlockOk
  <2>3. QED
    BY <2>1, <2>2
<1>15. AllocOk(e, n)
  <2>1. d.alloc # None => d.alloc \in Blocks \ {b}
    BY <1>1, <1>11 DEF AllocOk
  <2>2. QED
    BY <1>1, <1>8, <1>10, <2>1 DEF AllocOk
<1>16. CountsOk(e)
  <2>1. Room(r) = ChunksPerBlock /\ Room(v) = 0
    BY <1>2, <1>5, <1>11 DEF Room
  <2>2. Vacant(r) = 0 /\ Vacant(v) = 0
    BY <1>2, <1>5 DEF Vacant
  <2>3. e.free = d.free - Room(d.blk[b]) + Room(e.blk[b])
    BY <1>2, <1>8, <1>10, <1>11, <2>1
  <2>4. e.erased = d.erased - Vacant(d.blk[b]) + Vacant(e.blk[b])
    BY <1>2, <1>8, <1>10, <1>11, <2>2
  <2>5. QED
    BY <1>1, <1>10, <1>12, <2>3, <2>4, CountsUpdate
<1>17. QED
  BY <1>6, <1>12, <1>13, <1>14, <1>15, <1>16 DEF DevOk

(* A block with a shrink header is marked.                                 *)
LEMMA MarkedOk ==
  ASSUME NEW d, NEW o \in [Files -> Objects], NEW n \in Flash, NEW g, DevOk(d, o, n, g),
         NEW b \in Blocks, d.blk[b].state # "collecting"
  PROVE  DevOk([d EXCEPT !.blk[b].shrink = TRUE], o, n, g)
<1>1. d \in Devices /\ HeldOk(o, d, n) /\ AllocOk(d, n) /\ CountsOk(d)
      /\ \A y \in Blocks : BlockOk(d, o, g, y)
  BY DEF DevOk
<1>2. PICK r : r = d.blk[b]
  OBVIOUS
<1>3. d.blk \in [Blocks -> BlockInfos] /\ r \in BlockInfos
  BY <1>1, <1>2, DeviceFields
<1>4. PICK v : v = [r EXCEPT !.shrink = TRUE]
  OBVIOUS
<1>5. /\ v.state = r.state /\ v.seq = r.seq /\ v.bits = r.bits /\ v.pagesInUse = r.pagesInUse
      /\ v.softDel = r.softDel /\ v.shrink = TRUE /\ v.retire = r.retire
      /\ v = [state |-> v.state, seq |-> v.seq, bits |-> v.bits, pagesInUse |-> v.pagesInUse,
              softDel |-> v.softDel, shrink |-> v.shrink, retire |-> v.retire]
  BY <1>3, <1>4 DEF BlockInfos
<1>6. PICK e : e = [d EXCEPT !.blk[b].shrink = TRUE]
  OBVIOUS
<1>7. /\ e.free = d.free /\ e.alloc = d.alloc /\ e.page = d.page /\ e.seq = d.seq
      /\ e.erased = d.erased /\ e.blk = [d.blk EXCEPT ![b] = v]
      /\ e = [blk |-> e.blk, alloc |-> e.alloc, page |-> e.page, seq |-> e.seq,
              erased |-> e.erased, free |-> e.free]
  BY <1>1, <1>2, <1>4, <1>6 DEF Devices
<1>8. v \in BlockInfos
  BY <1>3, <1>5, BlockFields DEF BlockInfos
<1>9. e.blk[b] = v /\ (\A y \in Blocks \ {b} : e.blk[y] = d.blk[y]) /\ e.blk \in [Blocks -> BlockInfos]
  BY <1>3, <1>7, <1>8
<1>10. d.alloc \in Blocks \cup {None} /\ d.page \in Nat /\ d.seq \in Nat /\ d.erased \in Int
       /\ d.free \in Int /\ ChunksPerBlock \in Nat
  BY <1>1, DeviceFields, Geometry
<1>11. e \in Devices
  BY <1>7, <1>9, <1>10, DeviceRecord
<1>12. HeldOk(o, e, n)
  <2>1. \A y \in Blocks : Held(o, y) \subseteq d.blk[y].bits
    BY <1>1, HeldIn
  <2>2. \A y \in Blocks : Held(o, y) \subseteq e.blk[y].bits
    BY <1>2, <1>5, <1>9, <2>1
  <2>3. QED
    BY <1>1, <2>2, HeldKept
<1>13. ASSUME NEW y \in Blocks PROVE BlockOk(e, o, g, y)
  <2>1. BlockOk(d, o, g, y)
    BY <1>1
  <2>2. CASE y = b
    BY <1>2, <1>5, <1>9, <2>1, <2>2 DEF BlockOk
  <2>3. CASE y # b
    BY <1>9, <2>1, <2>3 DEF BlockOk
  <2>4. QED
    BY <2>2, <2>3
<1>14. AllocOk(e, n)
  <2>1. d.alloc # None => e.blk[d.alloc].state = d.blk[d.alloc].state /\ e.blk[d.alloc].bits = d.blk[d.alloc].bits
    BY <1>2, <1>5, <1>9, <1>10
  <2>2. QED
    BY <1>1, <1>7, <2>1 DEF AllocOk
<1>15. CountsOk(e)
  <2>1. Room(v) = Room(r) /\ Vacant(v) = Vacant(r) /\ Room(r) \in Int /\ Vacant(r) \in Int
    BY <1>3, <1>5, <1>10, BlockFields DEF Room, Vacant
  <2>2. e.free = d.free - Room(d.blk[b]) + Room(e.blk[b])
    BY <1>2, <1>7, <1>9, <1>10, <2>1
  <2>3. e.erased = d.erased - Vacant(d.blk[b]) + Vacant(e.blk[b])
    BY <1>2, <1>7, <1>9, <1>10, <2>1
  <2>4. QED
    BY <1>1, <1>9, <1>11, <2>2, <2>3, CountsUpdate
<1>16. QED
  BY <1>6, <1>11, <1>12, <1>13, <1>14, <1>15 DEF DevOk

LEMMA AddrFinite ==
  /\ IsFiniteSet(Addr)
  /\ \A C \in SUBSET Addr : IsFiniteSet(C) /\ Cardinality(C) \in Nat
<1>1. IsFiniteSet(Blocks \X Pages)
  BY Geometry, PagesFinite, FS_Product
<1>2. Addr = Blocks \X Pages
  BY DEF Addr
<1>3. QED
  BY <1>1, <1>2, FS_Subset, FS_CardinalityType

(* The data of a file is soft-deleted.                                     *)
DataChunks(o, f) == {o[f].tnode[k] : k \in 1 .. FileChunks} \ {None}

LEMMA SoftDeletedOk ==
  ASSUME NEW d, NEW o \in [Files -> Objects], NEW q \in [Files -> Objects], NEW n \in Flash,
         DevOk(d, o, n, None), NEW f \in Files,
         \A h \in Files : q[h].here = o[h].here,
         \A h \in Files, j \in 0 .. FileChunks :
            Own(q, h, j) = IF h = f /\ j # 0 THEN None ELSE Own(o, h, j)
  PROVE  DevOk(SoftDeleted(d, DataChunks(o, f)), q, n, None)
<1>1. d \in Devices /\ HeldOk(o, d, n) /\ AllocOk(d, n) /\ CountsOk(d)
      /\ \A y \in Blocks : BlockOk(d, o, None, y)
  BY DEF DevOk
<1>2. PICK C : C = DataChunks(o, f)
  OBVIOUS
<1>3. \A c : c \in C <=> c # None /\ \E k \in 1 .. FileChunks : c = Own(o, f, k)
  BY <1>2, Geometry DEF Own, DataChunks
<1>4. (\A k \in 1 .. FileChunks : k \in 0 .. FileChunks /\ k # 0)
      /\ (\A k \in 0 .. FileChunks : k # 0 => k \in 1 .. FileChunks)
  BY Geometry
<1>5. C \subseteq Addr
  BY <1>3, <1>4, OwnType
<1>6. DevOk(d, q, n, None)
  <2>1. ASSUME NEW h \in Files, NEW j \in 0 .. FileChunks
        PROVE  /\ Own(q, h, j) \in {Own(o, h, j), None}
               /\ Own(q, h, j) # None => q[h].here
    <3>1. ASSUME Own(q, h, j) # None PROVE q[h].here
      <4>1. Own(o, h, j) # None
        BY <3>1
      <4>2. PICK c \in Addr : c = Own(o, h, j)
        BY <4>1, OwnType
      <4>3. QED
        BY <1>1, <4>2, OwnTag
    <3>2. QED
      BY <3>1
  <2>2. QED
    BY <2>1, FewerOk
<1>7. HeldOk(q, d, n)
  BY <1>6 DEF DevOk
<1>8. PICK N : N = [b \in Blocks |-> Cardinality(ChunksOf(C, b))]
  OBVIOUS
<1>9. ASSUME NEW b \in Blocks
      PROVE  /\ N[b] \in Nat
             /\ Cardinality(Held(q, b)) + N[b] <= Cardinality(Held(o, b))
             /\ Held(o, b) = {} => N[b] = 0
  <2>1. PICK P, H, K : P = PagesOf(C, b) /\ H = Held(q, b) /\ K = Held(o, b)
    OBVIOUS
  <2>2. Cardinality(P) = N[b] /\ N[b] \in Nat
    BY <1>5, <1>8, <2>1, AddrFinite, PagesCounted
  <2>3. P \subseteq K
    <3> SUFFICES ASSUME NEW p \in P PROVE p \in K
      OBVIOUS
    <3>1. p \in Pages /\ <<b, p>> \in C
      BY <2>1 DEF PagesOf
    <3>2. PICK k \in 1 .. FileChunks : <<b, p>> = Own(o, f, k)
      BY <1>3, <3>1
    <3>3. QED
      BY <1>4, <2>1, <3>1, <3>2 DEF Held
  <2>4. H \subseteq K /\ H \cap P = {}
    <3> SUFFICES ASSUME NEW p \in H PROVE p \in K /\ p \notin P
      OBVIOUS
    <3>1. PICK h \in Files, j \in 0 .. FileChunks : Own(q, h, j) = <<b, p>> /\ p \in Pages
      BY <2>1 DEF Held
    <3>2. PICK c \in Addr : c = <<b, p>> /\ c # None
      BY <3>1, AddrPair, Distinct
    <3>3. Own(o, h, j) = c /\ ~(h = f /\ j # 0)
      BY <3>1, <3>2
    <3>4. p \in K
      BY <2>1, <3>1, <3>2, <3>3 DEF Held
    <3>5. ASSUME p \in P PROVE FALSE
      <4>1. c \in C
        BY <2>1, <3>2, <3>5 DEF PagesOf
      <4>2. PICK k \in 1 .. FileChunks : c = Own(o, f, k)
        BY <1>3, <4>1
      <4>3. h = f /\ j = k
        BY <1>1, <1>4, <3>3, <4>2, OwnTag
      <4>4. QED
        BY <1>4, <3>3, <4>3
    <3>6. QED
      BY <3>4, <3>5
  <2>5. /\ IsFiniteSet(H) /\ IsFiniteSet(K) /\ IsFiniteSet(P)
        /\ Cardinality(H) \in Nat /\ Cardinality(K) \in Nat
    BY <2>1, <2>3, HeldFinite, FS_Subset
  <2>6. Cardinality(H \cup P) = Cardinality(H) + Cardinality(P) - Cardinality(H \cap P)
    BY <2>5, FS_Union
  <2>7. Cardinality(H \cap P) = 0
    BY <2>4, FS_EmptySet
  <2>8. Cardinality(H \cup P) <= Cardinality(K)
    BY <2>3, <2>4, <2>5, FS_Subset
  <2>9. Cardinality(H) + N[b] <= Cardinality(K)
    BY <2>2, <2>5, <2>6, <2>7, <2>8
  <2>10. ASSUME K = {} PROVE N[b] = 0
    <3>1. P = {}
      BY <2>3, <2>10
    <3>2. QED
      BY <2>2, <3>1, FS_EmptySet
  <2>11. QED
    BY <2>1, <2>2, <2>9, <2>10
<1>10. PICK e : e = SoftDeleted(d, C)
  OBVIOUS
<1>11. /\ e.free = d.free + Cardinality(C) /\ e.alloc = d.alloc /\ e.page = d.page /\ e.seq = d.seq
       /\ e.erased = d.erased
       /\ e.blk = [b \in Blocks |-> [d.blk[b] EXCEPT !.softDel = @ + Cardinality(ChunksOf(C, b))]]
       /\ e = [blk |-> e.blk, alloc |-> e.alloc, page |-> e.page, seq |-> e.seq,
               erased |-> e.erased, free |-> e.free]
  BY <1>1, <1>10 DEF SoftDeleted, Devices, ChunksOf
<1>12. ASSUME NEW b \in Blocks
       PROVE  LET r == d.blk[b]
                  v == e.blk[b]
              IN  /\ r \in BlockInfos /\ v \in BlockInfos
                  /\ v.state = r.state /\ v.bits = r.bits /\ v.pagesInUse = r.pagesInUse
                  /\ v.softDel = r.softDel + N[b] /\ v.shrink = r.shrink
  <2>1. PICK r : r = d.blk[b] /\ r \in BlockInfos
    BY <1>1, DeviceFields
  <2>2. PICK v : v = [r EXCEPT !.softDel = @ + N[b]]
    OBVIOUS
  <2>3. e.blk[b] = v
    BY <1>8, <1>11, <2>1, <2>2
  <2>4. /\ v.state = r.state /\ v.seq = r.seq /\ v.bits = r.bits /\ v.pagesInUse = r.pagesInUse
        /\ v.softDel = r.softDel + N[b] /\ v.shrink = r.shrink /\ v.retire = r.retire
        /\ v = [state |-> v.state, seq |-> v.seq, bits |-> v.bits, pagesInUse |-> v.pagesInUse,
                softDel |-> v.softDel, shrink |-> v.shrink, retire |-> v.retire]
    BY <2>1, <2>2 DEF BlockInfos
  <2>5. r.softDel + N[b] \in Nat
    BY <1>9, <2>1, BlockFields
  <2>6. v \in BlockInfos
    BY <2>1, <2>4, <2>5, BlockFields DEF BlockInfos
  <2>7. QED
    BY <2>1, <2>3, <2>4, <2>6
<1>13. e.blk \in [Blocks -> BlockInfos] /\ d.blk \in [Blocks -> BlockInfos]
  BY <1>1, <1>11, <1>12, DeviceFields
<1>14. d.alloc \in Blocks \cup {None} /\ d.page \in Nat /\ d.seq \in Nat /\ d.erased \in Int
       /\ d.free \in Int /\ ChunksPerBlock \in Nat /\ Cardinality(C) \in Nat
  BY <1>1, <1>5, DeviceFields, Geometry, AddrFinite
<1>15. e \in Devices
  <2>1. d.free + Cardinality(C) \in Int
    BY <1>14
  <2>2. QED
    BY <1>11, <1>13, <1>14, <2>1, DeviceRecord
<1>16. HeldOk(q, e, n)
  <2>1. \A y \in Blocks : Held(q, y) \subseteq d.blk[y].bits
    BY <1>7, HeldIn
  <2>2. \A y \in Blocks : Held(q, y) \subseteq e.blk[y].bits
    BY <1>12, <2>1
  <2>3. QED
    BY <1>7, <2>2, HeldKept
<1>17. \A b \in Blocks : d.blk[b].state # "collecting"
                         /\ (d.blk[b].state \in {"empty", "dirty", "dead"} => N[b] = 0)
  <2> SUFFICES ASSUME NEW b \in Blocks
               PROVE  d.blk[b].state # "collecting"
                      /\ (d.blk[b].state \in {"empty", "dirty", "dead"} => N[b] = 0)
    OBVIOUS
  <2>1. BlockOk(d, o, None, b) /\ b # None
    BY <1>1, Distinct
  <2>2. d.blk[b].state # "collecting"
    BY <2>1 DEF BlockOk
  <2>3. d.blk[b].state \in {"empty", "dirty", "dead"} => d.blk[b].bits = {}
    BY <2>1 DEF BlockOk
  <2>4. d.blk[b].bits = {} => Held(o, b) = {}
    BY <1>1, HeldIn
  <2>5. QED
    BY <1>9, <2>2, <2>3, <2>4
<1>18. ASSUME NEW b \in Blocks PROVE BlockOk(e, q, None, b)
  <2>1. BlockOk(d, o, None, b)
    BY <1>1
  <2>2. PICK r, v : r = d.blk[b] /\ v = e.blk[b]
    OBVIOUS
  <2>3. /\ r \in BlockInfos /\ v.state = r.state /\ v.bits = r.bits /\ v.pagesInUse = r.pagesInUse
        /\ v.softDel = r.softDel + N[b] /\ r.softDel \in Nat /\ r.pagesInUse \in Nat /\ N[b] \in Nat
    BY <1>9, <1>12, <2>2, BlockFields
  <2>4. v.state = "empty" => v.softDel = 0
    <3>1. r.state = "empty" => r.softDel = 0 /\ N[b] = 0
      BY <1>17, <2>1, <2>2 DEF BlockOk
    <3>2. QED
      BY <2>3, <3>1
  <2>5. v.state \in {"full", "allocating"} => v.softDel + Cardinality(Held(q, b)) <= Cardinality(v.bits)
    <3> SUFFICES ASSUME v.state \in {"full", "allocating"}
                 PROVE  v.softDel + Cardinality(Held(q, b)) <= Cardinality(v.bits)
      OBVIOUS
    <3>1. r.softDel + Cardinality(Held(o, b)) <= Cardinality(r.bits) /\ r.pagesInUse = Cardinality(r.bits)
      BY <2>1, <2>2, <2>3 DEF BlockOk
    <3>2. Cardinality(Held(q, b)) \in Nat /\ Cardinality(Held(o, b)) \in Nat
      BY HeldFinite
    <3>3. Cardinality(Held(q, b)) + N[b] <= Cardinality(Held(o, b))
      BY <1>9
    <3>4. QED
      BY <2>3, <3>1, <3>2, <3>3
  <2>6. QED
    BY <1>17, <2>1, <2>2, <2>3, <2>4, <2>5 DEF BlockOk
<1>19. AllocOk(e, n)
  <2>1. d.alloc # None => e.blk[d.alloc].state = d.blk[d.alloc].state /\ e.blk[d.alloc].bits = d.blk[d.alloc].bits
    BY <1>12, <1>14
  <2>2. QED
    BY <1>1, <1>11, <2>1 DEF AllocOk
<1>20. CountsOk(e)
  <2>1. PICK w : w = Rooms(d.blk) /\ w \in [Blocks -> Int]
    BY <1>13, WeightsType
  <2>2. ASSUME NEW b \in Blocks PROVE Rooms(e.blk)[b] = w[b] + Cardinality(ChunksOf(C, b))
    <3>1. PICK r, v : r = d.blk[b] /\ v = e.blk[b]
      OBVIOUS
    <3>2. /\ r \in BlockInfos /\ v.state = r.state /\ v.bits = r.bits /\ v.pagesInUse = r.pagesInUse
          /\ v.softDel = r.softDel + N[b] /\ r.softDel \in Nat /\ r.pagesInUse \in Nat /\ N[b] \in Nat
          /\ r.state \in States
      BY <1>9, <1>12, <3>1, BlockFields
    <3>3. Room(v) = Room(r) + N[b]
      BY <1>14, <1>17, <3>1, <3>2 DEF Room, States
    <3>4. QED
      BY <1>8, <2>1, <3>1, <3>3 DEF Rooms
  <2>3. Rooms(e.blk) = [b \in Blocks |-> w[b] + Cardinality(ChunksOf(C, b))]
    BY <2>2 DEF Rooms
  <2>4. Total(Rooms(e.blk), Blocks) = Total(w, Blocks) + Cardinality(C)
    BY <1>5, <2>1, <2>3, AddrFinite, TotalChunks
  <2>5. InState(e.blk, {"empty"}) = InState(d.blk, {"empty"})
    BY <1>12 DEF InState
  <2>6. QED
    BY <1>1, <1>11, <2>1, <2>4, <2>5 DEF CountsOk
<1>21. QED
  BY <1>2, <1>10, <1>15, <1>16, <1>18, <1>19, <1>20 DEF DevOk

-----------------------------------------------------------------------------
(* The actions.                                                            *)

LEMMA InMemory ==
  ASSUME GutsInv, mounted
  PROVE  /\ nand \in Flash /\ nseq \in [Blocks -> Nat]
         /\ obj \in [Files -> Objects] /\ todo \in Seq(Ops) /\ gcBlock \in Blocks \cup {None}
         /\ DevOk(dev, obj, nand, gcBlock) /\ DeletedOk(obj) /\ TodoOk(todo, obj, gcBlock)
BY DEF GutsInv, MemoryOk

LEMMA InMemoryAgain ==
  ASSUME mounted', NEW n \in Flash, NEW s \in [Blocks -> Nat], NEW d, NEW o \in [Files -> Objects],
         NEW t \in Seq(Ops), NEW g \in Blocks \cup {None},
         DevOk(d, o, n, g), DeletedOk(o), TodoOk(t, o, g),
         nand' = n, nseq' = s, dev' = d, obj' = o, todo' = t, gcBlock' = g
  PROVE  GutsInv'
BY DEF GutsInv, MemoryOk

LEMMA ObjectFields ==
  ASSUME NEW w \in Objects
  PROVE  /\ w.here \in BOOLEAN /\ w.dir \in Dirs /\ w.hdr \in Addr \cup {None}
         /\ w.size \in 0 .. FileChunks /\ w.tnode \in [1 .. FileChunks -> Addr \cup {None}]
         /\ w.nData \in Int /\ w.deleted \in BOOLEAN /\ w.dirty \in BOOLEAN
         /\ w = [here |-> w.here, dir |-> w.dir, hdr |-> w.hdr, size |-> w.size, tnode |-> w.tnode,
                 nData |-> w.nData, deleted |-> w.deleted, dirty |-> w.dirty]
BY DEF Objects

LEMMA ObjectRecord ==
  ASSUME NEW here \in BOOLEAN, NEW dir \in Dirs, NEW hdr \in Addr \cup {None},
         NEW size \in 0 .. FileChunks, NEW tnode \in [1 .. FileChunks -> Addr \cup {None}],
         NEW nData \in Int, NEW deleted \in BOOLEAN, NEW dirty \in BOOLEAN,
         NEW w, w = [here |-> here, dir |-> dir, hdr |-> hdr, size |-> size, tnode |-> tnode,
                     nData |-> nData, deleted |-> deleted, dirty |-> dirty]
  PROVE  w \in Objects
BY DEF Objects

LEMMA BlockBecameDirtyStep ==
  ASSUME GutsInv, BlockBecameDirty
  PROVE  GutsInv'
<1>1. mounted /\ mounted' /\ nseq' = nseq /\ obj' = obj /\ todo' = todo /\ gcBlock' = gcBlock
  BY DEF BlockBecameDirty
<1>2. /\ nand \in Flash /\ nseq \in [Blocks -> Nat]
      /\ obj \in [Files -> Objects] /\ todo \in Seq(Ops) /\ gcBlock \in Blocks \cup {None}
      /\ DevOk(dev, obj, nand, gcBlock) /\ DeletedOk(obj) /\ TodoOk(todo, obj, gcBlock)
  BY <1>1, InMemory
<1>3. PICK b \in Blocks :
        /\ dev.blk[b].state = "dirty"
        /\ \/ /\ nand' = [nand EXCEPT ![b] = <<>>]
              /\ dev' = [dev EXCEPT !.erased = @ + 1,
                                    !.blk[b] = [@ EXCEPT !.state = "empty", !.pagesInUse = 0,
                                                !.bits = {}, !.softDel = 0, !.shrink = FALSE]]
           \/ /\ dev' = [dev EXCEPT !.free = @ - ChunksPerBlock,
                                    !.blk[b] = [@ EXCEPT !.state = "dead", !.retire = FALSE]]
              /\ nand' = nand
  BY DEF BlockBecameDirty, InState
<1>4. CASE /\ nand' = [nand EXCEPT ![b] = <<>>]
           /\ dev' = [dev EXCEPT !.erased = @ + 1,
                                 !.blk[b] = [@ EXCEPT !.state = "empty", !.pagesInUse = 0,
                                             !.bits = {}, !.softDel = 0, !.shrink = FALSE]]
  <2>1. PICK m : m = [nand EXCEPT ![b] = <<>>]
    OBVIOUS
  <2>2. PICK e : e = [dev EXCEPT !.erased = @ + 1,
                                 !.blk[b] = [@ EXCEPT !.state = "empty", !.pagesInUse = 0,
                                             !.bits = {}, !.softDel = 0, !.shrink = FALSE]]
    OBVIOUS
  <2>3. m \in Flash /\ DevOk(e, obj, m, gcBlock)
    <3>1. /\ [nand EXCEPT ![b] = <<>>] \in Flash
          /\ DevOk([dev EXCEPT !.erased = @ + 1,
                               !.blk[b] = [@ EXCEPT !.state = "empty", !.pagesInUse = 0,
                                                    !.bits = {}, !.softDel = 0, !.shrink = FALSE]],
                   obj, [nand EXCEPT ![b] = <<>>], gcBlock)
      BY <1>2, <1>3, ErasedOk
    <3>2. QED
      BY <2>1, <2>2, <3>1
  <2>4. QED
    BY <1>1, <1>2, <1>4, <2>1, <2>2, <2>3, InMemoryAgain
<1>5. CASE /\ dev' = [dev EXCEPT !.free = @ - ChunksPerBlock,
                                 !.blk[b] = [@ EXCEPT !.state = "dead", !.retire = FALSE]]
           /\ nand' = nand
  <2>1. PICK e : e = [dev EXCEPT !.free = @ - ChunksPerBlock,
                                 !.blk[b] = [@ EXCEPT !.state = "dead", !.retire = FALSE]]
    OBVIOUS
  <2>2. DevOk(e, obj, nand, gcBlock)
    BY <1>2, <1>3, <2>1, LostOk
  <2>3. QED
    BY <1>1, <1>2, <1>5, <2>1, <2>2, InMemoryAgain
<1>6. QED
  BY <1>3, <1>4, <1>5

LEMMA SkipUnerasedStep ==
  ASSUME GutsInv, SkipUnerased
  PROVE  GutsInv'
<1>1. /\ mounted /\ mounted' /\ nand' = nand /\ nseq' = nseq /\ obj' = obj /\ todo' = todo
      /\ gcBlock' = gcBlock
  BY DEF SkipUnerased, NextIsWrite, Doing, Collecting, Quiet
<1>2. /\ nand \in Flash /\ nseq \in [Blocks -> Nat]
      /\ obj \in [Files -> Objects] /\ todo \in Seq(Ops) /\ gcBlock \in Blocks \cup {None}
      /\ DevOk(dev, obj, nand, gcBlock) /\ DeletedOk(obj) /\ TodoOk(todo, obj, gcBlock)
  BY <1>1, InMemory
<1>3. PICK d : d = Ready(dev)
  OBVIOUS
<1>4. d.alloc # None /\ ~ Erased(d) /\ dev' = Allocated(d)
  BY <1>3 DEF SkipUnerased, NextIsWrite, Fits
<1>5. DevOk(d, obj, nand, gcBlock)
  BY <1>2, <1>3, ReadyOk
<1>6. d.page <= Len(nand[d.alloc])
  <2>1. d \in Devices
    BY <1>5 DEF DevOk
  <2>2. d.page \in Nat /\ d.alloc \in Blocks
    BY <1>4, <2>1, DeviceFields
  <2>3. nand[d.alloc] \in Seq(PagesOfLog \cup {Torn})
    BY <1>2, <2>2 DEF Flash
  <2>4. Len(nand[d.alloc]) \in Nat
    BY <2>3, LenProperties
  <2>5. QED
    BY <1>4, <2>2, <2>4 DEF Erased
<1>7. HeldOk(obj, d, nand)
  BY <1>5 DEF DevOk
<1>8. PICK e : e = Allocated(d)
  OBVIOUS
<1>9. DevOk(e, obj, nand, gcBlock)
  BY <1>2, <1>4, <1>5, <1>6, <1>7, <1>8, AllocatedOk
<1>10. QED
  BY <1>1, <1>2, <1>4, <1>8, <1>9, InMemoryAgain

LEMMA DoingFacts ==
  ASSUME GutsInv, NEW name, Doing(name)
  PROVE  /\ mounted /\ gcBlock = None /\ todo # <<>> /\ Head(todo).op = name
         /\ \A b \in Blocks : dev.blk[b].state # "dirty"
         /\ nand \in Flash /\ nseq \in [Blocks -> Nat]
         /\ obj \in [Files -> Objects] /\ todo \in Seq(Ops)
         /\ DevOk(dev, obj, nand, None) /\ DeletedOk(obj) /\ TodoOk(todo, obj, None)
         /\ Rest \in Seq(Ops) /\ TodoOk(Rest, obj, None)
<1>1. /\ mounted /\ gcBlock = None /\ todo # <<>> /\ Head(todo).op = name
      /\ \A b \in Blocks : dev.blk[b].state # "dirty"
  BY DEF Doing, Quiet, InState
<1>2. /\ nand \in Flash /\ nseq \in [Blocks -> Nat]
      /\ obj \in [Files -> Objects] /\ todo \in Seq(Ops)
      /\ DevOk(dev, obj, nand, None) /\ DeletedOk(obj) /\ TodoOk(todo, obj, None)
  BY <1>1, InMemory
<1>3. Rest \in Seq(Ops) /\ TodoOk(Rest, obj, None)
  BY <1>1, <1>2, TailOk DEF Rest
<1>4. QED
  BY <1>1, <1>2, <1>3

(* A chunk less of a file.                                                 *)
Pruned(o, f, k) == [o EXCEPT ![f].tnode[k] = None, ![f].nData = @ - 1]

LEMMA PrunedObject ==
  ASSUME NEW o \in [Files -> Objects], NEW f \in Files, NEW k \in 1 .. FileChunks,
         NEW q, q = Pruned(o, f, k)
  PROVE  /\ q \in [Files -> Objects] /\ \A h \in Files \ {f} : q[h] = o[h]
         /\ q[f].here = o[f].here /\ q[f].deleted = o[f].deleted /\ q[f].dir = o[f].dir
         /\ q[f].hdr = o[f].hdr
         /\ \A j \in 1 .. FileChunks : q[f].tnode[j] = IF j = k THEN None ELSE o[f].tnode[j]
<1>1. PICK r : r = o[f] /\ r \in Objects
  OBVIOUS
<1>2. /\ r.here \in BOOLEAN /\ r.dir \in Dirs /\ r.hdr \in Addr \cup {None}
      /\ r.size \in 0 .. FileChunks /\ r.tnode \in [1 .. FileChunks -> Addr \cup {None}]
      /\ r.nData \in Int /\ r.deleted \in BOOLEAN /\ r.dirty \in BOOLEAN
  BY <1>1, ObjectFields
<1>3. PICK w : w = [r EXCEPT !.tnode[k] = None, !.nData = @ - 1]
  OBVIOUS
<1>4. /\ w.here = r.here /\ w.dir = r.dir /\ w.hdr = r.hdr /\ w.size = r.size
      /\ w.tnode = [r.tnode EXCEPT ![k] = None]
      /\ w.nData = r.nData - 1 /\ w.deleted = r.deleted /\ w.dirty = r.dirty
      /\ w = [here |-> w.here, dir |-> w.dir, hdr |-> w.hdr, size |-> w.size, tnode |-> w.tnode,
              nData |-> w.nData, deleted |-> w.deleted, dirty |-> w.dirty]
  BY <1>1, <1>3 DEF Objects
<1>5. w.tnode \in [1 .. FileChunks -> Addr \cup {None}] /\ w.nData \in Int
  BY <1>2, <1>4
<1>6. w \in Objects
  <2>1. /\ w.here \in BOOLEAN /\ w.dir \in Dirs /\ w.hdr \in Addr \cup {None}
        /\ w.size \in 0 .. FileChunks /\ w.deleted \in BOOLEAN /\ w.dirty \in BOOLEAN
    BY <1>2, <1>4
  <2>2. QED
    BY <1>4, <1>5, <2>1 DEF Objects
<1>7. q = [o EXCEPT ![f] = w]
  BY <1>1, <1>3 DEF Pruned
<1>8. q \in [Files -> Objects] /\ q[f] = w /\ \A h \in Files \ {f} : q[h] = o[h]
  BY <1>6, <1>7
<1>9. \A j \in 1 .. FileChunks : w.tnode[j] = IF j = k THEN None ELSE r.tnode[j]
  BY <1>2, <1>4
<1>10. QED
  BY <1>1, <1>4, <1>8, <1>9

LEMMA PruneResizedChunkStep ==
  ASSUME GutsInv, PruneResizedChunk
  PROVE  GutsInv'
<1>1. Doing("prune")
  BY DEF PruneResizedChunk
<1>2. /\ mounted /\ gcBlock = None /\ todo # <<>> /\ Head(todo).op = "prune"
      /\ nand \in Flash /\ nseq \in [Blocks -> Nat]
      /\ obj \in [Files -> Objects] /\ todo \in Seq(Ops)
      /\ DevOk(dev, obj, nand, None) /\ DeletedOk(obj) /\ TodoOk(todo, obj, None)
      /\ Rest \in Seq(Ops) /\ TodoOk(Rest, obj, None)
  BY <1>1, DoingFacts
<1>3. mounted' /\ nand' = nand /\ nseq' = nseq /\ todo' = Rest /\ gcBlock' = None
  BY <1>2 DEF PruneResizedChunk
<1>4. PICK f, k : f = Head(todo).file /\ k = Head(todo).chunk
  OBVIOUS
<1>5. f \in Files /\ obj[f].here /\ k \in 1 .. FileChunks
  BY <1>2, <1>4, HeadOk
<1>6. PICK c : c = obj[f].tnode[k]
  OBVIOUS
<1>7. PICK e : e = DeleteChunk(dev, c)
  OBVIOUS
<1>8. dev' = e
  BY <1>4, <1>6, <1>7 DEF PruneResizedChunk
<1>9. CASE c = None
  <2>1. obj' = obj
    BY <1>4, <1>6, <1>9 DEF PruneResizedChunk
  <2>2. e = dev
    BY <1>7, <1>9 DEF DeleteChunk
  <2>3. QED
    BY <1>2, <1>3, <1>8, <2>1, <2>2, InMemoryAgain
<1>10. CASE c # None
  <2>1. PICK q : q = Pruned(obj, f, k)
    OBVIOUS
  <2>2. obj' = q
    BY <1>4, <1>6, <1>10, <2>1 DEF PruneResizedChunk, Pruned
  <2>3. /\ q \in [Files -> Objects] /\ \A h \in Files \ {f} : q[h] = obj[h]
        /\ q[f].here = obj[f].here /\ q[f].deleted = obj[f].deleted /\ q[f].dir = obj[f].dir
        /\ q[f].hdr = obj[f].hdr
        /\ \A j \in 1 .. FileChunks : q[f].tnode[j] = IF j = k THEN None ELSE obj[f].tnode[j]
    <3>1. obj \in [Files -> Objects] /\ f \in Files /\ k \in 1 .. FileChunks
      BY <1>2, <1>5
    <3>2. QED
      BY ONLY <2>1, <3>1, PrunedObject
  <2>4. obj[f].tnode \in [1 .. FileChunks -> Addr \cup {None}]
    BY <1>2, <1>5, ObjectFields
  <2>5. ASSUME NEW h \in Files, NEW j \in 0 .. FileChunks
        PROVE  /\ Own(q, h, j) \in {Own(obj, h, j), None}
               /\ Own(q, h, j) # None => q[h].here
    <3>1. CASE h = f
      <4>1. j # 0 => j \in 1 .. FileChunks
        BY Geometry
      <4>2. j # 0 => q[f].tnode[j] \in {obj[f].tnode[j], None}
        BY <1>5, <2>3, <2>4, <4>1
      <4>3. QED
        BY <1>5, <2>3, <3>1, <4>2 DEF Own
    <3>2. CASE h # f
      <4>1. Own(q, h, j) = Own(obj, h, j) /\ q[h].here = obj[h].here
        BY <2>3, <3>2 DEF Own
      <4>2. HeldOk(obj, dev, nand)
        BY <1>2 DEF DevOk
      <4>3. QED
        BY <4>1, <4>2 DEF HeldOk
    <3>3. QED
      BY <3>1, <3>2
  <2>6. Own(obj, f, k) = c /\ Own(q, f, k) = None /\ k \in 0 .. FileChunks
    <3>1. k # 0 /\ k \in 0 .. FileChunks
      BY <1>5, Geometry
    <3>2. q[f].tnode[k] = None
      BY <1>5, <2>3, <2>4
    <3>3. QED
      BY <1>6, <3>1, <3>2 DEF Own
  <2>7. DevOk(dev, q, nand, None)
        /\ \A h \in Files, j \in 0 .. FileChunks :
              Own(obj, h, j) # None /\ Own(q, h, j) = None => Spare(dev, q, Own(obj, h, j))
    BY <1>2, <2>3, <2>5, FewerOk
  <2>8. Spare(dev, q, c)
    BY <1>5, <1>10, <2>6, <2>7
  <2>9. DevOk(e, q, nand, None)
    BY <1>2, <1>7, <2>3, <2>7, <2>8, DeleteOk
  <2>10. DeletedOk(q)
    <3>1. ASSUME NEW h \in Files, q[h].deleted, NEW j \in 1 .. FileChunks PROVE q[h].tnode[j] = None
      <4>1. obj[h].deleted /\ obj[h].tnode[j] = None
        BY <1>2, <2>3, <3>1 DEF DeletedOk
      <4>2. QED
        BY <2>3, <2>4, <4>1
    <3>2. QED
      BY <3>1 DEF DeletedOk
  <2>11. TodoOk(Rest, q, None)
    <3>1. Alike(obj, q, Rest)
      <4>1. ASSUME NEW i \in DOMAIN Rest, On(Rest, i)
            PROVE  LET h == Rest[i].file IN
                   q[h].here = obj[h].here /\ q[h].deleted = obj[h].deleted /\ q[h].dir = obj[h].dir
        <5>1. Rest[i].file \in Files
          BY <1>2, <4>1, StepOk
        <5>2. QED
          BY <2>3, <5>1
      <4>2. QED
        BY <4>1 DEF Alike
    <3>2. QED
      BY <1>2, <3>1, AlikeOk
  <2>12. QED
    BY <1>2, <1>3, <1>8, <2>2, <2>3, <2>9, <2>10, <2>11, InMemoryAgain
<1>11. QED
  BY <1>9, <1>10

LEMMA NoObjectType ==
  /\ NoObject \in Objects /\ ~NoObject.here /\ ~NoObject.deleted /\ NoObject.hdr = None
  /\ NoObject.dir = "root"
  /\ NoObject.tnode \in [1 .. FileChunks -> Addr \cup {None}]
  /\ \A k \in 1 .. FileChunks : NoObject.tnode[k] = None
<1>1. PICK t : t = [k \in 1 .. FileChunks |-> None]
  OBVIOUS
<1>2. t \in [1 .. FileChunks -> Addr \cup {None}]
  BY <1>1
<1>3. NoObject = [here |-> FALSE, dir |-> "root", hdr |-> None, size |-> 0, tnode |-> t,
                  nData |-> 0, deleted |-> FALSE, dirty |-> FALSE]
  BY <1>1 DEF NoObject
<1>4. 0 \in 0 .. FileChunks /\ "root" \in Dirs /\ None \in Addr \cup {None} /\ 0 \in Int
  BY Geometry DEF Dirs
<1>5. QED
  BY <1>1, <1>2, <1>3, <1>4 DEF Objects

LEMMA RemoveObjectStep ==
  ASSUME GutsInv, RemoveObject
  PROVE  GutsInv'
<1>1. Doing("remove")
  BY DEF RemoveObject
<1>2. /\ mounted /\ gcBlock = None /\ todo # <<>> /\ Head(todo).op = "remove"
      /\ nand \in Flash /\ nseq \in [Blocks -> Nat]
      /\ obj \in [Files -> Objects] /\ todo \in Seq(Ops)
      /\ DevOk(dev, obj, nand, None) /\ DeletedOk(obj) /\ TodoOk(todo, obj, None)
      /\ Rest \in Seq(Ops) /\ TodoOk(Rest, obj, None)
  BY <1>1, DoingFacts
<1>3. mounted' /\ nand' = nand /\ nseq' = nseq /\ todo' = Rest /\ gcBlock' = None
  BY <1>2 DEF RemoveObject
<1>4. PICK f : f = Head(todo).file
  OBVIOUS
<1>5. f \in Files /\ obj[f].here /\ \A i \in DOMAIN Rest : On(Rest, i) => Rest[i].file # f
  BY <1>2, <1>4, HeadOk DEF Rest
<1>6. PICK c : c = obj[f].hdr
  OBVIOUS
<1>7. PICK e : e = DeleteChunk(dev, c)
  OBVIOUS
<1>8. PICK q : q = [obj EXCEPT ![f] = NoObject]
  OBVIOUS
<1>9. dev' = e /\ obj' = q
  BY <1>4, <1>6, <1>7, <1>8 DEF RemoveObject
<1>10. q \in [Files -> Objects] /\ q[f] = NoObject /\ \A h \in Files \ {f} : q[h] = obj[h]
  BY <1>2, <1>5, <1>8, NoObjectType
<1>11. \A j \in 0 .. FileChunks : Own(q, f, j) = None
  <2>1. \A j \in 0 .. FileChunks : j # 0 => j \in 1 .. FileChunks
    BY Geometry
  <2>2. QED
    BY <1>10, <2>1, NoObjectType DEF Own
<1>12. ASSUME NEW h \in Files, NEW j \in 0 .. FileChunks
       PROVE  /\ Own(q, h, j) \in {Own(obj, h, j), None}
              /\ Own(q, h, j) # None => q[h].here
  <2>1. CASE h = f
    BY <1>11, <2>1
  <2>2. CASE h # f
    <3>1. Own(q, h, j) = Own(obj, h, j) /\ q[h].here = obj[h].here
      BY <1>10, <2>2 DEF Own
    <3>2. HeldOk(obj, dev, nand)
      BY <1>2 DEF DevOk
    <3>3. QED
      BY <3>1, <3>2 DEF HeldOk
  <2>3. QED
    BY <2>1, <2>2
<1>13. DevOk(dev, q, nand, None)
       /\ \A h \in Files, j \in 0 .. FileChunks :
             Own(obj, h, j) # None /\ Own(q, h, j) = None => Spare(dev, q, Own(obj, h, j))
  BY <1>2, <1>10, <1>12, FewerOk
<1>14. DevOk(e, q, nand, None)
  <2>1. CASE c = None
    BY <1>7, <1>13, <2>1 DEF DeleteChunk
  <2>2. CASE c # None
    <3>1. 0 \in 0 .. FileChunks /\ Own(obj, f, 0) = c
      BY <1>6, Geometry DEF Own
    <3>2. Spare(dev, q, c)
      BY <1>5, <1>11, <1>13, <2>2, <3>1
    <3>3. QED
      BY <1>2, <1>7, <1>10, <1>13, <3>2, DeleteOk
  <2>3. QED
    BY <2>1, <2>2
<1>15. DeletedOk(q)
  <2>1. ASSUME NEW h \in Files, q[h].deleted, NEW k \in 1 .. FileChunks
        PROVE  q[h].tnode[k] = None
    <3>1. CASE h = f
      BY <1>10, <2>1, <3>1, NoObjectType
    <3>2. CASE h # f
      BY <1>2, <1>10, <2>1, <3>2 DEF DeletedOk
    <3>3. QED
      BY <3>1, <3>2
  <2>2. QED
    BY ONLY <2>1 DEF DeletedOk
<1>16. TodoOk(Rest, q, None)
  <2>1. Alike(obj, q, Rest)
    <3>1. ASSUME NEW i \in DOMAIN Rest, On(Rest, i)
          PROVE  LET h == Rest[i].file IN
                 q[h].here = obj[h].here /\ q[h].deleted = obj[h].deleted /\ q[h].dir = obj[h].dir
      <4>1. Rest[i].file \in Files /\ Rest[i].file # f
        BY <1>2, <1>5, <3>1, StepOk
      <4>2. QED
        BY <1>10, <4>1
    <3>2. QED
      BY <3>1 DEF Alike
  <2>2. QED
    BY <1>2, <2>1, AlikeOk
<1>17. QED
  BY <1>2, <1>3, <1>9, <1>10, <1>14, <1>15, <1>16, InMemoryAgain

(* A page more on the flash, for a chunk that a file is to have.           *)
Programmed(n, b, page) == [n EXCEPT ![b] = Append(@, page)]

LEMMA WrittenOk ==
  ASSUME NEW d, NEW o \in [Files -> Objects], NEW q \in [Files -> Objects], NEW n \in Flash, NEW g,
         DevOk(d, o, n, g), d.alloc # None, d.page > Len(n[d.alloc]),
         NEW page \in PagesOfLog, NEW f \in Files, NEW k \in 0 .. FileChunks,
         page.file = f, page.chunk = k, Moved(o, q, f, k, NextChunk(d))
  PROVE  LET m == Programmed(n, d.alloc, page) IN
         /\ d.alloc \in Blocks /\ NextChunk(d) \in Addr
         /\ m \in Flash
         /\ DevOk(Allocated(d), q, m, g)
         /\ Allocated(d).blk[d.alloc].state \in {"full", "allocating"}
         /\ Own(o, f, k) # None => Spare(Allocated(d), q, Own(o, f, k))
         /\ \A a \in Addr : /\ a # NextChunk(d) /\ a[2] \in Allocated(d).blk[a[1]].bits
                            /\ Allocated(d).blk[a[1]].state = "collecting"
                            /\ m[a[1]][a[2]].file = f /\ m[a[1]][a[2]].chunk = k
                            => Spare(Allocated(d), q, a)
<1>1. d \in Devices /\ AllocOk(d, n) /\ HeldOk(o, d, n)
  BY DEF DevOk
<1>2. PICK b \in Blocks : b = d.alloc
  BY <1>1, DeviceFields
<1>3. PICK p \in Nat : p = d.page /\ p \in Pages
  BY <1>1, DeviceFields DEF AllocOk
<1>4. PICK m : m = Programmed(n, b, page)
  OBVIOUS
<1>5. n[b] \in Seq(PagesOfLog \cup {Torn}) /\ Len(n[b]) \in Nat
  BY LenProperties DEF Flash
<1>6. p = Len(n[b]) + 1
  BY <1>1, <1>2, <1>3, <1>5 DEF AllocOk
<1>7. m \in Flash /\ HeldOk(o, d, m)
  BY <1>1, <1>4, ProgramHeld DEF Programmed
<1>8. m[b] = Append(n[b], page)
  BY <1>4, <1>5 DEF Programmed, Flash
<1>9. p = Len(m[b]) /\ m[b][p] = page
  BY <1>5, <1>6, <1>8, AppendProperties
<1>10. PICK e, c : e = Allocated(d) /\ c = NextChunk(d)
  OBVIOUS
<1>11. /\ DevOk(e, o, m, g) /\ Spare(e, o, c)
       /\ e.blk[b].state \in {"full", "allocating"} /\ c \in Addr
  <2>1. d.page <= Len(m[d.alloc]) /\ d.alloc # None
    BY <1>2, <1>3, <1>9, Distinct
  <2>2. /\ DevOk(Allocated(d), o, m, g) /\ Spare(Allocated(d), o, NextChunk(d))
        /\ Allocated(d).blk[d.alloc].state \in {"full", "allocating"} /\ NextChunk(d) \in Addr
    BY <1>7, <2>1, AllocatedOk
  <2>3. QED
    BY <1>2, <1>10, <2>2
<1>12. c[1] = b /\ c[2] = p
  BY <1>2, <1>3, <1>10 DEF NextChunk
<1>13. PageOf(m, c, f, k)
  BY <1>3, <1>9, <1>12, Distinct DEF PageOf
<1>14. /\ DevOk(e, q, m, g)
       /\ Own(o, f, k) # None => Spare(e, q, Own(o, f, k))
       /\ \A a \in Addr : /\ a # c /\ a[2] \in e.blk[a[1]].bits
                          /\ e.blk[a[1]].state = "collecting"
                          /\ m[a[1]][a[2]].file = f /\ m[a[1]][a[2]].chunk = k
                          => Spare(e, q, a)
  <2>1. Moved(o, q, f, k, c)
    BY <1>10
  <2>2. /\ o \in [Files -> Objects] /\ q \in [Files -> Objects] /\ m \in Flash
        /\ f \in Files /\ k \in 0 .. FileChunks /\ c \in Addr
        /\ DevOk(e, o, m, g) /\ Spare(e, o, c) /\ PageOf(m, c, f, k)
    BY <1>7, <1>11, <1>13
  <2>3. QED
    BY ONLY <2>1, <2>2, MoveOk
<1>15. Programmed(n, d.alloc, page) = m
  BY <1>2, <1>4
<1>16. /\ d.alloc \in Blocks /\ NextChunk(d) \in Addr
       /\ Allocated(d).blk[d.alloc].state \in {"full", "allocating"}
  BY <1>2, <1>10, <1>11
<1>17. /\ DevOk(Allocated(d), q, m, g)
       /\ Own(o, f, k) # None => Spare(Allocated(d), q, Own(o, f, k))
  BY ONLY <1>10, <1>14, Zenon
<1>18. \A a \in Addr : /\ a # NextChunk(d) /\ a[2] \in Allocated(d).blk[a[1]].bits
                        /\ Allocated(d).blk[a[1]].state = "collecting"
                        /\ m[a[1]][a[2]].file = f /\ m[a[1]][a[2]].chunk = k
                        => Spare(Allocated(d), q, a)
  <2>1. \A a \in Addr : /\ a # c /\ a[2] \in e.blk[a[1]].bits
                         /\ e.blk[a[1]].state = "collecting"
                         /\ m[a[1]][a[2]].file = f /\ m[a[1]][a[2]].chunk = k
                         => Spare(e, q, a)
    BY <1>14
  <2>2. QED
    BY ONLY <1>10, <2>1
<1>19. QED
  BY ONLY <1>7, <1>15, <1>16, <1>17, <1>18

(* The objects change in nothing that the steps depend on.                 *)
SameFiles(o, q) ==
  \A h \in Files : q[h].here = o[h].here /\ q[h].deleted = o[h].deleted /\ q[h].dir = o[h].dir

LEMMA SameFilesOk ==
  ASSUME NEW t \in Seq(Ops), NEW o, NEW q, NEW g, TodoOk(t, o, g), SameFiles(o, q)
  PROVE  TodoOk(t, q, g)
<1>1. Alike(o, q, t)
  <2>1. ASSUME NEW i \in DOMAIN t, On(t, i)
        PROVE  LET h == t[i].file IN
               q[h].here = o[h].here /\ q[h].deleted = o[h].deleted /\ q[h].dir = o[h].dir
    <3>1. t[i].file \in Files
      BY <2>1, StepOk
    <3>2. QED
      BY <3>1 DEF SameFiles
  <2>2. QED
    BY <2>1 DEF Alike
<1>2. QED
  BY <1>1, AlikeOk

LEMMA PairMax ==
  ASSUME NEW i \in 0 .. FileChunks, NEW j \in 0 .. FileChunks
  PROVE  Max({i, j}) \in 0 .. FileChunks
<1>1. IsFiniteSet({i, j})
  <2>1. IsFiniteSet({i}) /\ {i, j} = {i} \cup {j}
    BY FS_Singleton
  <2>2. QED
    BY <2>1, FS_AddElement
<1>2. FileChunks \in Int
  BY Geometry
<1>3. {i, j} \in SUBSET Int
  BY <1>2
<1>4. Max({i, j}) \in {i, j}
  BY <1>1, <1>3, MaxLemma
<1>5. QED
  BY <1>4

DirtyOf(o, f) == [o EXCEPT ![f].dirty = TRUE]

LEMMA DirtyObject ==
  ASSUME NEW o \in [Files -> Objects], NEW f \in Files, NEW q, q = DirtyOf(o, f)
  PROVE  /\ q \in [Files -> Objects] /\ SameFiles(o, q)
         /\ \A h \in Files : q[h].tnode = o[h].tnode /\ q[h].hdr = o[h].hdr
<1>1. PICK r : r = o[f] /\ r \in Objects
  OBVIOUS
<1>2. PICK w : w = [r EXCEPT !.dirty = TRUE]
  OBVIOUS
<1>3. /\ w \in Objects /\ w.here = r.here /\ w.dir = r.dir /\ w.hdr = r.hdr /\ w.tnode = r.tnode
      /\ w.deleted = r.deleted
  BY <1>1, <1>2 DEF Objects
<1>4. q = [o EXCEPT ![f] = w]
  BY <1>1, <1>2 DEF DirtyOf
<1>5. q \in [Files -> Objects] /\ q[f] = w /\ \A h \in Files \ {f} : q[h] = o[h]
  BY <1>3, <1>4
<1>6. QED
  BY <1>1, <1>3, <1>5 DEF SameFiles

PutOf(o, f, k, c) ==
  [o EXCEPT ![f] = [o[f] EXCEPT !.tnode[k] = c,
                                !.nData = IF o[f].tnode[k] = None THEN @ + 1 ELSE @,
                                !.size = Max({@, k}), !.dirty = TRUE]]

LEMMA PutObject ==
  ASSUME NEW o \in [Files -> Objects], NEW f \in Files, NEW k \in 1 .. FileChunks, NEW c \in Addr,
         NEW q, q = PutOf(o, f, k, c)
  PROVE  /\ q \in [Files -> Objects] /\ SameFiles(o, q)
         /\ \A h \in Files, j \in 0 .. FileChunks :
               Own(q, h, j) = IF h = f /\ j = k THEN c ELSE Own(o, h, j)
<1>1. PICK r : r = o[f] /\ r \in Objects
  OBVIOUS
<1>2. /\ r.here \in BOOLEAN /\ r.dir \in Dirs /\ r.hdr \in Addr \cup {None}
      /\ r.size \in 0 .. FileChunks /\ r.tnode \in [1 .. FileChunks -> Addr \cup {None}]
      /\ r.nData \in Int /\ r.deleted \in BOOLEAN /\ r.dirty \in BOOLEAN
  BY <1>1, ObjectFields
<1>3. PICK w : w = [r EXCEPT !.tnode[k] = c, !.nData = IF r.tnode[k] = None THEN @ + 1 ELSE @,
                             !.size = Max({@, k}), !.dirty = TRUE]
  OBVIOUS
<1>4. /\ w.here = r.here /\ w.dir = r.dir /\ w.hdr = r.hdr
      /\ w.size = Max({r.size, k})
      /\ w.tnode = [r.tnode EXCEPT ![k] = c]
      /\ w.nData \in {r.nData, r.nData + 1} /\ w.deleted = r.deleted /\ w.dirty = TRUE
      /\ w = [here |-> w.here, dir |-> w.dir, hdr |-> w.hdr, size |-> w.size, tnode |-> w.tnode,
              nData |-> w.nData, deleted |-> w.deleted, dirty |-> w.dirty]
  BY <1>1, <1>3 DEF Objects
<1>5. w.tnode \in [1 .. FileChunks -> Addr \cup {None}] /\ w.nData \in Int
  BY <1>2, <1>4
<1>6. w.size \in 0 .. FileChunks
  <2>1. k \in 0 .. FileChunks
    BY Geometry
  <2>2. QED
    BY <1>2, <1>4, <2>1, PairMax
<1>7. w \in Objects
  <2>1. /\ w.here \in BOOLEAN /\ w.dir \in Dirs /\ w.hdr \in Addr \cup {None}
        /\ w.deleted \in BOOLEAN /\ w.dirty \in BOOLEAN
    BY <1>2, <1>4
  <2>2. QED
    BY <1>4, <1>5, <1>6, <2>1 DEF Objects
<1>8. q = [o EXCEPT ![f] = w]
  BY <1>1, <1>3 DEF PutOf
<1>9. q \in [Files -> Objects] /\ q[f] = w /\ \A h \in Files \ {f} : q[h] = o[h]
  BY <1>7, <1>8
<1>10. k # 0 /\ \A j \in 0 .. FileChunks : j # 0 => j \in 1 .. FileChunks
  BY Geometry
<1>11. \A j \in 1 .. FileChunks : w.tnode[j] = IF j = k THEN c ELSE r.tnode[j]
  BY <1>2, <1>4
<1>12. ASSUME NEW h \in Files, NEW j \in 0 .. FileChunks
       PROVE  Own(q, h, j) = IF h = f /\ j = k THEN c ELSE Own(o, h, j)
  <2>1. CASE h = f
    BY <1>1, <1>4, <1>9, <1>10, <1>11, <2>1 DEF Own
  <2>2. CASE h # f
    BY <1>9, <2>2 DEF Own
  <2>3. QED
    BY <2>1, <2>2
<1>13. SameFiles(o, q)
  BY <1>1, <1>4, <1>9 DEF SameFiles
<1>14. QED
  BY <1>9, <1>12, <1>13

LEMMA DataType ==
  ASSUME NEW f \in Files, NEW k \in 0 .. FileChunks, NEW v \in Values \cup {Hole}
  PROVE  Data(f, k, v) \in PagesOfLog /\ Data(f, k, v).file = f /\ Data(f, k, v).chunk = k
<1>1. "root" \in Dirs /\ 0 \in 0 .. FileChunks
  BY Geometry DEF Dirs
<1>2. QED
  BY <1>1 DEF Data, PagesOfLog

LEMMA HeaderType ==
  ASSUME NEW f \in Files, NEW dir \in Dirs, NEW size \in 0 .. FileChunks, NEW x \in BOOLEAN
  PROVE  /\ Header(f, dir, size, x) \in PagesOfLog
         /\ Header(f, dir, size, x).file = f /\ Header(f, dir, size, x).chunk = 0
<1>1. 0 \in 0 .. FileChunks
  BY Geometry
<1>2. QED
  BY <1>1 DEF Header, PagesOfLog

LEMMA WriteChunkDataStep ==
  ASSUME GutsInv, WriteChunkData
  PROVE  GutsInv'
<1>1. Doing("put")
  BY DEF WriteChunkData
<1>2. /\ mounted /\ gcBlock = None /\ todo # <<>> /\ Head(todo).op = "put"
      /\ nand \in Flash /\ nseq \in [Blocks -> Nat]
      /\ obj \in [Files -> Objects] /\ todo \in Seq(Ops)
      /\ DevOk(dev, obj, nand, None) /\ DeletedOk(obj) /\ TodoOk(todo, obj, None)
      /\ Rest \in Seq(Ops) /\ TodoOk(Rest, obj, None)
  BY <1>1, DoingFacts
<1>3. mounted' /\ todo' = Rest /\ gcBlock' = None
  BY <1>2 DEF WriteChunkData
<1>4. PICK f, k, v : f = Head(todo).file /\ k = Head(todo).chunk /\ v = Head(todo).val
  OBVIOUS
<1>5. f \in Files /\ obj[f].here /\ ~obj[f].deleted /\ k \in 1 .. FileChunks /\ v \in Values
  BY <1>2, <1>4, HeadOk
<1>6. PICK old : old = obj[f].tnode[k]
  OBVIOUS
<1>7. PICK d : d = Ready(dev)
  OBVIOUS
<1>8. DevOk(d, obj, nand, None) /\ d \in Devices
  BY <1>2, <1>7, ReadyOk DEF DevOk
<1>9. PICK t : t = Rest
  OBVIOUS
<1>10. CASE ~Fits(d, FALSE)
  <2>1. PICK q : q = DirtyOf(obj, f)
    OBVIOUS
  <2>2. dev' = d /\ obj' = q /\ nand' = nand /\ nseq' = nseq
    BY <1>4, <1>7, <1>10, <2>1 DEF WriteChunkData, DirtyOf
  <2>3. /\ q \in [Files -> Objects] /\ SameFiles(obj, q)
        /\ \A h \in Files : q[h].tnode = obj[h].tnode /\ q[h].hdr = obj[h].hdr
    BY <1>2, <1>5, <2>1, DirtyObject
  <2>4. \A h \in Files, j \in 0 .. FileChunks : Own(q, h, j) = Own(obj, h, j)
    BY <2>3 DEF Own
  <2>5. \A h \in Files, j \in 0 .. FileChunks : Own(q, h, j) # None => q[h].here
    <3>1. HeldOk(obj, d, nand)
      BY <1>8 DEF DevOk
    <3>2. QED
      BY <2>3, <2>4, <3>1 DEF HeldOk, SameFiles
  <2>6. DevOk(d, q, nand, None)
    BY <1>2, <1>8, <2>3, <2>4, <2>5, FewerOk
  <2>7. DeletedOk(q)
    BY <1>2, <2>3 DEF DeletedOk, SameFiles
  <2>8. TodoOk(t, q, None)
    BY <1>2, <1>9, <2>3, SameFilesOk
  <2>9. QED
    BY <1>2, <1>3, <1>9, <2>2, <2>3, <2>6, <2>7, <2>8, InMemoryAgain
<1>11. CASE Fits(d, FALSE)
  <2>1. d.alloc # None
    BY <1>11 DEF Fits
  <2>2. PICK c : c = NextChunk(d)
    OBVIOUS
  <2>3. PICK page : page = Data(f, k, v)
    OBVIOUS
  <2>4. PICK m : m = Programmed(nand, d.alloc, page)
    OBVIOUS
  <2>5. PICK s : s = [nseq EXCEPT ![d.alloc] = d.seq]
    OBVIOUS
  <2>6. PICK e : e = DeleteChunk(Allocated(d), old)
    OBVIOUS
  <2>7. PICK q : q = PutOf(obj, f, k, c)
    OBVIOUS
  <2>8. /\ d.page > Len(nand[d.alloc]) /\ nand' = m /\ nseq' = s /\ dev' = e
    BY <1>4, <1>6, <1>7, <1>11, <2>3, <2>4, <2>5, <2>6
    DEF WriteChunkData, Erased, Program, Programmed
  <2>9. obj' = q
    BY <1>4, <1>6, <1>7, <1>11, <2>2, <2>7 DEF WriteChunkData, PutOf
  <2>10. page \in PagesOfLog /\ page.file = f /\ page.chunk = k /\ k \in 0 .. FileChunks
    BY <1>5, <2>3, DataType, Geometry
  <2>11. d.alloc \in Blocks /\ d.seq \in Nat
    BY <1>8, <2>1, DeviceFields
  <2>12. c \in Addr
    <3>1. AllocOk(d, nand)
      BY <1>8 DEF DevOk
    <3>2. QED
      BY <2>1, <2>2, <2>11, <3>1 DEF AllocOk, NextChunk, Addr
  <2>13. /\ q \in [Files -> Objects] /\ SameFiles(obj, q)
         /\ \A h \in Files, j \in 0 .. FileChunks :
               Own(q, h, j) = IF h = f /\ j = k THEN c ELSE Own(obj, h, j)
    BY <1>2, <1>5, <2>7, <2>12, PutObject
  <2>14. Moved(obj, q, f, k, c)
    BY <1>5, <2>13 DEF Moved, SameFiles
  <2>15. /\ m \in Flash /\ DevOk(Allocated(d), q, m, None)
         /\ Own(obj, f, k) # None => Spare(Allocated(d), q, Own(obj, f, k))
    BY <1>2, <1>5, <1>8, <2>1, <2>2, <2>4, <2>8, <2>10, <2>13, <2>14, WrittenOk
  <2>16. Own(obj, f, k) = old
    BY <1>5, <1>6, Geometry DEF Own
  <2>17. DevOk(e, q, m, None)
    <3>1. CASE old = None
      BY <2>6, <2>15, <3>1 DEF DeleteChunk
    <3>2. CASE old # None
      BY <2>6, <2>13, <2>15, <2>16, <3>2, DeleteOk
    <3>3. QED
      BY <3>1, <3>2
  <2>18. s \in [Blocks -> Nat]
    BY <1>2, <2>5, <2>11
  <2>19. DeletedOk(q)
    <3>1. ASSUME NEW h \in Files, q[h].deleted, NEW j \in 1 .. FileChunks PROVE q[h].tnode[j] = None
      <4>1. obj[h].deleted /\ h # f
        BY <1>5, <2>13, <3>1 DEF SameFiles
      <4>2. j # 0 /\ j \in 0 .. FileChunks
        BY Geometry
      <4>3. Own(q, h, j) = Own(obj, h, j)
        BY <2>13, <4>1, <4>2
      <4>4. QED
        BY <1>2, <4>1, <4>2, <4>3 DEF Own, DeletedOk
    <3>2. QED
      BY <3>1 DEF DeletedOk
  <2>20. TodoOk(t, q, None)
    BY <1>2, <1>9, <2>13, SameFilesOk
  <2>21. QED
    BY <1>2, <1>3, <1>9, <2>8, <2>9, <2>13, <2>15, <2>17, <2>18, <2>19, <2>20, InMemoryAgain
<1>12. QED
  BY <1>10, <1>11

HeadedOf(o, f, c) == [o EXCEPT ![f].hdr = c, ![f].dirty = FALSE]

LEMMA HeadedObject ==
  ASSUME NEW o \in [Files -> Objects], NEW f \in Files, NEW c \in Addr,
         NEW q, q = HeadedOf(o, f, c)
  PROVE  /\ q \in [Files -> Objects] /\ SameFiles(o, q)
         /\ \A h \in Files : q[h].tnode = o[h].tnode
         /\ \A h \in Files, j \in 0 .. FileChunks :
               Own(q, h, j) = IF h = f /\ j = 0 THEN c ELSE Own(o, h, j)
<1>1. PICK r : r = o[f] /\ r \in Objects
  OBVIOUS
<1>2. PICK w : w = [r EXCEPT !.hdr = c, !.dirty = FALSE]
  OBVIOUS
<1>3. /\ w \in Objects /\ w.here = r.here /\ w.dir = r.dir /\ w.hdr = c /\ w.tnode = r.tnode
      /\ w.deleted = r.deleted
  BY <1>1, <1>2 DEF Objects
<1>4. q = [o EXCEPT ![f] = w]
  BY <1>1, <1>2 DEF HeadedOf
<1>5. q \in [Files -> Objects] /\ q[f] = w /\ \A h \in Files \ {f} : q[h] = o[h]
  BY <1>3, <1>4
<1>6. SameFiles(o, q) /\ \A h \in Files : q[h].tnode = o[h].tnode
  BY <1>1, <1>3, <1>5 DEF SameFiles
<1>7. ASSUME NEW h \in Files, NEW j \in 0 .. FileChunks
      PROVE  Own(q, h, j) = IF h = f /\ j = 0 THEN c ELSE Own(o, h, j)
  BY <1>1, <1>3, <1>5 DEF Own
<1>8. QED
  BY <1>5, <1>6, <1>7

LEMMA WriteHeaderStep ==
  ASSUME GutsInv, WriteHeader
  PROVE  GutsInv'
<1>1. Doing("header")
  BY DEF WriteHeader
<1>2. /\ mounted /\ gcBlock = None /\ todo # <<>> /\ Head(todo).op = "header"
      /\ nand \in Flash /\ nseq \in [Blocks -> Nat]
      /\ obj \in [Files -> Objects] /\ todo \in Seq(Ops)
      /\ DevOk(dev, obj, nand, None) /\ DeletedOk(obj) /\ TodoOk(todo, obj, None)
      /\ Rest \in Seq(Ops) /\ TodoOk(Rest, obj, None)
  BY <1>1, DoingFacts
<1>3. mounted' /\ gcBlock' = None
  BY <1>2 DEF WriteHeader
<1>4. PICK f, x : f = Head(todo).file /\ x = Head(todo).shrink
  OBVIOUS
<1>5. /\ f \in Files /\ obj[f].here /\ x \in BOOLEAN
      /\ obj[f].deleted => obj[f].dir = "deleted"
      /\ \A i \in DOMAIN Rest :
            On(Rest, i) /\ Rest[i].file = f => obj[f].dir = "deleted"
  <2>1. Head(todo) \in Ops
    BY <1>2
  <2>2. x \in BOOLEAN
    BY <1>4, <2>1 DEF Ops
  <2>3. QED
    BY <1>2, <1>4, <2>2, HeadOk DEF Rest
<1>6. PICK me : me = obj[f] /\ me \in Objects
  BY <1>2, <1>5
<1>7. PICK d : d = Ready(dev)
  OBVIOUS
<1>8. DevOk(d, obj, nand, None) /\ d \in Devices
  BY <1>2, <1>7, ReadyOk DEF DevOk
<1>9. PICK t : t = Rest
  OBVIOUS
<1>10. CASE ~Fits(d, me.hdr # None)
  <2>1. dev' = d /\ obj' = obj /\ nand' = nand /\ nseq' = nseq
    BY <1>4, <1>6, <1>7, <1>10 DEF WriteHeader
  <2>2. CASE me.hdr = None /\ me.dir = "root"
    <3>1. PICK x1 : x1 = Op("destroy", f)
      OBVIOUS
    <3>2. x1 \in Ops /\ x1.op = "destroy" /\ x1.file = f
      BY <1>5, <3>1, OpType DEF Steps
    <3>3. PICK y : y = <<x1>>
      OBVIOUS
    <3>4. todo' = y \o t
      BY <1>4, <1>6, <1>7, <1>9, <1>10, <2>2, <3>1, <3>3 DEF WriteHeader
    <3>5. y \in Seq(Ops) /\ TodoOk(y, obj, None)
      BY <1>5, <1>6, <2>2, <3>2, <3>3, OneOk
    <3>6. \A i \in DOMAIN y, j \in DOMAIN t : On(y, i) /\ On(t, j) => y[i].file # t[j].file
      <4>1. \A i \in DOMAIN y : y[i] = x1
        BY <3>3
      <4>2. QED
        BY <1>5, <1>6, <1>9, <2>2, <3>2, <4>1
    <3>7. NoneDeleted(t, obj)
      <4>1. Head(todo).op = "header" /\ obj[Head(todo).file].dir # "deleted"
        BY <1>2, <1>4, <1>6, <2>2
      <4>2. \A i \in DOMAIN Tail(todo) : On(Tail(todo), i) => ~obj[Tail(todo)[i].file].deleted
        BY <1>2, <4>1, TailOk
      <4>3. QED
        BY <1>9, <4>2 DEF NoneDeleted, Rest
    <3>8. PICK z : z = y \o t
      OBVIOUS
    <3>9. z \in Seq(Ops) /\ TodoOk(z, obj, None)
      BY <1>2, <1>9, <3>5, <3>6, <3>7, <3>8, ConcatOk
    <3>10. QED
      BY <1>2, <1>3, <1>8, <2>1, <3>4, <3>8, <3>9, InMemoryAgain
  <2>3. CASE ~(me.hdr = None /\ me.dir = "root")
    <3>1. todo' = t
      BY <1>4, <1>6, <1>7, <1>9, <1>10, <2>3 DEF WriteHeader
    <3>2. QED
      BY <1>2, <1>3, <1>8, <1>9, <2>1, <3>1, InMemoryAgain
  <2>4. QED
    BY <2>2, <2>3
<1>11. CASE Fits(d, me.hdr # None)
  <2>1. d.alloc # None
    BY <1>11 DEF Fits
  <2>2. PICK c : c = NextChunk(d)
    OBVIOUS
  <2>3. PICK page : page = Header(f, me.dir, IF me.dir = "root" THEN me.size ELSE 0, x)
    OBVIOUS
  <2>4. PICK m : m = Programmed(nand, d.alloc, page)
    OBVIOUS
  <2>5. PICK s : s = [nseq EXCEPT ![d.alloc] = d.seq]
    OBVIOUS
  <2>6. PICK e1 : e1 = DeleteChunk(Allocated(d), me.hdr)
    OBVIOUS
  <2>7. PICK e : e = IF x THEN [e1 EXCEPT !.blk[d.alloc].shrink = TRUE] ELSE e1
    OBVIOUS
  <2>8. PICK q : q = HeadedOf(obj, f, c)
    OBVIOUS
  <2>9. d.page > Len(nand[d.alloc]) /\ nand' = m /\ nseq' = s
    BY <1>4, <1>6, <1>7, <1>11, <2>3, <2>4, <2>5 DEF WriteHeader, Erased, Program, Programmed
  <2>10. obj' = q /\ todo' = t
    BY <1>4, <1>6, <1>7, <1>9, <1>11, <2>2, <2>8 DEF WriteHeader, HeadedOf
  <2>11. dev' = e
    BY <1>4, <1>6, <1>7, <1>11, <2>6, <2>7 DEF WriteHeader
  <2>12. /\ me.dir \in Dirs /\ me.size \in 0 .. FileChunks /\ me.hdr \in Addr \cup {None}
         /\ 0 \in 0 .. FileChunks
    BY <1>6, ObjectFields, Geometry
  <2>13. page \in PagesOfLog /\ page.file = f /\ page.chunk = 0
    <3>1. PICK size \in 0 .. FileChunks : size = IF me.dir = "root" THEN me.size ELSE 0
      BY <2>12
    <3>2. QED
      BY <1>5, <2>3, <2>12, <3>1, HeaderType
  <2>14. d.alloc \in Blocks /\ d.seq \in Nat
    BY <1>8, <2>1, DeviceFields
  <2>15. c \in Addr
    <3>1. AllocOk(d, nand)
      BY <1>8 DEF DevOk
    <3>2. QED
      BY <2>1, <2>2, <2>14, <3>1 DEF AllocOk, NextChunk, Addr
  <2>16. /\ q \in [Files -> Objects] /\ SameFiles(obj, q)
         /\ \A h \in Files : q[h].tnode = obj[h].tnode
         /\ \A h \in Files, j \in 0 .. FileChunks :
               Own(q, h, j) = IF h = f /\ j = 0 THEN c ELSE Own(obj, h, j)
    BY <1>2, <1>5, <2>8, <2>15, HeadedObject
  <2>17. Moved(obj, q, f, 0, c)
    BY <1>5, <2>16 DEF Moved, SameFiles
  <2>18. /\ m \in Flash /\ DevOk(Allocated(d), q, m, None)
         /\ Allocated(d).blk[d.alloc].state \in {"full", "allocating"}
         /\ Own(obj, f, 0) # None => Spare(Allocated(d), q, Own(obj, f, 0))
    BY <1>2, <1>5, <1>8, <2>1, <2>2, <2>4, <2>9, <2>12, <2>13, <2>16, <2>17, WrittenOk
  <2>19. Own(obj, f, 0) = me.hdr
    BY <1>6 DEF Own
  <2>20. DevOk(e1, q, m, None) /\ e1.blk[d.alloc].state # "collecting"
    <3>1. CASE me.hdr = None
      BY <2>6, <2>18, <3>1 DEF DeleteChunk
    <3>2. CASE me.hdr # None
      <4>1. /\ DevOk(e1, q, m, None)
            /\ \A y \in Blocks : e1.blk[y].state \in {Allocated(d).blk[y].state, "dirty"}
        BY <2>6, <2>16, <2>18, <2>19, <3>2, DeleteOk
      <4>2. QED
        BY <2>14, <2>18, <4>1
    <3>3. QED
      BY <3>1, <3>2
  <2>21. DevOk(e, q, m, None)
    <3>1. DevOk([e1 EXCEPT !.blk[d.alloc].shrink = TRUE], q, m, None)
      BY <2>14, <2>16, <2>18, <2>20, MarkedOk
    <3>2. QED
      BY <2>7, <2>20, <3>1
  <2>22. s \in [Blocks -> Nat]
    BY <1>2, <2>5, <2>14
  <2>23. DeletedOk(q)
    <3>1. \A h \in Files : q[h].deleted = obj[h].deleted /\ q[h].tnode = obj[h].tnode
      BY <2>16 DEF SameFiles
    <3>2. DeletedOk(obj)
      BY <1>2
    <3>3. QED
      BY ONLY <3>1, <3>2 DEF DeletedOk
  <2>24. TodoOk(t, q, None)
    BY <1>2, <1>9, <2>16, SameFilesOk
  <2>25. QED
    BY <1>2, <1>3, <1>9, <2>9, <2>10, <2>11, <2>16, <2>18, <2>21, <2>22, <2>23, <2>24,
       InMemoryAgain
<1>12. QED
  BY <1>10, <1>11

(* Steps that work on files of the set F only.                             *)
Only(t, F) == \A i \in DOMAIN t : On(t, i) => t[i].file \in F

LEMMA ConcatOnly ==
  ASSUME NEW t \in Seq(Ops), NEW s \in Seq(Ops), NEW F, Only(t, F), Only(s, F)
  PROVE  Only(t \o s, F)
<1>1. PICK z : z = t \o s
  OBVIOUS
<1>2. /\ z \in Seq(Ops) /\ Len(z) = Len(t) + Len(s) /\ DOMAIN z = 1 .. Len(z)
      /\ DOMAIN t = 1 .. Len(t) /\ DOMAIN s = 1 .. Len(s) /\ Len(t) \in Nat /\ Len(s) \in Nat
      /\ \A i \in 1 .. Len(z) : z[i] = IF i <= Len(t) THEN t[i] ELSE s[i - Len(t)]
  BY <1>1, ConcatProperties, LenProperties
<1>3. ASSUME NEW i \in DOMAIN z, On(z, i) PROVE z[i].file \in F
  <2>1. CASE i <= Len(t)
    BY <1>2, <1>3, <2>1 DEF Only, On
  <2>2. CASE ~(i <= Len(t))
    <3>1. PICK j \in 1 .. Len(s) : j = i - Len(t)
      BY <1>2, <2>2
    <3>2. z[i] = s[j]
      BY <1>2, <2>2, <3>1
    <3>3. QED
      BY <1>2, <1>3, <3>1, <3>2 DEF Only, On
  <2>3. QED
    BY <2>1, <2>2
<1>4. QED
  BY <1>1, <1>3 DEF Only

(* The steps that end a file whose directory is "deleted" by now.          *)
LEMMA DeletionOk ==
  ASSUME NEW f \in Files, NEW o \in [Files -> Objects], NEW g, o[f].here, o[f].dir = "deleted",
         o[f].deleted => g = None,
         NEW y, NEW x, x = <<>> \/ (x = <<Gc(1)>> /\ ~o[f].deleted),
         \/ y = <<Op("remove", f)>>
         \/ y = x \o <<UpdateObjectHeader(f, TRUE), Op("remove", f)>>
  PROVE  /\ y \in Seq(Ops) /\ TodoOk(y, o, g) /\ Only(y, {f})
         /\ x = <<>> => \A i \in DOMAIN y : Closing(y, i, o)
<1>1. PICK r : r = Op("remove", f)
  OBVIOUS
<1>2. r \in Ops /\ r.op = "remove" /\ r.file = f
  BY <1>1, OpType DEF Steps
<1>3. PICK e : e = <<UpdateObjectHeader(f, TRUE), Op("remove", f)>>
  OBVIOUS
<1>4. /\ e \in Seq(Ops) /\ TodoOk(e, o, g) /\ DOMAIN e = {1, 2}
      /\ \A i \in DOMAIN e : e[i].file = f /\ Closing(e, i, o)
  BY <1>3, EndOk
<1>5. Only(e, {f})
  BY <1>4 DEF Only
<1>6. CASE y = <<Op("remove", f)>>
  <2>1. y = <<r>>
    BY <1>1, <1>6
  <2>2. \A i \in DOMAIN y : y[i] = r /\ Closing(y, i, o)
    BY <1>2, <2>1 DEF Closing
  <2>3. y \in Seq(Ops) /\ TodoOk(y, o, g)
    <3>1. Closing(<<r>>, 1, o)
      BY <1>2 DEF Closing
    <3>2. QED
      BY <1>2, <2>1, <3>1, OneOk
  <2>4. QED
    BY <1>2, <2>2, <2>3 DEF Only
<1>7. CASE y = x \o e /\ x = <<>>
  <2>1. y = e
    BY <1>4, <1>7, ConcatEmptySeq
  <2>2. QED
    BY <1>4, <1>5, <2>1
<1>8. CASE y = x \o e /\ x = <<Gc(1)>> /\ ~o[f].deleted
  <2>1. x \in Seq(Ops) /\ TodoOk(x, o, g) /\ \A i \in DOMAIN x : ~ On(x, i)
    <3>1. PICK z : z = Gc(1) /\ z \in Ops /\ z.op = "gc"
      BY GcType
    <3>2. x = <<z>>
      BY <1>8, <3>1
    <3>3. \A i \in DOMAIN x : x[i] = z
      BY <3>2
    <3>4. QED
      BY <3>1, <3>2, <3>3, OneOk DEF On
  <2>2. NoneDeleted(e, o)
    BY <1>4, <1>8 DEF NoneDeleted
  <2>3. y \in Seq(Ops) /\ TodoOk(y, o, g)
    BY <1>4, <1>8, <2>1, <2>2, ConcatOk
  <2>4. Only(x, {f})
    BY <2>1 DEF Only
  <2>5. Only(y, {f})
    BY <1>4, <1>5, <1>8, <2>1, <2>4, ConcatOnly
  <2>6. x # <<>>
    BY <1>8
  <2>7. QED
    BY <2>3, <2>5, <2>6
<1>9. QED
  BY <1>3, <1>6, <1>7, <1>8

LEMMA SameOwnOk ==
  ASSUME NEW d, NEW o \in [Files -> Objects], NEW q \in [Files -> Objects], NEW n \in Flash, NEW g,
         DevOk(d, o, n, g),
         \A h \in Files : q[h].here = o[h].here /\ q[h].hdr = o[h].hdr /\ q[h].tnode = o[h].tnode
  PROVE  DevOk(d, q, n, g)
<1>1. \A h \in Files, j \in 0 .. FileChunks : Own(q, h, j) = Own(o, h, j)
  BY DEF Own
<1>2. HeldOk(o, d, n)
  BY DEF DevOk
<1>3. \A h \in Files, j \in 0 .. FileChunks : Own(q, h, j) # None => q[h].here
  BY <1>1, <1>2 DEF HeldOk
<1>4. QED
  BY <1>1, <1>3, FewerOk

SoftDeletedFile(o, f) == [o EXCEPT ![f].deleted = TRUE, ![f].tnode = NoObject.tnode]

LEMMA SoftDeletedObject ==
  ASSUME NEW o \in [Files -> Objects], NEW f \in Files, NEW q, q = SoftDeletedFile(o, f)
  PROVE  /\ q \in [Files -> Objects] /\ \A h \in Files \ {f} : q[h] = o[h]
         /\ q[f].here = o[f].here /\ q[f].dir = o[f].dir /\ q[f].hdr = o[f].hdr
         /\ q[f].tnode = NoObject.tnode
<1>1. PICK r : r = o[f] /\ r \in Objects
  OBVIOUS
<1>2. PICK t \in [1 .. FileChunks -> Addr \cup {None}] : t = NoObject.tnode
  BY NoObjectType
<1>3. PICK w : w = [r EXCEPT !.deleted = TRUE, !.tnode = t]
  OBVIOUS
<1>4. w \in Objects /\ w.here = r.here /\ w.dir = r.dir /\ w.hdr = r.hdr /\ w.tnode = t
  BY <1>1, <1>3 DEF Objects
<1>5. q = [o EXCEPT ![f] = w]
  BY <1>1, <1>2, <1>3 DEF SoftDeletedFile
<1>6. q \in [Files -> Objects] /\ q[f] = w /\ \A h \in Files \ {f} : q[h] = o[h]
  BY <1>4, <1>5
<1>7. QED
  BY <1>1, <1>2, <1>4, <1>6

InDeleted(o, f) == [o EXCEPT ![f].dir = "deleted"]

LEMMA InDeletedObject ==
  ASSUME NEW o \in [Files -> Objects], NEW f \in Files, NEW q, q = InDeleted(o, f)
  PROVE  /\ q \in [Files -> Objects] /\ \A h \in Files \ {f} : q[h] = o[h]
         /\ q[f].dir = "deleted"
         /\ \A h \in Files : /\ q[h].here = o[h].here /\ q[h].deleted = o[h].deleted
                             /\ q[h].hdr = o[h].hdr /\ q[h].tnode = o[h].tnode
<1>1. PICK r : r = o[f] /\ r \in Objects
  OBVIOUS
<1>2. PICK w : w = [r EXCEPT !.dir = "deleted"]
  OBVIOUS
<1>3. /\ w \in Objects /\ w.here = r.here /\ w.dir = "deleted" /\ w.hdr = r.hdr /\ w.tnode = r.tnode
      /\ w.deleted = r.deleted
  BY <1>1, <1>2 DEF Objects, Dirs
<1>4. q = [o EXCEPT ![f] = w]
  BY <1>1, <1>2 DEF InDeleted
<1>5. q \in [Files -> Objects] /\ q[f] = w /\ \A h \in Files \ {f} : q[h] = o[h]
  BY <1>3, <1>4
<1>6. QED
  BY <1>1, <1>3, <1>5

LEMMA DeleteFileStep ==
  ASSUME GutsInv, DeleteFile
  PROVE  GutsInv'
<1>1. Doing("destroy")
  BY DEF DeleteFile
<1>2. /\ mounted /\ gcBlock = None /\ todo # <<>> /\ Head(todo).op = "destroy"
      /\ nand \in Flash /\ nseq \in [Blocks -> Nat]
      /\ obj \in [Files -> Objects] /\ todo \in Seq(Ops)
      /\ DevOk(dev, obj, nand, None) /\ DeletedOk(obj) /\ TodoOk(todo, obj, None)
      /\ Rest \in Seq(Ops) /\ TodoOk(Rest, obj, None)
  BY <1>1, DoingFacts
<1>3. mounted' /\ nand' = nand /\ nseq' = nseq /\ gcBlock' = None
  BY <1>2 DEF DeleteFile
<1>4. PICK f : f = Head(todo).file
  OBVIOUS
<1>5. PICK t : t = Rest
  OBVIOUS
<1>6. /\ f \in Files /\ obj[f].here /\ ~obj[f].deleted
      /\ \A i \in DOMAIN t : On(t, i) => t[i].file # f
  BY <1>2, <1>4, <1>5, HeadOk DEF Rest
<1>7. /\ t \in Seq(Ops) /\ TodoOk(t, obj, None)
      /\ NoneDeleted(t, obj)
  BY <1>2, <1>5, TailOk DEF NoneDeleted, Rest
<1>8. \A q \in [Files -> Objects] : (\A h \in Files \ {f} : q[h] = obj[h]) => TodoOk(t, q, None)
  <2>1. ASSUME NEW q \in [Files -> Objects], \A h \in Files \ {f} : q[h] = obj[h]
        PROVE  TodoOk(t, q, None)
    <3>1. ASSUME NEW i \in DOMAIN t, On(t, i)
          PROVE  LET h == t[i].file IN
                 q[h].here = obj[h].here /\ q[h].deleted = obj[h].deleted /\ q[h].dir = obj[h].dir
      <4>1. t[i].file \in Files /\ t[i].file # f
        BY <1>6, <1>7, <3>1, StepOk
      <4>2. QED
        BY <2>1, <4>1
    <3>2. Alike(obj, q, t)
      BY <3>1 DEF Alike
    <3>3. QED
      BY <1>7, <3>2, AlikeOk
  <2>2. QED
    BY <2>1
<1>9. CASE obj[f].nData > 0
  <2>1. PICK q : q = SoftDeletedFile(obj, f)
    OBVIOUS
  <2>2. PICK e : e = SoftDeleted(dev, DataChunks(obj, f))
    OBVIOUS
  <2>3. obj' = q /\ dev' = e /\ todo' = t
    <3>1. obj' = q
      BY <1>4, <1>5, <1>9, <2>1 DEF DeleteFile, SoftDeletedFile
    <3>2. dev' = e
      BY <1>4, <1>5, <1>9, <2>2 DEF DeleteFile, DataChunks
    <3>3. todo' = t
      BY <1>4, <1>5, <1>9 DEF DeleteFile
    <3>4. QED
      BY ONLY <3>1, <3>2, <3>3
  <2>4. /\ q \in [Files -> Objects] /\ \A h \in Files \ {f} : q[h] = obj[h]
        /\ q[f].here = obj[f].here /\ q[f].dir = obj[f].dir /\ q[f].hdr = obj[f].hdr
        /\ q[f].tnode = NoObject.tnode
    <3>1. obj \in [Files -> Objects] /\ f \in Files
      BY <1>2, <1>6
    <3>2. QED
      BY ONLY <2>1, <3>1, SoftDeletedObject
  <2>5. \A h \in Files, j \in 0 .. FileChunks :
           Own(q, h, j) = IF h = f /\ j # 0 THEN None ELSE Own(obj, h, j)
    <3>1. \A j \in 0 .. FileChunks : j # 0 => j \in 1 .. FileChunks
      BY Geometry
    <3>2. QED
      BY <2>4, <3>1, NoObjectType DEF Own
  <2>6. \A h \in Files : q[h].here = obj[h].here
    BY <2>4
  <2>7. DevOk(e, q, nand, None)
    <3>1. /\ obj \in [Files -> Objects] /\ f \in Files /\ q \in [Files -> Objects] /\ nand \in Flash
          /\ DevOk(dev, obj, nand, None)
      BY <1>2, <1>6, <2>4
    <3>2. DevOk(SoftDeleted(dev, DataChunks(obj, f)), q, nand, None)
      BY ONLY <2>5, <2>6, <3>1, SoftDeletedOk
    <3>3. QED
      BY <2>2, <3>2
  <2>8. DeletedOk(q)
    BY <1>2, <2>4, NoObjectType DEF DeletedOk
  <2>9. TodoOk(t, q, None)
    BY <1>8, <2>4
  <2>10. QED
    BY <1>2, <1>3, <1>7, <2>3, <2>4, <2>7, <2>8, <2>9, InMemoryAgain
<1>10. CASE ~(obj[f].nData > 0)
  <2>1. PICK q : q = InDeleted(obj, f)
    OBVIOUS
  <2>2. PICK x : x = <<Gc(1)>>
    OBVIOUS
  <2>3. PICK y : y = DoGenericObjectDeletion(f, x)
    OBVIOUS
  <2>4. PICK z : z = y \o t
    OBVIOUS
  <2>5. obj' = q /\ dev' = dev /\ todo' = z
    BY <1>4, <1>5, <1>10, <2>1, <2>2, <2>3, <2>4 DEF DeleteFile, InDeleted
  <2>6. /\ q \in [Files -> Objects] /\ \A h \in Files \ {f} : q[h] = obj[h]
        /\ q[f].dir = "deleted"
        /\ \A h \in Files : /\ q[h].here = obj[h].here /\ q[h].deleted = obj[h].deleted
                            /\ q[h].hdr = obj[h].hdr /\ q[h].tnode = obj[h].tnode
    <3>1. obj \in [Files -> Objects] /\ f \in Files
      BY <1>2, <1>6
    <3>2. QED
      BY ONLY <2>1, <3>1, InDeletedObject
  <2>7. DevOk(dev, q, nand, None)
    <3>1. \A h \in Files : q[h].here = obj[h].here /\ q[h].hdr = obj[h].hdr /\ q[h].tnode = obj[h].tnode
      BY <2>6
    <3>2. QED
      BY <1>2, <2>6, <3>1, SameOwnOk
  <2>8. DeletedOk(q)
    <3>1. \A h \in Files : q[h].deleted = obj[h].deleted /\ q[h].tnode = obj[h].tnode
      BY <2>6
    <3>2. DeletedOk(obj)
      BY <1>2
    <3>3. QED
      BY ONLY <3>1, <3>2 DEF DeletedOk
  <2>9. \/ y = <<Op("remove", f)>>
        \/ y = x \o <<UpdateObjectHeader(f, TRUE), Op("remove", f)>>
    BY <2>3 DEF DoGenericObjectDeletion
  <2>10. y \in Seq(Ops) /\ TodoOk(y, q, None) /\ Only(y, {f})
    <3>1. q[f].here /\ q[f].dir = "deleted" /\ ~q[f].deleted
      BY <1>6, <2>6
    <3>2. x = <<>> \/ (x = <<Gc(1)>> /\ ~q[f].deleted)
      BY <2>2, <3>1
    <3>3. QED
      BY <1>6, <2>6, <2>9, <3>1, <3>2, DeletionOk
  <2>11. TodoOk(t, q, None)
    BY <1>8, <2>6
  <2>12. NoneDeleted(t, q)
    <3>1. ASSUME NEW i \in DOMAIN t, On(t, i) PROVE ~q[t[i].file].deleted
      <4>1. t[i].file \in Files
        BY <1>7, <3>1, StepOk
      <4>2. QED
        BY <1>7, <2>6, <3>1, <4>1 DEF NoneDeleted
    <3>2. QED
      BY <3>1 DEF NoneDeleted
  <2>13. \A i \in DOMAIN y, j \in DOMAIN t : On(y, i) /\ On(t, j) => y[i].file # t[j].file
    BY <1>6, <2>10 DEF Only
  <2>14. z \in Seq(Ops) /\ TodoOk(z, q, None)
    BY <1>7, <2>4, <2>10, <2>11, <2>12, <2>13, ConcatOk
  <2>15. QED
    BY <1>2, <1>3, <2>5, <2>6, <2>7, <2>8, <2>14, InMemoryAgain
<1>11. QED
  BY <1>9, <1>10

(* A call of the user.                                                     *)
LEMMA UserCallOk ==
  ASSUME GutsInv, NEW s, UserCall(s), NEW q \in [Files -> Objects], obj' = q,
         \A h \in Files : q[h].deleted => obj[h].deleted,
         \A h \in Files, j \in 0 .. FileChunks : Own(q, h, j) = Own(obj, h, j),
         \A h \in Files : obj[h].here => q[h].here,
         s \in Seq(Ops), TodoOk(s, q, None)
  PROVE  GutsInv'
<1>1. /\ mounted /\ mounted' /\ gcBlock = None /\ todo' = s /\ nand' = nand /\ nseq' = nseq
      /\ dev' = dev /\ gcBlock' = None
  BY DEF UserCall, Idle, Quiet
<1>2. /\ nand \in Flash /\ nseq \in [Blocks -> Nat]
      /\ obj \in [Files -> Objects] /\ DevOk(dev, obj, nand, None) /\ DeletedOk(obj)
  BY <1>1, InMemory
<1>3. \A h \in Files, j \in 0 .. FileChunks :
         /\ Own(q, h, j) \in {Own(obj, h, j), None}
         /\ Own(q, h, j) # None => q[h].here
  <2>1. HeldOk(obj, dev, nand)
    BY <1>2 DEF DevOk
  <2>2. QED
    BY <2>1 DEF HeldOk
<1>4. DevOk(dev, q, nand, None)
  BY <1>2, <1>3, FewerOk
<1>5. DeletedOk(q)
  <2>1. ASSUME NEW h \in Files, q[h].deleted, NEW j \in 1 .. FileChunks PROVE q[h].tnode[j] = None
    <3>1. obj[h].tnode[j] = None
      BY <1>2, <2>1 DEF DeletedOk
    <3>2. j # 0 /\ j \in 0 .. FileChunks
      BY Geometry
    <3>3. QED
      BY <3>1, <3>2 DEF Own
  <2>2. QED
    BY <2>1 DEF DeletedOk
<1>6. QED
  BY <1>1, <1>2, <1>4, <1>5, InMemoryAgain

AfterGc(x) == <<Gc(1), x>>

LEMMA TwoOk ==
  ASSUME NEW x \in Ops, NEW o, NEW g, x.op \in {"header", "put"}, x.file \in Files,
         o[x.file].here, ~o[x.file].deleted,
         x.op = "put" => x.val \in Values /\ x.chunk \in 1 .. FileChunks
  PROVE  AfterGc(x) \in Seq(Ops) /\ TodoOk(AfterGc(x), o, g)
<1>1. PICK y : y = Gc(1) /\ y \in Ops /\ y.op = "gc"
  BY GcType
<1>2. PICK s : s = <<y, x>>
  OBVIOUS
<1>3. s \in Seq(Ops) /\ DOMAIN s = {1, 2} /\ s[1] = y /\ s[2] = x
  BY <1>1, <1>2
<1>4. ~ On(s, 1)
  BY <1>1, <1>3 DEF On
<1>5. \A i \in DOMAIN s : On(s, i) => i = 2
  BY <1>3, <1>4
<1>6. TodoOk(s, o, g)
  BY <1>3, <1>5 DEF TodoOk
<1>7. QED
  BY <1>1, <1>2, <1>3, <1>6 DEF AfterGc

LEMMA CreateStep ==
  ASSUME GutsInv, NEW f \in Files, Create(f)
  PROVE  GutsInv'
<1>1. ~obj[f].here /\ mounted
  BY DEF Create, UserCall, Idle, Quiet
<1>2. PICK s, x : x = UpdateObjectHeader(f, FALSE) /\ s = AfterGc(x)
  OBVIOUS
<1>3. PICK w : w = [NoObject EXCEPT !.here = TRUE]
  OBVIOUS
<1>4. PICK q : q = [obj EXCEPT ![f] = w]
  OBVIOUS
<1>5. UserCall(s) /\ obj' = q
  BY <1>2, <1>3, <1>4 DEF Create, AfterGc
<1>6. obj \in [Files -> Objects] /\ HeldOk(obj, dev, nand)
  BY <1>1, InMemory DEF DevOk
<1>7. w \in Objects /\ w.here /\ ~w.deleted /\ w.hdr = None /\ w.tnode = NoObject.tnode
  BY <1>3, NoObjectType DEF Objects
<1>8. q \in [Files -> Objects] /\ q[f] = w /\ \A h \in Files \ {f} : q[h] = obj[h]
  BY <1>4, <1>6, <1>7
<1>9. ASSUME NEW h \in Files, NEW j \in 0 .. FileChunks
      PROVE  Own(q, h, j) = Own(obj, h, j)
  <2>1. CASE h = f
    <3>1. Own(obj, f, j) = None
      BY <1>1, <1>6 DEF HeldOk
    <3>2. j # 0 => j \in 1 .. FileChunks
      BY Geometry
    <3>3. QED
      BY <1>7, <1>8, <2>1, <3>1, <3>2, NoObjectType DEF Own
  <2>2. CASE h # f
    BY <1>8, <2>2 DEF Own
  <2>3. QED
    BY <2>1, <2>2
<1>10. x \in Ops /\ x.op = "header" /\ x.file = f
  BY <1>2, OpType
<1>11. s \in Seq(Ops) /\ TodoOk(s, q, None)
  <2>1. /\ x \in Ops /\ x.op \in {"header", "put"} /\ x.file \in Files /\ q[x.file].here
        /\ ~q[x.file].deleted /\ (x.op = "put" => x.val \in Values /\ x.chunk \in 1 .. FileChunks)
    BY <1>2, <1>7, <1>8, <1>10
  <2>2. QED
    <3>1. s = AfterGc(x)
      BY <1>2
    <3>2. QED
      BY ONLY <2>1, <3>1, TwoOk
<1>12. (\A h \in Files : q[h].deleted => obj[h].deleted)
       /\ (\A h \in Files : obj[h].here => q[h].here)
  BY <1>7, <1>8
<1>13. QED
  BY <1>5, <1>8, <1>9, <1>11, <1>12, UserCallOk

LEMMA WriteFileStep ==
  ASSUME GutsInv, NEW f \in Files, NEW k \in 1 .. FileChunks, NEW v \in Values, WriteFile(f, k, v)
  PROVE  GutsInv'
<1>1. mounted /\ obj[f].here /\ ~obj[f].deleted /\ obj' = obj
  BY DEF WriteFile, Open, UserCall, Idle, Quiet
<1>2. PICK s, x : x = PutOp(f, k, v) /\ s = AfterGc(x)
  OBVIOUS
<1>3. UserCall(s)
  BY <1>2 DEF WriteFile, AfterGc, PutOp
<1>4. obj \in [Files -> Objects]
  BY <1>1, InMemory
<1>5. x \in Ops /\ x.op = "put" /\ x.file = f /\ x.chunk = k /\ x.val = v
  BY <1>2, PutType
<1>6. s \in Seq(Ops) /\ TodoOk(s, obj, None)
  <2>1. /\ x \in Ops /\ x.op \in {"header", "put"} /\ x.file \in Files /\ obj[x.file].here
        /\ ~obj[x.file].deleted /\ (x.op = "put" => x.val \in Values /\ x.chunk \in 1 .. FileChunks)
    BY <1>1, <1>2, <1>5
  <2>2. QED
    <3>1. s = AfterGc(x)
      BY <1>2
    <3>2. QED
      BY ONLY <2>1, <3>1, TwoOk
<1>7. PICK q : q = obj
  OBVIOUS
<1>8. QED
  BY <1>1, <1>3, <1>4, <1>6, <1>7, UserCallOk

LEMMA FlushFileStep ==
  ASSUME GutsInv, NEW f \in Files, FlushFile(f)
  PROVE  GutsInv'
<1>1. mounted /\ obj[f].here /\ ~obj[f].deleted /\ obj' = obj
  BY DEF FlushFile, Open, UserCall, Idle, Quiet
<1>2. PICK s, x : x = UpdateObjectHeader(f, FALSE) /\ s = AfterGc(x)
  OBVIOUS
<1>3. UserCall(s)
  BY <1>2 DEF FlushFile, AfterGc
<1>4. obj \in [Files -> Objects]
  BY <1>1, InMemory
<1>5. x \in Ops /\ x.op = "header" /\ x.file = f
  BY <1>2, OpType
<1>6. s \in Seq(Ops) /\ TodoOk(s, obj, None)
  <2>1. /\ x \in Ops /\ x.op \in {"header", "put"} /\ x.file \in Files /\ obj[x.file].here
        /\ ~obj[x.file].deleted /\ (x.op = "put" => x.val \in Values /\ x.chunk \in 1 .. FileChunks)
    BY <1>1, <1>2, <1>5
  <2>2. QED
    <3>1. s = AfterGc(x)
      BY <1>2
    <3>2. QED
      BY ONLY <2>1, <3>1, TwoOk
<1>7. PICK q : q = obj
  OBVIOUS
<1>8. QED
  BY <1>1, <1>3, <1>4, <1>6, <1>7, UserCallOk

LEMMA DeleteInodeStep ==
  ASSUME GutsInv, NEW f \in Files, DeleteInode(f)
  PROVE  GutsInv'
<1>1. mounted /\ obj[f].here /\ ~obj[f].deleted /\ obj' = obj
  BY DEF DeleteInode, Open, UserCall, Idle, Quiet
<1>2. PICK s, x : x = Op("destroy", f) /\ s = <<x>>
  OBVIOUS
<1>3. UserCall(s)
  BY <1>2 DEF DeleteInode
<1>4. obj \in [Files -> Objects]
  BY <1>1, InMemory
<1>5. x \in Ops /\ x.op = "destroy" /\ x.file = f
  BY <1>2, OpType DEF Steps
<1>6. s \in Seq(Ops) /\ TodoOk(s, obj, None)
  BY <1>1, <1>2, <1>5, OneOk
<1>7. PICK q : q = obj
  OBVIOUS
<1>8. QED
  BY <1>1, <1>3, <1>4, <1>6, <1>7, UserCallOk

UnlinkedOf(o, f) == [o EXCEPT ![f].dir = "unlinked", ![f].dirty = TRUE]

LEMMA UnlinkedObject ==
  ASSUME NEW o \in [Files -> Objects], NEW f \in Files, NEW q, q = UnlinkedOf(o, f)
  PROVE  /\ q \in [Files -> Objects]
         /\ \A h \in Files : /\ q[h].here = o[h].here /\ q[h].deleted = o[h].deleted
                             /\ q[h].hdr = o[h].hdr /\ q[h].tnode = o[h].tnode
<1>1. PICK r : r = o[f] /\ r \in Objects
  OBVIOUS
<1>2. PICK w : w = [r EXCEPT !.dir = "unlinked", !.dirty = TRUE]
  OBVIOUS
<1>3. /\ w \in Objects /\ w.here = r.here /\ w.hdr = r.hdr /\ w.tnode = r.tnode
      /\ w.deleted = r.deleted
  BY <1>1, <1>2 DEF Objects, Dirs
<1>4. q = [o EXCEPT ![f] = w]
  BY <1>1, <1>2 DEF UnlinkedOf
<1>5. q \in [Files -> Objects] /\ q[f] = w /\ \A h \in Files \ {f} : q[h] = o[h]
  BY <1>3, <1>4
<1>6. QED
  BY <1>1, <1>3, <1>5

LEMMA UnlinkStep ==
  ASSUME GutsInv, NEW f \in Files, Unlink(f)
  PROVE  GutsInv'
<1>1. mounted /\ obj[f].here /\ ~obj[f].deleted
  BY DEF Unlink, Open, UserCall, Idle, Quiet
<1>2. PICK x : x = UpdateObjectHeader(f, FALSE)
  OBVIOUS
<1>3. PICK s : s = AfterGc(x)
  OBVIOUS
<1>4. PICK q : q = UnlinkedOf(obj, f)
  OBVIOUS
<1>5. UserCall(s) /\ obj' = q
  BY <1>2, <1>3, <1>4 DEF Unlink, AfterGc, UnlinkedOf
<1>6. obj \in [Files -> Objects]
  BY <1>1, InMemory
<1>7. /\ q \in [Files -> Objects]
      /\ \A h \in Files : /\ q[h].here = obj[h].here /\ q[h].deleted = obj[h].deleted
                          /\ q[h].hdr = obj[h].hdr /\ q[h].tnode = obj[h].tnode
  BY <1>4, <1>6, UnlinkedObject
<1>8. x \in Ops /\ x.op = "header" /\ x.file = f
  BY <1>2, OpType
<1>9. /\ x \in Ops /\ x.op \in {"header", "put"} /\ x.file \in Files /\ q[x.file].here
      /\ ~q[x.file].deleted /\ (x.op = "put" => x.val \in Values /\ x.chunk \in 1 .. FileChunks)
  BY <1>1, <1>7, <1>8
<1>10. s \in Seq(Ops) /\ TodoOk(s, q, None)
  BY ONLY <1>3, <1>9, TwoOk
<1>11. \A h \in Files, j \in 0 .. FileChunks : Own(q, h, j) = Own(obj, h, j)
  BY <1>7 DEF Own
<1>12. (\A h \in Files : q[h].deleted => obj[h].deleted)
       /\ (\A h \in Files : obj[h].here => q[h].here)
  BY <1>7
<1>13. QED
  BY <1>5, <1>7, <1>10, <1>11, <1>12, UserCallOk

ResizedOf(o, f, n) == [o EXCEPT ![f].size = n]

LEMMA ResizedObject ==
  ASSUME NEW o \in [Files -> Objects], NEW f \in Files, NEW n \in 0 .. FileChunks,
         NEW q, q = ResizedOf(o, f, n)
  PROVE  /\ q \in [Files -> Objects]
         /\ \A h \in Files : /\ q[h].here = o[h].here /\ q[h].deleted = o[h].deleted
                             /\ q[h].hdr = o[h].hdr /\ q[h].tnode = o[h].tnode
<1>1. PICK r : r = o[f] /\ r \in Objects
  OBVIOUS
<1>2. PICK w : w = [r EXCEPT !.size = n]
  OBVIOUS
<1>3. /\ w \in Objects /\ w.here = r.here /\ w.hdr = r.hdr /\ w.tnode = r.tnode
      /\ w.deleted = r.deleted
  BY <1>1, <1>2 DEF Objects
<1>4. q = [o EXCEPT ![f] = w]
  BY <1>1, <1>2 DEF ResizedOf
<1>5. q \in [Files -> Objects] /\ q[f] = w /\ \A h \in Files \ {f} : q[h] = o[h]
  BY <1>3, <1>4
<1>6. QED
  BY <1>1, <1>3, <1>5

(* Chunks of one file are given back, and its header may be the last.      *)
Prunes(f) == {x \in Ops : \/ x.op = "gc"
                          \/ x.op = "prune" /\ x.file = f /\ x.chunk \in 1 .. FileChunks}

LEMMA PrunesOk ==
  ASSUME NEW f \in Files, NEW o, o[f].here, ~o[f].deleted, NEW u \in Seq(Prunes(f)),
         NEW x, x \in Ops /\ x.op = "header" /\ x.file = f,
         NEW c, c = <<>> \/ c = AfterGc(x)
  PROVE  u \o c \in Seq(Ops) /\ TodoOk(u \o c, o, None)
<1>1. PICK z : z = u \o c
  OBVIOUS
<1>2. PICK y : y = Gc(1) /\ y \in Ops /\ y.op = "gc"
  BY GcType
<1>3. /\ c \in Seq(Ops) /\ Len(c) \in {0, 2}
      /\ Len(c) = 2 => c[1] = y /\ c[2] = x
  <2>1. CASE c = <<>>
    BY <2>1
  <2>2. CASE c = AfterGc(x)
    <3>1. c = <<y, x>>
      BY <1>2, <2>2 DEF AfterGc
    <3>2. c \in Seq(Ops)
      BY <1>2, <3>1
    <3>3. Len(c) = 2 /\ c[1] = y /\ c[2] = x
      BY <3>1
    <3>4. QED
      BY <3>2, <3>3
  <2>3. QED
    BY <2>1, <2>2
<1>4. u \in Seq(Ops) /\ Len(u) \in Nat /\ \A i \in 1 .. Len(u) : u[i] \in Prunes(f)
  <2>1. Len(u) \in Nat /\ \A i \in 1 .. Len(u) : u[i] \in Prunes(f)
    BY LenProperties
  <2>2. Prunes(f) \subseteq Ops
    BY DEF Prunes
  <2>3. QED
    BY <2>1, <2>2, SeqDef
<1>5. /\ z \in Seq(Ops) /\ Len(z) = Len(u) + Len(c) /\ DOMAIN z = 1 .. Len(z)
      /\ \A i \in 1 .. Len(z) : z[i] = IF i <= Len(u) THEN u[i] ELSE c[i - Len(u)]
  <2>1. u \in Seq(Ops) /\ c \in Seq(Ops)
    BY <1>3, <1>4
  <2>2. QED
    BY ONLY <1>1, <2>1, ConcatProperties, LenProperties
<1>6. ASSUME NEW i \in DOMAIN z
      PROVE  z[i] \in Prunes(f) \/ (z[i] = x /\ i = Len(z))
  <2>1. CASE i <= Len(u)
    BY <1>4, <1>5, <2>1
  <2>2. CASE ~(i <= Len(u))
    <3>1. Len(c) = 2 /\ i \in {Len(u) + 1, Len(u) + 2}
      <4>1. PICK l \in Nat, m \in {0, 2} : l = Len(u) /\ m = Len(c)
        BY <1>3, <1>4
      <4>2. i \in 1 .. l + m /\ ~(i <= l)
        BY <1>5, <2>2, <4>1
      <4>3. m = 2 /\ i \in {l + 1, l + 2}
        <5>1. m = 0 \/ m = 2
          BY <4>1
        <5>2. i \in Int /\ i >= 1 /\ i <= l + m /\ i > l
          BY <4>1, <4>2
        <5>3. m = 2
          BY <4>1, <5>1, <5>2
        <5>4. i = l + 1 \/ i = l + 2
          BY <4>1, <5>2, <5>3
        <5>5. QED
          BY <5>3, <5>4
      <4>4. QED
        BY <4>1, <4>3
    <3>2. CASE i = Len(u) + 1
      <4>1. z[i] = y
        <5>1. i - Len(u) = 1 /\ i \in 1 .. Len(z)
          BY <1>4, <1>5, <3>2
        <5>2. z[i] = c[i - Len(u)]
          BY <1>5, <2>2, <5>1
        <5>3. QED
          BY <1>3, <3>1, <5>1, <5>2
      <4>2. QED
        BY <1>2, <4>1 DEF Prunes
    <3>3. CASE i = Len(u) + 2
      <4>1. z[i] = x /\ i = Len(z)
        <5>1. i - Len(u) = 2 /\ i = Len(z) /\ i \in 1 .. Len(z)
          BY <1>4, <1>5, <3>1, <3>3
        <5>2. z[i] = c[i - Len(u)]
          BY <1>5, <2>2, <5>1
        <5>3. QED
          BY <1>3, <3>1, <5>1, <5>2
      <4>2. QED
        BY <4>1
    <3>4. QED
      BY <3>1, <3>2, <3>3
  <2>3. QED
    BY <2>1, <2>2
<1>7. ASSUME NEW i \in DOMAIN z, On(z, i)
      PROVE  /\ z[i].file = f
             /\ \/ z[i].op = "prune" /\ z[i].chunk \in 1 .. FileChunks
                \/ z[i].op = "header" /\ i = Len(z)
  BY <1>6, <1>7 DEF On, Prunes
<1>8. ASSUME NEW i \in DOMAIN z, NEW j \in DOMAIN z, i < j, On(z, i), On(z, j)
      PROVE  z[i].op = "prune" /\ z[j].op \in {"prune", "header"}
  <2>1. i # Len(z)
    BY <1>3, <1>4, <1>5, <1>8
  <2>2. QED
    BY <1>7, <1>8, <2>1
<1>9. TodoOk(z, o, None)
  BY <1>7, <1>8 DEF TodoOk
<1>10. QED
  BY <1>1, <1>5, <1>9

LEMMA ResizeFileStep ==
  ASSUME GutsInv, NEW f \in Files, NEW n \in 0 .. FileChunks, ResizeFile(f, n)
  PROVE  GutsInv'
<1>1. mounted /\ obj[f].here /\ ~obj[f].deleted
  BY DEF ResizeFile, Open, UserCall, Idle, Quiet
<1>2. obj \in [Files -> Objects]
  BY <1>1, InMemory
<1>3. PICK size \in 0 .. FileChunks : size = obj[f].size
  BY <1>2, ObjectFields
<1>4. PICK p : p = [i \in 1 .. (size - n) |-> [Op("prune", f) EXCEPT !.chunk = size + 1 - i]]
  OBVIOUS
<1>5. PICK x \in Ops : x = UpdateObjectHeader(f, n < size) /\ x.op = "header" /\ x.file = f
  <2>1. (n < size) \in BOOLEAN
    OBVIOUS
  <2>2. QED
    BY <2>1, OpType
<1>6. PICK c : c = IF obj[f].dir = "root" THEN AfterGc(x) ELSE <<>>
  OBVIOUS
<1>7. PICK u : u = <<Gc(1)>> \o p
  OBVIOUS
<1>8. PICK s : s = u \o c
  OBVIOUS
<1>9. PICK q : q = ResizedOf(obj, f, n)
  OBVIOUS
<1>10. UserCall(s) /\ obj' = q
  BY <1>3, <1>4, <1>5, <1>6, <1>7, <1>8, <1>9 DEF ResizeFile, AfterGc, ResizedOf
<1>11. /\ q \in [Files -> Objects]
       /\ \A h \in Files : /\ q[h].here = obj[h].here /\ q[h].deleted = obj[h].deleted
                           /\ q[h].hdr = obj[h].hdr /\ q[h].tnode = obj[h].tnode
  BY <1>2, <1>9, ResizedObject
<1>12. p \in Seq(Prunes(f))
  <2>1. PICK m \in Nat : m = IF size >= n THEN size - n ELSE 0
    BY <1>3, Geometry
  <2>2. 1 .. (size - n) = 1 .. m
    BY <1>3, <2>1, Geometry
  <2>3. ASSUME NEW i \in 1 .. m
        PROVE  [Op("prune", f) EXCEPT !.chunk = size + 1 - i] \in Prunes(f)
    <3>1. PICK k \in 1 .. FileChunks : k = size + 1 - i
      <4>1. size \in Nat /\ n \in Nat /\ FileChunks \in Nat /\ size <= FileChunks /\ i \in Nat
            /\ 1 <= i /\ i <= size - n
        BY <1>3, <2>1, Geometry
      <4>2. QED
        BY <4>1
    <3>2. PICK w : w = [Op("prune", f) EXCEPT !.chunk = k]
      OBVIOUS
    <3>3. f \in Files \cup {None} /\ "prune" \in Steps /\ k \in 0 .. FileChunks \cup {1, 2}
      BY Geometry DEF Steps
    <3>4. w \in Ops /\ w.op = "prune" /\ w.file = f /\ w.chunk = k
      BY <3>2, <3>3, WithChunk
    <3>5. QED
      BY <3>1, <3>2, <3>4 DEF Prunes
  <2>4. p \in [1 .. m -> Prunes(f)]
    BY <1>4, <2>2, <2>3
  <2>5. QED
    BY <2>4, SeqDef
<1>13. u \in Seq(Prunes(f))
  <2>1. PICK y : y = Gc(1) /\ y \in Ops /\ y.op = "gc"
    BY GcType
  <2>2. y \in Prunes(f)
    BY <2>1 DEF Prunes
  <2>3. <<y>> \in Seq(Prunes(f))
    BY <2>2
  <2>4. QED
    BY <1>7, <1>12, <2>1, <2>3, ConcatProperties
<1>14. s \in Seq(Ops) /\ TodoOk(s, q, None)
  <2>1. q[f].here /\ ~q[f].deleted
    BY <1>1, <1>11
  <2>2. c = <<>> \/ c = AfterGc(x)
    BY <1>6
  <2>3. QED
    BY <1>5, <1>8, <1>13, <2>1, <2>2, PrunesOk
<1>15. \A h \in Files, j \in 0 .. FileChunks : Own(q, h, j) = Own(obj, h, j)
  BY <1>11 DEF Own
<1>16. (\A h \in Files : q[h].deleted => obj[h].deleted)
       /\ (\A h \in Files : obj[h].here => q[h].here)
  BY <1>11
<1>17. QED
  BY <1>10, <1>11, <1>14, <1>15, <1>16, UserCallOk

(* The power goes, perhaps while a page is programmed.                     *)
LEMMA PowerCutStep ==
  ASSUME GutsInv, PowerCut
  PROVE  GutsInv'
<1>1. ~mounted' /\ gcBlock' = None /\ nseq' = nseq
  BY DEF PowerCut
<1>2. nand \in Flash /\ nseq \in [Blocks -> Nat]
  BY DEF GutsInv
<1>3. nand' \in Flash
  <2>1. CASE nand' = nand
    BY <1>2, <2>1
  <2>2. CASE nand' = [nand EXCEPT ![Ready(dev).alloc] = Append(@, Torn)]
    <3>1. PICK b : b = Ready(dev).alloc
      OBVIOUS
    <3>2. PICK m : m = [nand EXCEPT ![b] = Append(@, Torn)]
      OBVIOUS
    <3>3. CASE b \in Blocks
      <4>1. nand[b] \in Seq(PagesOfLog \cup {Torn})
        BY <1>2, <3>3 DEF Flash
      <4>2. Append(nand[b], Torn) \in Seq(PagesOfLog \cup {Torn})
        BY <4>1, AppendProperties
      <4>3. m \in Flash
        BY <1>2, <3>2, <3>3, <4>2 DEF Flash
      <4>4. QED
        BY <2>2, <3>1, <3>2, <4>3
    <3>4. CASE b \notin Blocks
      <4>1. m \in Flash
        BY <1>2, <3>2, <3>4 DEF Flash
      <4>2. QED
        BY <2>2, <3>1, <3>2, <4>1
    <3>5. QED
      BY <3>3, <3>4
  <2>3. QED
    BY <2>1, <2>2 DEF PowerCut
<1>4. QED
  BY <1>1, <1>2, <1>3 DEF GutsInv

(* The collector takes a full block or none.                               *)
LEMMA CollectsFull ==
  ASSUME NEW b \in BlocksForGarbageCollection, b # None
  PROVE  b \in Blocks /\ dev.blk[b].state = "full"
<1>1. /\ InState(dev.blk, {"full"}) \in SUBSET Blocks
      /\ \A x \in InState(dev.blk, {"full"}) : dev.blk[x].state = "full"
  BY DEF InState
<1>2. Prioritised \in SUBSET InState(dev.blk, {"full"}) /\ InState(dev.blk, {"full"}) \in SUBSET Nat
  BY <1>1, Geometry DEF Prioritised
<1>3. \A limit : Candidates(limit) \in SUBSET InState(dev.blk, {"full"})
  BY DEF Candidates
<1>4. b \in InState(dev.blk, {"full"})
  <2>1. CASE Prioritised # {}
    <3>1. b = Min(Prioritised)
      BY <2>1 DEF BlocksForGarbageCollection
    <3>2. Prioritised \in SUBSET Nat
      BY <1>2
    <3>3. QED
      BY <1>2, <2>1, <3>1, <3>2, MinLemma
  <2>2. CASE Prioritised = {} /\ Aggressive
    <3>1. b \in Candidates(ChunksPerBlock)
      <4>1. PICK C : C = Candidates(ChunksPerBlock)
        OBVIOUS
      <4>2. b \in IF C = {} THEN {None} ELSE {y \in C : \A x \in C : Used(y) <= Used(x)}
        BY <2>2, <4>1 DEF BlocksForGarbageCollection
      <4>3. QED
        BY <4>1, <4>2
    <3>2. QED
      BY <1>3, <3>1
  <2>3. CASE Prioritised = {} /\ ~Aggressive
    <3>1. b \in {None} \cup Candidates(PassiveChunks + 1)
      BY <2>3 DEF BlocksForGarbageCollection
    <3>2. QED
      BY <1>3, <3>1
  <2>4. QED
    BY <2>1, <2>2, <2>3
<1>5. QED
  BY <1>1, <1>4

Started(d, b) ==
  [d EXCEPT !.free = @ - d.blk[b].softDel,
            !.blk[b].shrink = FALSE,
            !.blk[b].state = IF d.blk[b].bits = {} THEN "dirty" ELSE "collecting"]

LEMMA CheckGarbageCollectionStep ==
  ASSUME GutsInv, CheckGarbageCollection
  PROVE  GutsInv'
<1>1. Doing("gc")
  BY DEF CheckGarbageCollection
<1>2. /\ mounted /\ gcBlock = None /\ todo # <<>> /\ Head(todo).op = "gc"
      /\ nand \in Flash /\ nseq \in [Blocks -> Nat]
      /\ obj \in [Files -> Objects] /\ todo \in Seq(Ops)
      /\ DevOk(dev, obj, nand, None) /\ DeletedOk(obj) /\ TodoOk(todo, obj, None)
      /\ Rest \in Seq(Ops) /\ TodoOk(Rest, obj, None)
  BY <1>1, DoingFacts
<1>3. mounted' /\ nand' = nand /\ nseq' = nseq /\ obj' = obj
  BY <1>2 DEF CheckGarbageCollection
<1>4. PICK t : t = Rest
  OBVIOUS
<1>5. CASE todo' = Rest /\ dev' = dev /\ gcBlock' = gcBlock
  BY <1>2, <1>3, <1>4, <1>5, InMemoryAgain
<1>6. ASSUME NEW b \in BlocksForGarbageCollection, b # None,
             todo' = IF Head(todo).chunk = 1 THEN <<Gc(2)>> \o Rest ELSE Rest,
             gcBlock' = b, dev' = Started(dev, b)
      PROVE  GutsInv'
  <2>1. b \in Blocks /\ dev.blk[b].state = "full"
    BY <1>6, CollectsFull
  <2>2. PICK e : e = Started(dev, b)
    OBVIOUS
  <2>3. DevOk(e, obj, nand, b)
    BY <1>2, <2>1, <2>2, StartOk DEF Started
  <2>4. NoneDeleted(t, obj)
    BY <1>2, <1>4, TailOk DEF NoneDeleted, Rest
  <2>5. t \in Seq(Ops) /\ TodoOk(t, obj, b)
    BY <1>2, <1>4, <2>4, NoneDeletedOk
  <2>6. PICK x \in Ops : x = Gc(2) /\ x.op = "gc"
    BY GcType
  <2>7. PICK y : y = <<x>>
    OBVIOUS
  <2>8. PICK z : z = y \o t
    OBVIOUS
  <2>9. y \in Seq(Ops) /\ TodoOk(y, obj, b)
    BY <2>6, <2>7, OneOk
  <2>10. \A i \in DOMAIN y : ~ On(y, i)
    <3>1. \A i \in DOMAIN y : y[i] = x
      BY <2>7
    <3>2. QED
      BY <2>6, <3>1 DEF On
  <2>11. z \in Seq(Ops) /\ TodoOk(z, obj, b)
    BY <2>4, <2>5, <2>8, <2>9, <2>10, ConcatOk
  <2>12. todo' = z \/ todo' = t
    BY <1>4, <1>6, <2>6, <2>7, <2>8
  <2>13. PICK w : w = todo' /\ (w = z \/ w = t)
    BY <2>12
  <2>14. w \in Seq(Ops) /\ TodoOk(w, obj, b)
    BY <2>5, <2>11, <2>13
  <2>15. QED
    BY <1>2, <1>3, <1>6, <2>1, <2>2, <2>3, <2>13, <2>14, InMemoryAgain
<1>7. QED
  BY <1>5, <1>6 DEF CheckGarbageCollection, Started

NDataLess(o, f) == [o EXCEPT ![f].nData = @ - 1]

LEMMA NDataObject ==
  ASSUME NEW o \in [Files -> Objects], NEW f \in Files, NEW q, q = NDataLess(o, f)
  PROVE  /\ q \in [Files -> Objects] /\ SameFiles(o, q)
         /\ \A h \in Files : q[h].tnode = o[h].tnode /\ q[h].hdr = o[h].hdr
<1>1. PICK r : r = o[f] /\ r \in Objects
  OBVIOUS
<1>2. PICK w : w = [r EXCEPT !.nData = @ - 1]
  OBVIOUS
<1>3. /\ w.here = r.here /\ w.dir = r.dir /\ w.hdr = r.hdr /\ w.tnode = r.tnode
      /\ w.deleted = r.deleted /\ w.size = r.size /\ w.dirty = r.dirty /\ w.nData = r.nData - 1
      /\ w = [here |-> w.here, dir |-> w.dir, hdr |-> w.hdr, size |-> w.size, tnode |-> w.tnode,
              nData |-> w.nData, deleted |-> w.deleted, dirty |-> w.dirty]
  BY <1>1, <1>2 DEF Objects
<1>4. r.nData - 1 \in Int
  BY <1>1, ObjectFields
<1>5. w \in Objects
  <2>1. /\ w.here \in BOOLEAN /\ w.dir \in Dirs /\ w.hdr \in Addr \cup {None}
        /\ w.size \in 0 .. FileChunks /\ w.tnode \in [1 .. FileChunks -> Addr \cup {None}]
        /\ w.nData \in Int /\ w.deleted \in BOOLEAN /\ w.dirty \in BOOLEAN
    BY <1>1, <1>3, <1>4, ObjectFields
  <2>2. QED
    BY <1>3, <2>1 DEF Objects
<1>6. q = [o EXCEPT ![f] = w]
  BY <1>1, <1>2 DEF NDataLess
<1>7. q \in [Files -> Objects] /\ q[f] = w /\ \A h \in Files \ {f} : q[h] = o[h]
  BY <1>5, <1>6
<1>8. QED
  BY <1>1, <1>3, <1>7 DEF SameFiles

(* The chunk that the collector looks at.                                  *)
LEMMA CollectingFacts ==
  ASSUME GutsInv, Collecting
  PROVE  /\ mounted /\ gcBlock \in Blocks
         /\ dev.blk[gcBlock].state = "collecting"
         /\ OldChunk \in Addr /\ OldChunk[1] = gcBlock
         /\ OldChunk[2] \in dev.blk[gcBlock].bits
         /\ OldOwned => /\ Tag(OldChunk) \in PagesOfLog
                        /\ obj[Tag(OldChunk).file].here
         /\ (OldOwned => OldSoftDeleted) => OldChunk[2] \notin Held(obj, gcBlock)
<1>1. mounted /\ gcBlock # None /\ dev.blk[gcBlock].state = "collecting"
  BY DEF Collecting, Quiet
<1>2. /\ nand \in Flash /\ obj \in [Files -> Objects] /\ gcBlock \in Blocks
      /\ DevOk(dev, obj, nand, gcBlock) /\ DeletedOk(obj)
  BY <1>1, InMemory
<1>3. PICK b \in Blocks : b = gcBlock
  BY <1>2
<1>4. dev \in Devices /\ HeldOk(obj, dev, nand) /\ BlockOk(dev, obj, gcBlock, b)
  BY <1>2 DEF DevOk
<1>5. PICK B : B = dev.blk[b].bits /\ B \in SUBSET Pages /\ B # {}
  <2>1. dev.blk[b] \in BlockInfos
    BY <1>4, DeviceFields
  <2>2. dev.blk[b].bits # {}
    BY <1>1, <1>3, <1>4 DEF BlockOk
  <2>3. QED
    BY <2>1, <2>2, BlockFields
<1>6. PICK p : p = Min(B) /\ p \in B
  <2>1. B \in SUBSET Nat
    BY <1>5, Geometry DEF Pages
  <2>2. QED
    BY <1>5, <2>1, MinLemma
<1>7. PICK c : c = <<b, p>>
  OBVIOUS
<1>8. OldChunk = c /\ c \in Addr /\ c[1] = b /\ c[2] = p
  BY <1>3, <1>5, <1>6, <1>7 DEF OldChunk, Addr
<1>9. ASSUME OldOwned PROVE Tag(OldChunk) \in PagesOfLog /\ obj[Tag(OldChunk).file].here
  <2>1. p <= Len(nand[b]) /\ nand[b][p] # Torn
    BY <1>8, <1>9 DEF OldOwned, Readable
  <2>2. nand[b] \in Seq(PagesOfLog \cup {Torn}) /\ p \in Nat /\ p >= 1
    BY <1>2, <1>5, <1>6, Geometry DEF Flash, Pages
  <2>3. Len(nand[b]) \in Nat /\ p \in 1 .. Len(nand[b])
    BY <2>1, <2>2, LenProperties
  <2>4. nand[b][p] \in PagesOfLog
    BY <2>1, <2>2, <2>3, ElementOfSeq
  <2>5. QED
    BY <1>8, <1>9, <2>4 DEF OldOwned, Tag
<1>10. ASSUME OldOwned => OldSoftDeleted, p \in Held(obj, b) PROVE FALSE
  <2>1. PICK f \in Files, k \in 0 .. FileChunks : Own(obj, f, k) = <<b, p>>
    BY <1>10 DEF Held
  <2>2. /\ obj[f].here /\ c[2] <= Len(nand[c[1]]) /\ nand[c[1]][c[2]] # Torn
        /\ nand[c[1]][c[2]].file = f /\ nand[c[1]][c[2]].chunk = k
    BY <1>4, <1>7, <1>8, <2>1, OwnTag
  <2>3. OldOwned
    BY <1>8, <2>2 DEF OldOwned, Readable, Tag
  <2>4. obj[f].deleted /\ k # 0
    BY <1>8, <1>10, <2>2, <2>3 DEF OldSoftDeleted, Tag
  <2>5. k \in 1 .. FileChunks
    BY <2>4, Geometry
  <2>6. Own(obj, f, k) = None
    BY <1>2, <2>4, <2>5 DEF DeletedOk, Own
  <2>7. QED
    BY <1>7, <1>8, <2>1, <2>6, Distinct
<1>11. QED
  BY <1>1, <1>3, <1>5, <1>6, <1>8, <1>9, <1>10

LEMMA GcDropStep ==
  ASSUME GutsInv, GcDrop
  PROVE  GutsInv'
<1>1. Collecting /\ (OldOwned => OldSoftDeleted)
  BY DEF GcDrop
<1>2. /\ mounted /\ gcBlock \in Blocks /\ dev.blk[gcBlock].state = "collecting"
      /\ OldChunk \in Addr /\ OldChunk[1] = gcBlock /\ OldChunk[2] \in dev.blk[gcBlock].bits
      /\ OldOwned => Tag(OldChunk) \in PagesOfLog
      /\ OldChunk[2] \notin Held(obj, gcBlock)
  BY <1>1, CollectingFacts
<1>3. /\ nand \in Flash /\ nseq \in [Blocks -> Nat]
      /\ obj \in [Files -> Objects] /\ todo \in Seq(Ops) /\ gcBlock \in Blocks \cup {None}
      /\ DevOk(dev, obj, nand, gcBlock) /\ DeletedOk(obj) /\ TodoOk(todo, obj, gcBlock)
  BY <1>2, InMemory
<1>4. mounted' /\ nand' = nand /\ nseq' = nseq /\ todo' = todo /\ gcBlock' = gcBlock
  BY <1>2 DEF GcDrop
<1>5. PICK c \in Addr : c = OldChunk
  BY <1>2
<1>6. PICK e : e = DeleteChunk(dev, c)
  OBVIOUS
<1>7. dev' = e
  BY <1>5, <1>6 DEF GcDrop
<1>8. Spare(dev, obj, c)
  BY <1>2, <1>5 DEF Spare
<1>9. DevOk(e, obj, nand, gcBlock)
  BY <1>3, <1>6, <1>8, DeleteOk
<1>10. CASE ~OldOwned
  <2>1. obj' = obj
    BY <1>10 DEF GcDrop
  <2>2. QED
    BY <1>3, <1>4, <1>7, <1>9, <2>1, InMemoryAgain
<1>11. CASE OldOwned
  <2>1. PICK f \in Files : f = Tag(OldChunk).file
    BY <1>2, <1>11 DEF PagesOfLog
  <2>2. PICK q : q = NDataLess(obj, f)
    OBVIOUS
  <2>3. obj' = q
    BY <1>11, <2>1, <2>2 DEF GcDrop, NDataLess
  <2>4. /\ q \in [Files -> Objects] /\ SameFiles(obj, q)
        /\ \A h \in Files : q[h].tnode = obj[h].tnode /\ q[h].hdr = obj[h].hdr
    BY <1>3, <2>2, NDataObject
  <2>5. \A h \in Files : q[h].here = obj[h].here /\ q[h].hdr = obj[h].hdr /\ q[h].tnode = obj[h].tnode
    BY <2>4 DEF SameFiles
  <2>6. DevOk(e, q, nand, gcBlock)
    BY <1>3, <1>9, <2>4, <2>5, SameOwnOk
  <2>7. DeletedOk(q)
    BY <1>3, <2>4 DEF DeletedOk, SameFiles
  <2>8. TodoOk(todo, q, gcBlock)
    BY <1>3, <2>4, SameFilesOk
  <2>9. QED
    BY <1>3, <1>4, <1>7, <2>3, <2>4, <2>6, <2>7, <2>8, InMemoryAgain
<1>12. QED
  BY <1>10, <1>11

(* Finding a block and taking a page of it leave the other blocks alone.   *)
LEMMA ReadyBlocks ==
  ASSUME NEW d \in Devices, NEW y \in Blocks, d.blk[y].state # "empty"
  PROVE  Ready(d).blk[y] = d.blk[y]
<1> DEFINE empty == InState(d.blk, {"empty"})
           x == CHOOSE z \in empty : \A w \in empty : z <= w
<1>1. CASE d.alloc # None \/ d.erased < 1 \/ empty = {}
  BY <1>1 DEF Ready, FindBlockForAllocation
<1>2. CASE d.alloc = None /\ ~(d.erased < 1) /\ empty # {}
  <2>1. empty \in SUBSET Nat /\ empty \subseteq Blocks
    BY Geometry DEF InState
  <2>2. x \in empty
    BY <1>2, <2>1, LeastLemma
  <2>3. PICK b \in Blocks : b = x /\ d.blk[b].state = "empty"
    BY <2>1, <2>2 DEF InState
  <2>4. Ready(d) = [d EXCEPT !.alloc = b, !.page = 1, !.seq = @ + 1, !.erased = @ - 1,
                             !.blk[b].state = "allocating", !.blk[b].seq = d.seq + 1]
    BY <1>2, <2>3 DEF Ready, FindBlockForAllocation
  <2>5. y # b
    BY <2>3
  <2>6. QED
    BY <2>4, <2>5 DEF Devices
<1>3. QED
  BY <1>1, <1>2

LEMMA AllocatedBlocks ==
  ASSUME NEW d \in Devices, NEW y \in Blocks, y # d.alloc
  PROVE  Allocated(d).blk[y] = d.blk[y]
BY DEF Allocated, Devices

CopyOf(o, f, k, c) ==
  IF k = 0 THEN [o EXCEPT ![f].hdr = c] ELSE [o EXCEPT ![f].tnode[k] = c]

LEMMA CopyObject ==
  ASSUME NEW o \in [Files -> Objects], NEW f \in Files, NEW k \in 0 .. FileChunks, NEW c \in Addr,
         NEW q, q = CopyOf(o, f, k, c)
  PROVE  /\ q \in [Files -> Objects] /\ SameFiles(o, q)
         /\ \A h \in Files, j \in 0 .. FileChunks :
               Own(q, h, j) = IF h = f /\ j = k THEN c ELSE Own(o, h, j)
<1>1. PICK r : r = o[f] /\ r \in Objects
  OBVIOUS
<1>2. r.tnode \in [1 .. FileChunks -> Addr \cup {None}]
  BY <1>1, ObjectFields
<1>3. \A j \in 0 .. FileChunks : j # 0 => j \in 1 .. FileChunks
  BY Geometry
<1>4. CASE k = 0
  <2>1. PICK w : w = [r EXCEPT !.hdr = c]
    OBVIOUS
  <2>2. /\ w \in Objects /\ w.here = r.here /\ w.dir = r.dir /\ w.hdr = c /\ w.tnode = r.tnode
        /\ w.deleted = r.deleted
    BY <1>1, <2>1 DEF Objects
  <2>3. q = [o EXCEPT ![f] = w]
    BY <1>1, <1>4, <2>1 DEF CopyOf
  <2>4. q \in [Files -> Objects] /\ q[f] = w /\ \A h \in Files \ {f} : q[h] = o[h]
    BY <2>2, <2>3
  <2>5. SameFiles(o, q)
    BY <1>1, <2>2, <2>4 DEF SameFiles
  <2>6. \A h \in Files, j \in 0 .. FileChunks :
           Own(q, h, j) = IF h = f /\ j = k THEN c ELSE Own(o, h, j)
    BY <1>1, <1>4, <2>2, <2>4 DEF Own
  <2>7. QED
    BY <2>4, <2>5, <2>6
<1>5. CASE k # 0
  <2>1. PICK t \in [1 .. FileChunks -> Addr \cup {None}] : t = [r.tnode EXCEPT ![k] = c]
    BY <1>2
  <2>2. PICK w : w = [r EXCEPT !.tnode = t]
    OBVIOUS
  <2>3. /\ w \in Objects /\ w.here = r.here /\ w.dir = r.dir /\ w.hdr = r.hdr /\ w.tnode = t
        /\ w.deleted = r.deleted
    BY <1>1, <2>2 DEF Objects
  <2>4. w = [r EXCEPT !.tnode[k] = c]
    BY <1>1, <2>1, <2>2 DEF Objects
  <2>5. q = [o EXCEPT ![f] = w]
    BY <1>1, <1>5, <2>4 DEF CopyOf
  <2>6. q \in [Files -> Objects] /\ q[f] = w /\ \A h \in Files \ {f} : q[h] = o[h]
    BY <2>3, <2>5
  <2>7. SameFiles(o, q)
    BY <1>1, <2>3, <2>6 DEF SameFiles
  <2>8. \A j \in 1 .. FileChunks : t[j] = IF j = k THEN c ELSE r.tnode[j]
    BY <1>2, <1>3, <1>5, <2>1
  <2>9. ASSUME NEW h \in Files, NEW j \in 0 .. FileChunks
        PROVE  Own(q, h, j) = IF h = f /\ j = k THEN c ELSE Own(o, h, j)
    <3>1. CASE h = f /\ j # 0
      <4>1. Own(q, h, j) = t[j] /\ Own(o, h, j) = r.tnode[j]
        BY <1>1, <2>3, <2>6, <3>1 DEF Own
      <4>2. QED
        BY <1>3, <2>8, <3>1, <4>1
    <3>2. CASE h = f /\ j = 0
      BY <1>1, <1>5, <2>3, <2>6, <3>2 DEF Own
    <3>3. CASE h # f
      BY <2>6, <3>3 DEF Own
    <3>4. QED
      BY <3>1, <3>2, <3>3
  <2>10. QED
    BY <2>6, <2>7, <2>9
<1>6. QED
  BY <1>4, <1>5

LEMMA CopiedType ==
  ASSUME NEW t \in PagesOfLog
  PROVE  Copied(t) \in PagesOfLog /\ Copied(t).file = t.file /\ Copied(t).chunk = t.chunk
         /\ t.file \in Files /\ t.chunk \in 0 .. FileChunks
BY DEF PagesOfLog, Copied

LEMMA GcCopyStep ==
  ASSUME GutsInv, GcCopy, ReserveSuffices
  PROVE  GutsInv'
<1>1. Collecting /\ OldOwned /\ ~OldSoftDeleted
  BY DEF GcCopy
<1>2. /\ mounted /\ gcBlock \in Blocks /\ dev.blk[gcBlock].state = "collecting"
      /\ OldChunk \in Addr /\ OldChunk[1] = gcBlock /\ OldChunk[2] \in dev.blk[gcBlock].bits
      /\ Tag(OldChunk) \in PagesOfLog /\ obj[Tag(OldChunk).file].here
  BY <1>1, CollectingFacts
<1>3. /\ nand \in Flash /\ nseq \in [Blocks -> Nat]
      /\ obj \in [Files -> Objects] /\ todo \in Seq(Ops) /\ gcBlock \in Blocks \cup {None}
      /\ DevOk(dev, obj, nand, gcBlock) /\ DeletedOk(obj) /\ TodoOk(todo, obj, gcBlock)
  BY <1>2, InMemory
<1>4. PICK b \in Blocks : b = gcBlock
  BY <1>2
<1>5. PICK a \in Addr : a = OldChunk
  BY <1>2
<1>6. PICK t \in PagesOfLog : t = Tag(OldChunk)
  BY <1>2
<1>7. PICK f \in Files, k \in 0 .. FileChunks : f = t.file /\ k = t.chunk
  BY CopiedType
<1>8. PICK d : d = Ready(dev)
  OBVIOUS
<1>9. DevOk(d, obj, nand, b) /\ d \in Devices /\ AllocOk(d, nand)
  BY <1>3, <1>4, <1>8, ReadyOk DEF DevOk
<1>10. Fits(d, TRUE) /\ d.alloc # None
  BY <1>1, <1>8 DEF ReserveSuffices, Fits
<1>11. PICK c : c = NextChunk(d)
  OBVIOUS
<1>12. PICK page : page = Copied(t)
  OBVIOUS
<1>13. PICK m : m = Programmed(nand, d.alloc, page)
  OBVIOUS
<1>14. PICK s : s = [nseq EXCEPT ![d.alloc] = d.seq]
  OBVIOUS
<1>15. PICK w : w = Allocated(d)
  OBVIOUS
<1>16. PICK e : e = DeleteChunk(w, a)
  OBVIOUS
<1>17. PICK q : q = CopyOf(obj, f, k, c)
  OBVIOUS
<1>18. /\ mounted' /\ todo' = todo /\ gcBlock' = b
       /\ d.page > Len(nand[d.alloc]) /\ nand' = m /\ nseq' = s /\ dev' = e
  BY <1>2, <1>4, <1>5, <1>6, <1>8, <1>10, <1>12, <1>13, <1>14, <1>15, <1>16
  DEF GcCopy, Erased, Program, Programmed
<1>19. obj' = q
  BY <1>6, <1>7, <1>8, <1>10, <1>11, <1>17 DEF GcCopy, CopyOf
<1>20. page \in PagesOfLog /\ page.file = f /\ page.chunk = k
  BY <1>7, <1>12, CopiedType
<1>21. d.alloc \in Blocks /\ d.seq \in Nat
  BY <1>9, <1>10, DeviceFields
<1>22. c \in Addr /\ c[1] = d.alloc
  BY <1>9, <1>10, <1>11, <1>21 DEF AllocOk, NextChunk, Addr
<1>23. /\ q \in [Files -> Objects] /\ SameFiles(obj, q)
       /\ \A h \in Files, j \in 0 .. FileChunks :
             Own(q, h, j) = IF h = f /\ j = k THEN c ELSE Own(obj, h, j)
  BY <1>3, <1>17, <1>22, CopyObject
<1>24. Moved(obj, q, f, k, c)
  BY <1>2, <1>6, <1>7, <1>23 DEF Moved, SameFiles
<1>25. /\ m \in Flash /\ DevOk(w, q, m, b)
       /\ \A z \in Addr : /\ z # c /\ z[2] \in w.blk[z[1]].bits
                          /\ w.blk[z[1]].state = "collecting"
                          /\ m[z[1]][z[2]].file = f /\ m[z[1]][z[2]].chunk = k
                          => Spare(w, q, z)
  BY <1>3, <1>9, <1>10, <1>11, <1>13, <1>15, <1>18, <1>20, <1>23, <1>24, WrittenOk
<1>26. d.alloc # b
  <2>1. dev \in Devices
    BY <1>3 DEF DevOk
  <2>2. d.blk[b] = dev.blk[b]
    BY <1>2, <1>4, <1>8, <2>1, ReadyBlocks
  <2>3. d.blk[d.alloc].state = "allocating"
    BY <1>9, <1>10 DEF AllocOk
  <2>4. QED
    BY <1>2, <1>4, <2>2, <2>3
<1>27. w.blk[b] = dev.blk[b]
  <2>1. dev \in Devices
    BY <1>3 DEF DevOk
  <2>2. d.blk[b] = dev.blk[b]
    BY <1>2, <1>4, <1>8, <2>1, ReadyBlocks
  <2>3. w.blk[b] = d.blk[b]
    BY <1>9, <1>15, <1>26, AllocatedBlocks
  <2>4. QED
    BY <2>2, <2>3
<1>28. m[b] = nand[b]
  BY <1>3, <1>13, <1>26 DEF Programmed, Flash
<1>29. Spare(w, q, a)
  <2>1. a # c
    BY <1>2, <1>4, <1>5, <1>22, <1>26
  <2>2. a[2] \in w.blk[a[1]].bits /\ w.blk[a[1]].state = "collecting"
    BY <1>2, <1>4, <1>5, <1>27
  <2>3. m[a[1]][a[2]] = t
    BY <1>2, <1>4, <1>5, <1>6, <1>28 DEF Tag
  <2>4. QED
    BY <1>7, <1>25, <2>1, <2>2, <2>3
<1>30. DevOk(e, q, m, b)
  BY <1>16, <1>23, <1>25, <1>29, DeleteOk
<1>31. s \in [Blocks -> Nat]
  BY <1>3, <1>14, <1>21
<1>32. DeletedOk(q)
  <2>1. ASSUME NEW h \in Files, q[h].deleted, NEW j \in 1 .. FileChunks PROVE q[h].tnode[j] = None
    <3>1. obj[h].deleted
      BY <1>23, <2>1 DEF SameFiles
    <3>2. ~(h = f /\ j = k)
      <4>1. h = f => k = 0
        BY <1>1, <1>6, <1>7, <3>1 DEF OldSoftDeleted
      <4>2. j # 0
        BY Geometry
      <4>3. QED
        BY <4>1, <4>2
    <3>3. j # 0 /\ j \in 0 .. FileChunks
      BY Geometry
    <3>4. Own(q, h, j) = Own(obj, h, j)
      BY <1>23, <3>2, <3>3
    <3>5. QED
      BY <1>3, <3>1, <3>3, <3>4 DEF Own, DeletedOk
  <2>2. QED
    BY <2>1 DEF DeletedOk
<1>33. TodoOk(todo, q, b)
  BY <1>3, <1>4, <1>23, SameFilesOk
<1>34. QED
  BY <1>2, <1>3, <1>18, <1>19, <1>23, <1>25, <1>30, <1>31, <1>32, <1>33, InMemoryAgain

(* Sequences put in front of one another, one for each element of a set.   *)
Strung(D, base, S, it) ==
  \A s \in SUBSET S :
    it[s] = IF s = {} THEN base ELSE D[Chosen(s)] \o it[s \ {Chosen(s)}]

IsString(D, base, S, it) == it \in [SUBSET S -> Seq(Ops)] /\ Strung(D, base, S, it)

LEMMA StringExists ==
  ASSUME NEW S, IsFiniteSet(S), NEW D, \A x \in S : D[x] \in Seq(Ops), NEW base \in Seq(Ops)
  PROVE  \E it : IsString(D, base, S, it)
<1> DEFINE Next1(f, s) == IF s = {} THEN base ELSE D[Chosen(s)] \o f[s \ {Chosen(s)}]
           F == [SUBSET S -> Seq(Ops)]
           Good(f, T) == \A s \in SUBSET S : Cardinality(s) <= Cardinality(T) => f[s] = Next1(f, s)
           G == {T \in SUBSET S : \E f \in F : Good(f, T)}
<1>1. \A s \in SUBSET S : s # {} => Chosen(s) \in s /\ s \ {Chosen(s)} \in SUBSET S
  BY ChosenIn
<1>2. \A s \in SUBSET S : IsFiniteSet(s) /\ Cardinality(s) \in Nat
  BY FS_Subset, FS_CardinalityType
<1>3. \A s \in SUBSET S : s # {} => Cardinality(s \ {Chosen(s)}) = Cardinality(s) - 1
  BY <1>1, <1>2, FS_RemoveElement
<1>4. ASSUME NEW f \in F PROVE [s \in SUBSET S |-> Next1(f, s)] \in F
  <2>1. ASSUME NEW s \in SUBSET S PROVE Next1(f, s) \in Seq(Ops)
    <3>1. CASE s = {}
      BY <3>1
    <3>2. CASE s # {}
      <4>1. D[Chosen(s)] \in Seq(Ops) /\ f[s \ {Chosen(s)}] \in Seq(Ops)
        BY <1>1, <3>2
      <4>2. QED
        BY <3>2, <4>1, ConcatProperties
    <3>3. QED
      BY <3>1, <3>2
  <2>2. QED
    BY <2>1
<1>5. {} \in G
  <2>1. [s \in SUBSET S |-> base] \in F
    OBVIOUS
  <2>2. PICK f \in F : f = [s \in SUBSET S |-> base]
    BY <2>1
  <2>3. ASSUME NEW s \in SUBSET S, Cardinality(s) <= Cardinality({}) PROVE f[s] = Next1(f, s)
    <3>1. s = {}
      BY <1>2, <2>3, FS_EmptySet
    <3>2. QED
      BY <2>2, <3>1
  <2>4. Good(f, {})
    BY <2>3
  <2>5. QED
    BY <2>2, <2>4
<1>6. ASSUME NEW T \in SUBSET S, NEW x \in S, T \in G, x \notin T PROVE T \cup {x} \in G
  <2>1. PICK f \in F : Good(f, T)
    BY <1>6
  <2>2. PICK h \in F : h = [s \in SUBSET S |-> Next1(f, s)]
    BY <1>4
  <2>3. Cardinality(T \cup {x}) = Cardinality(T) + 1 /\ Cardinality(T) \in Nat
    BY <1>2, <1>6, FS_AddElement
  <2>4. ASSUME NEW s \in SUBSET S, Cardinality(s) <= Cardinality(T \cup {x})
        PROVE  h[s] = Next1(h, s)
    <3>1. CASE s = {}
      BY <2>2, <3>1
    <3>2. CASE s # {}
      <4>1. PICK r \in SUBSET S : r = s \ {Chosen(s)}
        BY <1>1, <3>2
      <4>2. Cardinality(r) <= Cardinality(T)
        <5>1. PICK i, j, k \in Nat : i = Cardinality(r) /\ j = Cardinality(s) /\ k = Cardinality(T)
          BY <1>2, <2>3, FS_CardinalityType, FS_Subset
        <5>2. j <= k + 1
          BY ONLY <2>3, <2>4, <5>1
        <5>3. i < j
          BY <1>2, <1>3, <3>2, <4>1, <5>1
        <5>4. i <= k
          BY ONLY <5>2, <5>3
        <5>5. QED
          BY ONLY <5>1, <5>4
      <4>3. f[r] = Next1(f, r)
        BY <2>1, <4>2
      <4>4. h[r] = f[r]
        <5>1. h[r] = Next1(f, r)
          BY <2>2
        <5>2. QED
          BY <4>3, <5>1
      <4>5. h[s] = D[Chosen(s)] \o f[r]
        BY <2>2, <3>2, <4>1
      <4>6. h[s] = D[Chosen(s)] \o h[r]
        BY <4>4, <4>5
      <4>7. QED
        BY <3>2, <4>1, <4>6
    <3>3. QED
      BY <3>1, <3>2
  <2>5. Good(h, T \cup {x})
    BY <2>4
  <2>6. T \cup {x} \in SUBSET S
    OBVIOUS
  <2>7. QED
    BY <2>2, <2>5, <2>6
<1>7. S \in G
  <2> HIDE DEF G
  <2>1. QED
    BY <1>5, <1>6, SetInduction
<1>8. PICK f \in F : Good(f, S)
  BY <1>7
<1>9. ASSUME NEW s \in SUBSET S PROVE f[s] = Next1(f, s)
  <2>1. Cardinality(s) <= Cardinality(S)
    BY FS_Subset
  <2>2. QED
    BY <1>8, <2>1
<1>10. IsString(D, base, S, f)
  BY <1>9 DEF IsString, Strung
<1>11. QED
  BY <1>10

(* What yaffs_DoGenericObjectDeletion has left to do.                      *)
Removal(f) == {<<Op("remove", f)>>, <<UpdateObjectHeader(f, TRUE), Op("remove", f)>>}

LEMMA RemovalType ==
  ASSUME NEW f \in Files
  PROVE  Removal(f) \subseteq Seq(Ops) /\ DoGenericObjectDeletion(f, <<>>) \in Removal(f)
<1>1. PICK y, z \in Ops : y = UpdateObjectHeader(f, TRUE) /\ z = Op("remove", f)
  <2>1. UpdateObjectHeader(f, TRUE) \in Ops
    BY OpType
  <2>2. Op("remove", f) \in Ops
    BY OpType DEF Steps
  <2>3. QED
    BY <2>1, <2>2
<1>2. Removal(f) = {<<z>>, <<y, z>>}
  BY <1>1 DEF Removal
<1>3. <<z>> \in Seq(Ops) /\ <<y, z>> \in Seq(Ops)
  OBVIOUS
<1>4. PICK e : e = <<y, z>>
  OBVIOUS
<1>5. <<>> \o e = e
  BY <1>3, <1>4, ConcatEmptySeq
<1>6. DoGenericObjectDeletion(f, <<>>) = <<z>> \/ DoGenericObjectDeletion(f, <<>>) = <<>> \o e
  BY <1>1, <1>4 DEF DoGenericObjectDeletion
<1>7. QED
  BY <1>2, <1>3, <1>4, <1>5, <1>6

LEMMA RemovalOk ==
  ASSUME NEW f \in Files, NEW o \in [Files -> Objects], o[f].here, o[f].dir = "deleted",
         NEW y \in Removal(f)
  PROVE  /\ y \in Seq(Ops) /\ TodoOk(y, o, None) /\ Only(y, {f})
         /\ \A i \in DOMAIN y : Closing(y, i, o)
<1>1. PICK e : e = <<UpdateObjectHeader(f, TRUE), Op("remove", f)>>
  OBVIOUS
<1>2. e \in Seq(Ops)
  BY <1>1, RemovalType DEF Removal
<1>3. PICK x : x = <<>> /\ x \o e = e
  BY <1>2, ConcatEmptySeq
<1>4. y = <<Op("remove", f)>> \/ y = x \o <<UpdateObjectHeader(f, TRUE), Op("remove", f)>>
  BY <1>1, <1>3 DEF Removal
<1>5. QED
  BY <1>3, <1>4, DeletionOk

(* The deletions at the end of a collection, in front of what is to do.    *)
LEMMA DeletionsOk ==
  ASSUME NEW o \in [Files -> Objects], NEW S \in SUBSET Files,
         \A f \in S : o[f].here /\ o[f].deleted /\ o[f].dir = "deleted",
         NEW t \in Seq(Ops), TodoOk(t, o, None), NoneDeleted(t, o),
         NEW D, \A f \in S : D[f] \in Removal(f), NEW it, Strung(D, t, S, it)
  PROVE  it[S] \in Seq(Ops) /\ TodoOk(it[S], o, None)
<1> DEFINE Rest1 == {f \in Files : ~o[f].deleted}
           G == {s \in SUBSET S : it[s] \in Seq(Ops) /\ TodoOk(it[s], o, None) /\ Only(it[s], s \cup Rest1)}
<1>1. IsFiniteSet(S)
  BY Geometry, FS_Subset
<1>2. ASSUME NEW f \in S
      PROVE  /\ D[f] \in Seq(Ops) /\ TodoOk(D[f], o, None) /\ Only(D[f], {f})
             /\ \A i \in DOMAIN D[f] : Closing(D[f], i, o)
  <2>1. PICK y : y = D[f] /\ y \in Removal(f)
    OBVIOUS
  <2>2. f \in Files /\ o[f].here /\ o[f].dir = "deleted"
    OBVIOUS
  <2>3. QED
    BY <2>1, <2>2, RemovalOk
<1>3. ASSUME NEW s \in SUBSET S, \A x \in s : s \ {x} \in G PROVE s \in G
  <2>1. CASE s = {}
    <3>1. it[s] = t
      BY <2>1 DEF Strung
    <3>2. Only(t, Rest1)
      <4>1. ASSUME NEW i \in DOMAIN t, On(t, i) PROVE t[i].file \in Rest1
        BY <4>1, StepOk DEF NoneDeleted
      <4>2. QED
        BY <4>1 DEF Only
    <3>3. QED
      BY <2>1, <3>1, <3>2
  <2>2. CASE s # {}
    <3>1. PICK f \in s : f = Chosen(s)
      BY <2>2, ChosenIn
    <3>2. PICK r, y : r = it[s \ {f}] /\ y = D[f]
      OBVIOUS
    <3>3. it[s] = y \o r
      BY <2>2, <3>1, <3>2 DEF Strung
    <3>4. r \in Seq(Ops) /\ TodoOk(r, o, None) /\ Only(r, (s \ {f}) \cup Rest1)
      BY <1>3, <3>2
    <3>5. /\ y \in Seq(Ops) /\ TodoOk(y, o, None) /\ Only(y, {f})
          /\ \A i \in DOMAIN y : Closing(y, i, o)
      BY <1>2, <3>2
    <3>6. f \notin (s \ {f}) \cup Rest1
      OBVIOUS
    <3>7. \A i \in DOMAIN y, j \in DOMAIN r : On(y, i) /\ On(r, j) => y[i].file # r[j].file
      BY <3>4, <3>5, <3>6 DEF Only
    <3>8. y \o r \in Seq(Ops) /\ TodoOk(y \o r, o, None)
      BY <3>4, <3>5, <3>7, ConcatOk
    <3>9. Only(y, s \cup Rest1) /\ Only(r, s \cup Rest1)
      BY <3>4, <3>5 DEF Only
    <3>10. Only(y \o r, s \cup Rest1)
      BY <3>4, <3>5, <3>9, ConcatOnly
    <3>11. QED
      BY <3>3, <3>8, <3>10
  <2>3. QED
    BY <2>1, <2>2
<1> HIDE DEF G
<1>4. \A s \in SUBSET S : s \in G
  BY <1>1, <1>3, SubsetInduction
<1>5. QED
  BY <1>4 DEF G

(* The steps in front of what is to do, one file after the other.          *)
LEMMA CleanupStrung ==
  ASSUME GcCleanup, todo \in Seq(Ops),
         NEW S, S = {f \in Files : obj[f].here /\ obj[f].deleted /\ obj[f].nData = 0}
  PROVE  \E D, it : /\ \A f \in S : D[f] = DoGenericObjectDeletion(f, <<>>)
                    /\ Strung(D, todo, S, it) /\ todo' = it[S]
<1>7. PICK D : D = [f \in S |-> DoGenericObjectDeletion(f, <<>>)]
  OBVIOUS
<1> DEFINE Strings(it) ==
      it = [s \in SUBSET S |->
              IF s = {} THEN todo
              ELSE LET x == CHOOSE x \in s : TRUE
                   IN DoGenericObjectDeletion(x, <<>>) \o it[s \ {x}]]
<1>8. todo' = (CHOOSE it : Strings(it))[S]
  BY DEF GcCleanup, FoldSet, MapThenFoldSet
<1>9. \A f \in S : /\ f \in Files /\ obj[f].here /\ obj[f].deleted
                   /\ D[f] = DoGenericObjectDeletion(f, <<>>)
  BY <1>7
<1>10. \A f \in S : D[f] \in Removal(f)
  BY <1>9, RemovalType
<1>11. \A f \in S : D[f] \in Seq(Ops)
  BY <1>9, <1>10, RemovalType
<1>12. IsFiniteSet(S) /\ S \in SUBSET Files
  BY Geometry, FS_Subset
<1>13. PICK jt : IsString(D, todo, S, jt)
  BY <1>11, <1>12, StringExists
<1>14. \A s \in SUBSET S : s # {} => Chosen(s) \in S /\ s \ {Chosen(s)} \in SUBSET S
  BY ChosenIn
<1>15. Strings(jt)
  <2>1. ASSUME NEW s \in SUBSET S
        PROVE  jt[s] = IF s = {} THEN todo
                       ELSE LET x == CHOOSE x \in s : TRUE
                            IN DoGenericObjectDeletion(x, <<>>) \o jt[s \ {x}]
    <3>1. jt[s] = IF s = {} THEN todo ELSE D[Chosen(s)] \o jt[s \ {Chosen(s)}]
      BY <1>13 DEF IsString, Strung
    <3>2. s # {} => D[Chosen(s)] = DoGenericObjectDeletion(Chosen(s), <<>>)
      BY <1>9, <1>14
    <3>3. QED
      BY <3>1, <3>2 DEF Chosen
  <2>2. jt \in [SUBSET S -> Seq(Ops)]
    BY <1>13 DEF IsString
  <2>3. QED
    BY <2>1, <2>2
<1>16. PICK it : it = (CHOOSE i : Strings(i)) /\ Strings(it)
  <2> HIDE DEF Strings
  <2>1. QED
    BY <1>15
<1>17. Strung(D, todo, S, it)
  <2> SUFFICES ASSUME NEW s \in SUBSET S
               PROVE  it[s] = IF s = {} THEN todo ELSE D[Chosen(s)] \o it[s \ {Chosen(s)}]
    BY DEF Strung
  <2>1. it[s] = IF s = {} THEN todo
                ELSE LET x == CHOOSE x \in s : TRUE
                     IN DoGenericObjectDeletion(x, <<>>) \o it[s \ {x}]
    BY <1>16
  <2>2. s # {} => D[Chosen(s)] = DoGenericObjectDeletion(Chosen(s), <<>>)
    BY <1>9, <1>14
  <2>3. QED
    BY <2>1, <2>2 DEF Chosen
<1>18. QED
  BY <1>8, <1>9, <1>16, <1>17

LEMMA GcCleanupStep ==
  ASSUME GutsInv, GcCleanup
  PROVE  GutsInv'
<1>1. mounted /\ gcBlock # None /\ dev.blk[gcBlock].state # "collecting"
  BY DEF GcCleanup, Quiet
<1>2. /\ nand \in Flash /\ nseq \in [Blocks -> Nat]
      /\ obj \in [Files -> Objects] /\ todo \in Seq(Ops) /\ gcBlock \in Blocks
      /\ DevOk(dev, obj, nand, gcBlock) /\ DeletedOk(obj) /\ TodoOk(todo, obj, gcBlock)
  BY <1>1, InMemory
<1>3. mounted' /\ nand' = nand /\ nseq' = nseq /\ dev' = dev /\ gcBlock' = None
  BY <1>1 DEF GcCleanup
<1>4. PICK S : S = {f \in Files : obj[f].here /\ obj[f].deleted /\ obj[f].nData = 0}
  OBVIOUS
<1>5. PICK q : q = [f \in Files |-> IF f \in S THEN [obj[f] EXCEPT !.dir = "deleted"] ELSE obj[f]]
  OBVIOUS
<1>6. obj' = q
  BY <1>4, <1>5 DEF GcCleanup
<1>7. PICK D, it : /\ \A f \in S : D[f] = DoGenericObjectDeletion(f, <<>>)
                   /\ Strung(D, todo, S, it) /\ todo' = it[S]
  BY <1>2, <1>4, CleanupStrung
<1>8. todo' = it[S] /\ Strung(D, todo, S, it)
  BY <1>7
<1>9. \A f \in S : /\ f \in Files /\ obj[f].here /\ obj[f].deleted
                   /\ D[f] = DoGenericObjectDeletion(f, <<>>)
  BY <1>4, <1>7
<1>10. \A f \in S : D[f] \in Removal(f)
  BY <1>9, RemovalType
<1>11. S \in SUBSET Files
  BY <1>4
<1>12. ASSUME NEW h \in Files
       PROVE  /\ q[h] \in Objects /\ q[h].here = obj[h].here /\ q[h].deleted = obj[h].deleted
              /\ q[h].hdr = obj[h].hdr /\ q[h].tnode = obj[h].tnode
              /\ h \in S => q[h].dir = "deleted"
              /\ h \notin S => q[h] = obj[h]
  <2>1. PICK r : r = obj[h] /\ r \in Objects
    BY <1>2
  <2>2. PICK w : w = [r EXCEPT !.dir = "deleted"]
    OBVIOUS
  <2>3. /\ w \in Objects /\ w.here = r.here /\ w.dir = "deleted" /\ w.hdr = r.hdr
        /\ w.tnode = r.tnode /\ w.deleted = r.deleted
    BY <2>1, <2>2 DEF Objects, Dirs
  <2>4. q[h] = IF h \in S THEN w ELSE r
    BY <1>5, <2>1, <2>2
  <2>5. QED
    BY <2>1, <2>3, <2>4
<1>13. q \in [Files -> Objects]
  BY <1>5, <1>12
<1>14. PICK t : t = todo
  OBVIOUS
<1>15. ASSUME NEW i \in DOMAIN t, On(t, i)
       PROVE  t[i].file \in Files /\ ~obj[t[i].file].deleted /\ t[i].file \notin S
  <2>1. t[i].file \in Files /\ ~obj[t[i].file].deleted
    BY <1>1, <1>2, <1>14, <1>15, StepOk
  <2>2. QED
    BY <1>9, <2>1
<1>16. TodoOk(t, q, None) /\ NoneDeleted(t, q)
  <2>1. NoneDeleted(t, obj)
    BY <1>15 DEF NoneDeleted
  <2>2. TodoOk(t, obj, None)
    BY <1>2, <1>14, <2>1, NoneDeletedOk
  <2>3. Alike(obj, q, t)
    BY <1>12, <1>15 DEF Alike
  <2>4. TodoOk(t, q, None)
    BY <1>2, <1>14, <2>2, <2>3, AlikeOk
  <2>5. NoneDeleted(t, q)
    BY <1>12, <1>15 DEF NoneDeleted
  <2>6. QED
    BY <2>4, <2>5
<1>17. \A f \in S : q[f].here /\ q[f].deleted /\ q[f].dir = "deleted"
  BY <1>9, <1>12
<1>18. PICK z : z = it[S] /\ z \in Seq(Ops) /\ TodoOk(z, q, None)
  <2>1. Strung(D, t, S, it)
    BY <1>8, <1>14
  <2>2. t \in Seq(Ops)
    BY <1>2, <1>14
  <2>3. /\ Strung(D, t, S, it) /\ t \in Seq(Ops) /\ TodoOk(t, q, None) /\ NoneDeleted(t, q)
        /\ q \in [Files -> Objects] /\ S \in SUBSET Files
        /\ (\A f \in S : q[f].here /\ q[f].deleted /\ q[f].dir = "deleted")
        /\ (\A f \in S : D[f] \in Removal(f))
    BY <1>10, <1>11, <1>13, <1>16, <1>17, <2>1, <2>2
  <2>4. it[S] \in Seq(Ops) /\ TodoOk(it[S], q, None)
    BY ONLY <2>3, DeletionsOk
  <2>5. QED
    BY <2>4
<1>19. todo' = z
  BY <1>8, <1>18
<1>20. DevOk(dev, q, nand, None)
  <2>1. \A h \in Files : q[h].here = obj[h].here /\ q[h].hdr = obj[h].hdr /\ q[h].tnode = obj[h].tnode
    BY <1>12
  <2>2. DevOk(dev, q, nand, gcBlock)
    BY <1>2, <1>13, <2>1, SameOwnOk
  <2>3. \A b \in Blocks : dev.blk[b].state # "collecting"
    BY <1>1, <2>2 DEF DevOk, BlockOk
  <2>4. QED
    BY <2>2, <2>3 DEF DevOk, BlockOk
<1>21. DeletedOk(q)
  BY <1>2, <1>12 DEF DeletedOk
<1>22. QED
  BY <1>2, <1>3, <1>6, <1>13, <1>18, <1>19, <1>20, <1>21, InMemoryAgain

-----------------------------------------------------------------------------
(* The scan of the flash.                                                  *)

LEMMA TagType ==
  ASSUME nand \in Flash, NEW c \in Readable
  PROVE  /\ c \in Addr /\ c[1] \in Blocks /\ c[2] \in Pages /\ c = <<c[1], c[2]>>
         /\ c[2] <= Len(nand[c[1]]) /\ nand[c[1]][c[2]] # Torn /\ Tag(c) = nand[c[1]][c[2]]
         /\ Tag(c) \in PagesOfLog /\ Tag(c).file \in Files /\ Tag(c).chunk \in 0 .. FileChunks
         /\ Tag(c).dir \in Dirs /\ Tag(c).size \in 0 .. FileChunks
<1>1. /\ c \in Addr /\ c[1] \in Blocks /\ c[2] \in Pages /\ c = <<c[1], c[2]>>
      /\ c[2] <= Len(nand[c[1]]) /\ nand[c[1]][c[2]] # Torn
  BY AddrPair DEF Readable
<1>2. PICK s \in Seq(PagesOfLog \cup {Torn}) : s = nand[c[1]]
  BY <1>1 DEF Flash
<1>3. c[2] \in 1 .. Len(s) /\ DOMAIN s = 1 .. Len(s)
  BY <1>1, <1>2, LenProperties DEF Pages
<1>4. s[c[2]] \in PagesOfLog \cup {Torn}
  BY <1>3, ElementOfSeq
<1>5. Tag(c) = s[c[2]]
  BY <1>2 DEF Tag
<1>6. Tag(c) \in PagesOfLog
  BY <1>1, <1>2, <1>4, <1>5
<1>7. QED
  BY <1>1, <1>2, <1>5, <1>6 DEF PagesOfLog

LEMMA LogReadable ==
  Log \subseteq Readable /\ Live \subseteq Log /\ \A c \in Log : NeedsScanning(c[1])
BY DEF Log, Live

LEMMA IntervalMax ==
  ASSUME NEW n \in Nat, NEW S \in SUBSET (0 .. n)
  PROVE  Max({0} \cup S) \in 0 .. n /\ Max({0} \cup S) \in {0} \cup S
         /\ \A x \in S : x <= Max({0} \cup S)
<1>1. PICK T : T = {0} \cup S
  OBVIOUS
<1>2. T \in SUBSET (0 .. n) /\ T \in SUBSET Int /\ T # {} /\ 0 \in Int /\ n \in Int
  BY <1>1
<1>3. IsFiniteSet(T)
  BY <1>2, FS_Interval, FS_Subset
<1>4. Max(T) \in T /\ \A y \in T : Max(T) >= y
  BY <1>2, <1>3, MaxLemma
<1>5. \A x \in S : x <= Max(T)
  BY <1>1, <1>2, <1>4
<1>6. QED
  BY <1>1, <1>2, <1>4, <1>5

LEMMA ScanSizeType ==
  ASSUME nand \in Flash, NEW f
  PROVE  ScanSize(f) \in 0 .. FileChunks
<1>1. PICK A : A = {Tag(h).size : h \in {c \in Log : IsHeaderOf(c, f)}}
  OBVIOUS
<1>2. PICK B : B = {Tag(c).chunk : c \in {d \in Log : /\ Tag(d).file = f
                                                      /\ ~\E h \in Log : IsHeaderOf(h, f) /\ Newer(h, d)}}
  OBVIOUS
<1>3. A \subseteq 0 .. FileChunks
  BY <1>1, TagType, LogReadable
<1>4. B \subseteq 0 .. FileChunks
  BY <1>2, TagType, LogReadable
<1>5. ScanSize(f) = Max({0} \cup A \cup B)
  BY <1>1, <1>2 DEF ScanSize
<1>6. {0} \cup A \cup B = {0} \cup (A \cup B)
  OBVIOUS
<1>7. FileChunks \in Nat
  BY Geometry
<1>8. PICK S \in SUBSET (0 .. FileChunks) : S = A \cup B
  BY <1>3, <1>4
<1>9. Max({0} \cup S) \in 0 .. FileChunks
  BY <1>7, IntervalMax
<1>10. QED
  BY <1>5, <1>6, <1>8, <1>9

LEMMA FoundOk ==
  ASSUME nand \in Flash, NEW f, NEW k
  PROVE  /\ Found(Live, f, k) \in Addr \cup {None}
         /\ Found(Live, f, k) # None =>
              /\ Found(Live, f, k) \in Live
              /\ Tag(Found(Live, f, k)).file = f /\ Tag(Found(Live, f, k)).chunk = k
<1>1. PICK C : C = {c \in Live : Tag(c).file = f /\ Tag(c).chunk = k}
  OBVIOUS
<1>2. Found(Live, f, k) = IF C = {} THEN None ELSE CHOOSE c \in C : TRUE
  BY <1>1 DEF Found
<1>3. C # {} => Found(Live, f, k) \in C
  BY <1>2
<1>4. \A c \in C : c \in Live /\ Tag(c).file = f /\ Tag(c).chunk = k /\ c \in Addr
  BY <1>1, TagType, LogReadable
<1>5. QED
  BY <1>2, <1>3, <1>4

LEMMA LastSeqType ==
  ASSUME nseq \in [Blocks -> Nat]
  PROVE  LastSeq \in Nat
<1>1. PICK S : S = {x \in Blocks : NeedsScanning(x)}
  OBVIOUS
<1>2. PICK T : T = {nseq[b] : b \in S}
  OBVIOUS
<1>3. S \subseteq Blocks /\ IsFiniteSet(S)
  BY <1>1, Geometry, FS_Subset
<1>4. T \subseteq Nat
  BY <1>2, <1>3
<1>5. PICK h : h = [b \in S |-> nseq[b]]
  OBVIOUS
<1>6. h \in Surjection(S, T)
  BY <1>2, <1>5 DEF Surjection
<1>7. IsFiniteSet(T)
  BY <1>3, <1>6, FS_Surjection
<1>8. PICK U : U = {0} \cup T
  OBVIOUS
<1>9. IsFiniteSet(U)
  <2>1. T \cup {0} = U
    BY <1>8
  <2>2. QED
    BY <1>7, <2>1, FS_AddElement
<1>10. U \in SUBSET Int /\ U # {} /\ U \subseteq Nat
  BY <1>4, <1>8
<1>11. Max(U) \in U
  BY <1>9, <1>10, MaxLemma
<1>12. LastSeq = Max(U)
  BY <1>1, <1>2, <1>8 DEF LastSeq
<1>13. QED
  BY <1>10, <1>11, <1>12

LEMMA FirstFreeOk ==
  ASSUME nand \in Flash, NEW b \in Blocks
  PROVE  /\ FirstFree(b) \in Nat /\ FirstFree(b) >= 1 /\ FirstFree(b) <= Len(nand[b]) + 1
         /\ \A p \in Pages : <<b, p>> \in Readable => p < FirstFree(b)
<1>1. PICK S : S = {p \in Pages : <<b, p>> \in Readable}
  OBVIOUS
<1>2. ChunksPerBlock \in Nat
  BY Geometry
<1>3. S \in SUBSET (0 .. ChunksPerBlock)
  BY <1>1, <1>2 DEF Pages
<1>4. PICK m : m = Max({0} \cup S)
  OBVIOUS
<1>5. m \in Nat /\ m \in {0} \cup S /\ \A x \in S : x <= m
  <2>1. Max({0} \cup S) \in 0 .. ChunksPerBlock /\ Max({0} \cup S) \in {0} \cup S
        /\ \A x \in S : x <= Max({0} \cup S)
    BY <1>2, <1>3, IntervalMax
  <2>2. QED
    BY <1>2, <1>4, <2>1
<1>6. FirstFree(b) = 1 + m
  BY <1>1, <1>4 DEF FirstFree
<1>7. nand[b] \in Seq(PagesOfLog \cup {Torn}) /\ Len(nand[b]) \in Nat
  <2>1. nand[b] \in Seq(PagesOfLog \cup {Torn})
    BY DEF Flash
  <2>2. QED
    BY <2>1, LenProperties
<1>8. m <= Len(nand[b])
  <2>1. CASE m = 0
    BY <1>7, <2>1
  <2>2. CASE m \in S
    <3>1. <<b, m>> \in Readable
      BY <1>1, <2>2
    <3>2. <<b, m>>[1] = b /\ <<b, m>>[2] = m
      OBVIOUS
    <3>3. QED
      BY <3>1, <3>2 DEF Readable
  <2>3. QED
    BY <1>5, <2>1, <2>2
<1>9. ASSUME NEW p \in Pages, <<b, p>> \in Readable PROVE p < FirstFree(b)
  <2>1. p \in S /\ p \in Int
    BY <1>1, <1>2, <1>9 DEF Pages
  <2>2. QED
    BY <1>5, <1>6, <2>1
<1>10. QED
  BY <1>5, <1>6, <1>7, <1>8, <1>9

LEMMA ScannedBlockOk ==
  ASSUME nand \in Flash, nseq \in [Blocks -> Nat], NEW b \in Blocks
  PROVE  LET r == ScannedBlock(Live, b) IN
         /\ r \in BlockInfos
         /\ r.bits = PagesOf(Live, b) /\ r.pagesInUse = Cardinality(r.bits) /\ r.softDel = 0
         /\ r.state \in {"empty", "dirty", "dead"} => r.bits = {}
         /\ r.state # "collecting"
         /\ r.state = "allocating" => FirstFree(b) <= ChunksPerBlock
<1>1. PICK bits : bits = {p \in Pages : <<b, p>> \in Live} /\ bits = PagesOf(Live, b)
  BY DEF PagesOf
<1>2. PICK shrunk \in BOOLEAN : shrunk = \E h \in Log : h[1] = b /\ IsShrink(h)
  OBVIOUS
<1>3. PICK tail \in BOOLEAN : tail = (FirstFree(b) <= ChunksPerBlock /\ nseq[b] = LastSeq)
  OBVIOUS
<1>4. PICK state : state = IF b \in bad THEN "dead"
                 ELSE IF ~NeedsScanning(b) THEN "empty"
                 ELSE IF tail THEN "allocating"
                 ELSE IF bits = {} /\ ~shrunk THEN "dirty" ELSE "full"
  OBVIOUS
<1>5. PICK seq \in Nat : seq = IF NeedsScanning(b) THEN nseq[b] ELSE 0
  OBVIOUS
<1>6. PICK retire \in BOOLEAN : retire = (state \in {"full", "dirty"} /\ FirstFree(b) <= ChunksPerBlock)
  OBVIOUS
<1>7. PICK n : n = Cardinality(bits)
  OBVIOUS
<1>8. PICK r : r = ScannedBlock(Live, b)
  OBVIOUS
<1>9. r = [state |-> state, seq |-> seq, bits |-> bits, pagesInUse |-> n, softDel |-> 0,
           shrink |-> shrunk, retire |-> retire]
  BY <1>1, <1>2, <1>3, <1>4, <1>5, <1>6, <1>7, <1>8 DEF ScannedBlock
<1>10. bits \in SUBSET Pages /\ n \in Nat
  BY <1>1, <1>7, PagesFinite
<1>11. state \in States \ {"collecting"}
  BY <1>4 DEF States
<1>12. r \in BlockInfos
  BY <1>9, <1>10, <1>11 DEF BlockInfos
<1>13. ~NeedsScanning(b) => bits = {}
  <2>1. \A p \in bits : <<b, p>> \in Log
    BY <1>1, LogReadable
  <2>2. \A p \in bits : <<b, p>>[1] = b
    OBVIOUS
  <2>3. QED
    BY <2>1, <2>2, LogReadable
<1>14. b \in bad => ~NeedsScanning(b)
  BY DEF NeedsScanning
<1>15. state \in {"empty", "dirty", "dead"} => bits = {}
  BY <1>4, <1>13, <1>14
<1>16. state = "allocating" => FirstFree(b) <= ChunksPerBlock
  BY <1>3, <1>4
<1>17. r.state = state /\ r.bits = bits /\ r.pagesInUse = n /\ r.softDel = 0
  BY <1>9
<1>18. QED
  BY <1>1, <1>7, <1>8, <1>11, <1>12, <1>15, <1>16, <1>17

(* What the scan leaves in memory.                                         *)
ScannedTable == [b \in Blocks |-> ScannedBlock(Live, b)]
ScannedObjects == [f \in Files |-> ScannedObject(Live, f)]

LEMMA ScannedObjectOk ==
  ASSUME nand \in Flash, NEW f \in Files
  PROVE  LET w == ScannedObject(Live, f) IN
         /\ w \in Objects /\ ~w.deleted
         /\ w.hdr \in {None, Found(Live, f, 0)}
         /\ \A k \in 1 .. FileChunks : w.tnode[k] \in {None, Found(Live, f, k)}
         /\ ~w.here => w.hdr = None /\ \A k \in 1 .. FileChunks : w.tnode[k] = None
<1>1. PICK w : w = ScannedObject(Live, f)
  OBVIOUS
<1>2. CASE \A c \in Log : Tag(c).file # f
  <2>1. w = NoObject
    BY <1>1, <1>2 DEF ScannedObject
  <2>2. QED
    BY <1>1, <2>1, NoObjectType
<1>3. CASE ~ \A c \in Log : Tag(c).file # f
  <2> DEFINE h == Found(Live, f, 0)
             t == [k \in 1 .. FileChunks |-> Found(Live, f, k)]
             dir == IF h = None THEN "lost+found" ELSE Tag(h).dir
             size == ScanSize(f)
             n == Cardinality({k \in 1 .. FileChunks : t[k] # None})
  <2>1. PICK r : r = NoObject
    OBVIOUS
  <2>2. r = [here |-> FALSE, dir |-> "root", hdr |-> None, size |-> 0, tnode |-> r.tnode,
             nData |-> 0, deleted |-> FALSE, dirty |-> FALSE]
    BY <2>1 DEF NoObject
  <2>3. ScannedObject(Live, f)
          = [NoObject EXCEPT !.here = TRUE, !.hdr = h, !.dir = dir, !.size = size, !.tnode = t, !.nData = n]
    BY <1>3, Zenon DEF ScannedObject
  <2>4. h = Found(Live, f, 0) /\ size = ScanSize(f)
    OBVIOUS
  <2>5. t = [k \in 1 .. FileChunks |-> Found(Live, f, k)]
    OBVIOUS
  <2>6. dir = IF h = None THEN "lost+found" ELSE Tag(h).dir
    OBVIOUS
  <2>7. n = Cardinality({k \in 1 .. FileChunks : t[k] # None})
    OBVIOUS
  <2> HIDE DEF h, t, dir, size, n
  <2>8. w = [r EXCEPT !.here = TRUE, !.hdr = h, !.dir = dir, !.size = size, !.tnode = t, !.nData = n]
    BY <1>1, <2>1, <2>3
  <2>9. w = [here |-> TRUE, dir |-> dir, hdr |-> h, size |-> size, tnode |-> t,
             nData |-> n, deleted |-> FALSE, dirty |-> FALSE]
    <3>1. r \in Objects /\ r.deleted = FALSE /\ r.dirty = FALSE
      BY <2>1, <2>2, NoObjectType
    <3>2. /\ w.here = TRUE /\ w.hdr = h /\ w.dir = dir /\ w.size = size /\ w.tnode = t /\ w.nData = n
          /\ w.deleted = r.deleted /\ w.dirty = r.dirty
      BY <2>8, <3>1 DEF Objects
    <3>3. w = [here |-> w.here, dir |-> w.dir, hdr |-> w.hdr, size |-> w.size, tnode |-> w.tnode,
               nData |-> w.nData, deleted |-> w.deleted, dirty |-> w.dirty]
      BY <2>8, <3>1 DEF Objects
    <3>4. QED
      BY <3>1, <3>2, <3>3
  <2>10. h \in Addr \cup {None}
    BY <2>4, FoundOk
  <2>11. t \in [1 .. FileChunks -> Addr \cup {None}]
    BY <2>5, FoundOk
  <2>12. dir \in Dirs
    <3>1. h # None => h \in Readable
      BY <2>4, FoundOk, LogReadable
    <3>2. "lost+found" \in Dirs
      BY DEF Dirs
    <3>3. QED
      BY <2>6, <3>1, <3>2, TagType
  <2>13. size \in 0 .. FileChunks
    BY <2>4, ScanSizeType
  <2>14. n \in Int
    <3>1. 1 \in Int /\ FileChunks \in Int
      BY Geometry
    <3>2. IsFiniteSet(1 .. FileChunks)
      BY <3>1, FS_Interval
    <3>3. PICK S : S = {k \in 1 .. FileChunks : t[k] # None}
      OBVIOUS
    <3>4. Cardinality(S) \in Nat
      BY <3>2, <3>3, FS_Subset, FS_CardinalityType
    <3>5. QED
      BY <2>7, <3>3, <3>4
  <2>15. TRUE \in BOOLEAN /\ FALSE \in BOOLEAN
    OBVIOUS
  <2>16. w \in Objects
    BY <2>9, <2>10, <2>11, <2>12, <2>13, <2>14, <2>15, ObjectRecord
  <2>17. w.here /\ ~w.deleted /\ w.hdr = h /\ w.tnode = t
    BY <2>9
  <2>18. QED
    BY <1>1, <2>4, <2>5, <2>16, <2>17
<1>4. QED
  BY <1>2, <1>3

LEMMA ScannedObjectsOk ==
  ASSUME nand \in Flash
  PROVE  /\ ScannedObjects \in [Files -> Objects]
         /\ \A f \in Files : ~ScannedObjects[f].deleted
         /\ \A f \in Files, k \in 0 .. FileChunks :
              Own(ScannedObjects, f, k) # None =>
                ScannedObjects[f].here /\ Own(ScannedObjects, f, k) = Found(Live, f, k)
<1>1. PICK q : q = ScannedObjects
  OBVIOUS
<1>2. ASSUME NEW f \in Files
      PROVE  /\ q[f] \in Objects /\ ~q[f].deleted
             /\ q[f].hdr \in {None, Found(Live, f, 0)}
             /\ \A k \in 1 .. FileChunks : q[f].tnode[k] \in {None, Found(Live, f, k)}
             /\ ~q[f].here => q[f].hdr = None /\ \A k \in 1 .. FileChunks : q[f].tnode[k] = None
  <2>1. q[f] = ScannedObject(Live, f)
    BY <1>1 DEF ScannedObjects
  <2>2. QED
    BY <2>1, ScannedObjectOk
<1>3. q \in [Files -> Objects]
  BY <1>1, <1>2 DEF ScannedObjects
<1>4. ASSUME NEW f \in Files, NEW k \in 0 .. FileChunks, Own(q, f, k) # None
      PROVE  q[f].here /\ Own(q, f, k) = Found(Live, f, k)
  <2>1. k # 0 => k \in 1 .. FileChunks
    BY Geometry
  <2>2. q[f].here \in BOOLEAN
    BY <1>2 DEF Objects
  <2>3. QED
    BY <1>2, <1>4, <2>1, <2>2 DEF Own
<1>5. QED
  BY <1>1, <1>2, <1>3, <1>4

LEMMA ScannedTableOk ==
  ASSUME nand \in Flash, nseq \in [Blocks -> Nat]
  PROVE  /\ ScannedTable \in [Blocks -> BlockInfos]
         /\ \A b \in Blocks : LET r == ScannedTable[b] IN
              /\ r.bits = PagesOf(Live, b) /\ r.pagesInUse = Cardinality(r.bits) /\ r.softDel = 0
              /\ r.state \in {"empty", "dirty", "dead"} => r.bits = {}
              /\ r.state # "collecting"
              /\ r.state = "allocating" => FirstFree(b) <= ChunksPerBlock
<1>1. \A b \in Blocks : ScannedTable[b] = ScannedBlock(Live, b)
  BY DEF ScannedTable
<1>2. \A b \in Blocks : ScannedTable[b] \in BlockInfos
  BY <1>1, ScannedBlockOk
<1>3. ScannedTable \in [Blocks -> BlockInfos]
  BY <1>2 DEF ScannedTable
<1>4. QED
  BY <1>1, <1>3, ScannedBlockOk

LEMMA ScannedDeviceOk ==
  ASSUME nand \in Flash, nseq \in [Blocks -> Nat]
  PROVE  DevOk(ScannedDevice, ScannedObjects, nand, None)
<1>1. PICK t : t = ScannedTable
  OBVIOUS
<1>2. t \in [Blocks -> BlockInfos]
  BY <1>1, ScannedTableOk
<1>3. \A b \in Blocks :
        /\ t[b].bits = PagesOf(Live, b) /\ t[b].pagesInUse = Cardinality(t[b].bits)
        /\ t[b].softDel = 0
        /\ t[b].state \in {"empty", "dirty", "dead"} => t[b].bits = {}
        /\ t[b].state # "collecting"
        /\ t[b].state = "allocating" => FirstFree(b) <= ChunksPerBlock
  BY <1>1, ScannedTableOk
<1>4. PICK tail : tail = InState(t, {"allocating"})
  OBVIOUS
<1>5. PICK a : a = IF tail = {} THEN None ELSE CHOOSE b \in tail : TRUE
  OBVIOUS
<1>6. PICK p : p = IF tail = {} THEN 1 ELSE FirstFree(a)
  OBVIOUS
<1>7. PICK m : m = Cardinality(InState(t, {"empty"}))
  OBVIOUS
<1>8. PICK n : n = CountFreeChunks(t) + ChunksPerBlock * Cardinality(InState(t, {"dirty"}))
  OBVIOUS
<1>9. PICK s : s = LastSeq /\ s \in Nat
  BY LastSeqType
<1>10. PICK e : e = ScannedDevice
  OBVIOUS
<1>11. e = [blk |-> t, alloc |-> a, page |-> p, seq |-> s, erased |-> m, free |-> n]
  BY <1>1, <1>4, <1>5, <1>6, <1>7, <1>8, <1>9, <1>10 DEF ScannedDevice, ScannedTable
<1>12. a # None => a \in Blocks /\ t[a].state = "allocating" /\ p = FirstFree(a)
  BY <1>4, <1>5, <1>6 DEF InState
<1>13. a = None => p = 1
  <2>1. tail # {} => a \in tail
    BY <1>5
  <2>2. tail \subseteq Blocks
    BY <1>4 DEF InState
  <2>3. QED
    BY <1>6, <2>1, <2>2, Distinct
<1>14. a \in Blocks \cup {None} /\ p \in Nat
  BY <1>12, <1>13, FirstFreeOk
<1>15. InState(t, {"collecting"}) = {}
  BY <1>3 DEF InState
<1>16. n = Total(Rooms(t), Blocks)
  BY <1>2, <1>8, <1>15, RoomsCount
<1>17. n \in Int
  <2>1. IsFiniteSet(Blocks)
    BY Geometry
  <2>2. PICK w : w = Rooms(t)
    OBVIOUS
  <2>3. \A b \in Blocks : w[b] \in Int
    BY <1>2, <2>2, WeightsType
  <2>4. QED
    BY <1>16, <2>1, <2>2, <2>3, TotalSame
<1>18. m \in Int
  BY <1>7, Geometry, FS_Subset, FS_CardinalityType DEF InState
<1>19. e \in Devices
  BY <1>2, <1>9, <1>11, <1>14, <1>17, <1>18, DeviceRecord
<1>20. e.blk = t /\ e.alloc = a /\ e.page = p /\ e.erased = m /\ e.free = n
  BY <1>11
<1>21. CountsOk(e)
  BY <1>7, <1>16, <1>20 DEF CountsOk
<1>22. AllocOk(e, nand)
  <2>1. CASE a # None
    <3>1. a \in Blocks /\ t[a].state = "allocating" /\ p = FirstFree(a)
      BY <1>12, <2>1
    <3>2. p \in Nat /\ p >= 1 /\ p <= Len(nand[a]) + 1 /\ p <= ChunksPerBlock
      BY <1>3, <3>1, FirstFreeOk
    <3>3. p \in Pages
      BY <3>2, Geometry DEF Pages
    <3>4. \A x \in t[a].bits : x < p
      <4>1. \A x \in PagesOf(Live, a) : x \in Pages /\ <<a, x>> \in Readable
        BY LogReadable DEF PagesOf
      <4>2. QED
        BY <1>3, <3>1, <4>1, FirstFreeOk
    <3>5. QED
      BY <1>20, <3>1, <3>2, <3>3, <3>4 DEF AllocOk
  <2>2. CASE a = None
    BY <1>20, <2>2 DEF AllocOk
  <2>3. QED
    BY <2>1, <2>2
<1>23. PICK q : q = ScannedObjects
  OBVIOUS
<1>24. /\ q \in [Files -> Objects]
       /\ \A f \in Files, k \in 0 .. FileChunks :
            Own(q, f, k) # None => q[f].here /\ Own(q, f, k) = Found(Live, f, k)
  BY <1>23, ScannedObjectsOk
<1>25. HeldOk(q, e, nand)
  <2>1. ASSUME NEW f \in Files, NEW k \in 0 .. FileChunks, Own(q, f, k) # None
        PROVE  LET c == Own(q, f, k) IN
               /\ q[f].here
               /\ c[2] \in e.blk[c[1]].bits
               /\ c[2] <= Len(nand[c[1]]) /\ nand[c[1]][c[2]] # Torn
               /\ nand[c[1]][c[2]].file = f /\ nand[c[1]][c[2]].chunk = k
    <3>1. PICK c : c = Own(q, f, k) /\ c = Found(Live, f, k) /\ q[f].here /\ c # None
      BY <1>24, <2>1
    <3>2. c \in Live /\ Tag(c).file = f /\ Tag(c).chunk = k
      BY <3>1, FoundOk
    <3>3. /\ c[1] \in Blocks /\ c[2] \in Pages /\ c = <<c[1], c[2]>>
          /\ c[2] <= Len(nand[c[1]]) /\ nand[c[1]][c[2]] # Torn /\ Tag(c) = nand[c[1]][c[2]]
      BY <3>2, TagType, LogReadable
    <3>4. c[2] \in PagesOf(Live, c[1])
      BY <3>2, <3>3 DEF PagesOf
    <3>5. c[2] \in e.blk[c[1]].bits
      BY <1>3, <1>20, <3>3, <3>4
    <3>6. QED
      BY <3>1, <3>2, <3>3, <3>5
  <2>2. QED
    BY <2>1 DEF HeldOk
<1>26. ASSUME NEW b \in Blocks PROVE BlockOk(e, q, None, b)
  <2>1. Held(q, b) \subseteq t[b].bits
    BY <1>20, <1>24, <1>25, HeldIn
  <2>2. PICK i, j \in Nat : i = Cardinality(Held(q, b)) /\ j = Cardinality(t[b].bits)
    BY <1>2, PagesFinite, HeldFinite, BlockFields
  <2>3. i <= j
    <3>1. IsFiniteSet(t[b].bits)
      BY <1>2, PagesFinite, BlockFields
    <3>2. QED
      BY <2>1, <2>2, <3>1, FS_Subset
  <2>4. t[b].softDel + i <= j
    BY <1>3, <2>2, <2>3
  <2>5. QED
    BY <1>3, <1>20, <2>2, <2>4 DEF BlockOk
<1>27. QED
  BY <1>10, <1>19, <1>21, <1>22, <1>23, <1>25, <1>26 DEF DevOk

(* The files that are destroyed after the scan.                            *)
Destroys(F) == {Op("destroy", f) : f \in F}

LEMMA DestroysOk ==
  ASSUME NEW F \in SUBSET Files, NEW o, \A f \in F : o[f].here /\ ~o[f].deleted
  PROVE  LET z == SetToSeq(Destroys(F)) IN
         /\ z \in Seq(Ops) /\ TodoOk(z, o, None) /\ NoneDeleted(z, o) /\ Only(z, F)
         /\ \A i \in DOMAIN z : z[i].op = "destroy"
<1>1. PICK S : S = Destroys(F)
  OBVIOUS
<1>2. \A x \in S : x \in Ops /\ x.op = "destroy" /\ x.file \in F /\ x = Op("destroy", x.file)
  <2>1. ASSUME NEW x \in S PROVE x \in Ops /\ x.op = "destroy" /\ x.file \in F /\ x = Op("destroy", x.file)
    <3>1. PICK f \in F : x = Op("destroy", f)
      BY <1>1 DEF Destroys
    <3>2. "destroy" \in Steps /\ f \in Files \cup {None}
      BY DEF Steps
    <3>3. QED
      BY <3>1, <3>2, OpType
  <2>2. QED
    BY <2>1
<1>3. IsFiniteSet(S)
  <2>1. PICK h : h = [f \in F |-> Op("destroy", f)]
    OBVIOUS
  <2>2. h \in Surjection(F, S)
    BY <1>1, <2>1 DEF Surjection, Destroys
  <2>3. IsFiniteSet(F)
    BY Geometry, FS_Subset
  <2>4. QED
    BY <2>2, <2>3, FS_Surjection
<1>4. PICK n \in Nat : n = Cardinality(S) /\ ExistsBijection(1 .. n, S)
  BY <1>3, FS_CardinalityType
<1>5. \E z \in [1 .. n -> S] : IsInjective(z)
  BY <1>4 DEF ExistsBijection, Bijection, Injection
<1>6. PICK z : z = SetToSeq(S)
  OBVIOUS
<1>7. z \in [1 .. n -> S] /\ IsInjective(z)
  <2>1. z = CHOOSE y \in [1 .. n -> S] : IsInjective(y)
    BY <1>4, <1>6 DEF SetToSeq
  <2>2. QED
    BY <1>5, <2>1
<1>8. DOMAIN z = 1 .. n /\ \A i \in DOMAIN z : z[i] \in S
  BY <1>7
<1>9. z \in Seq(Ops)
  <2>1. z \in [1 .. n -> Ops]
    BY <1>2, <1>7
  <2>2. QED
    BY <2>1
<1>10. \A i \in DOMAIN z : z[i].op = "destroy" /\ z[i].file \in F
  BY <1>2, <1>8
<1>11. \A i, j \in DOMAIN z : i < j => z[i].file # z[j].file
  <2>1. ASSUME NEW i \in DOMAIN z, NEW j \in DOMAIN z, i < j, z[i].file = z[j].file PROVE FALSE
    <3>1. z[i] = z[j]
      BY <1>2, <1>8, <2>1
    <3>2. i = j
      BY <1>7, <3>1 DEF IsInjective
    <3>3. i \in Int /\ j \in Int
      BY <1>8
    <3>4. QED
      BY <2>1, <3>2, <3>3
  <2>2. QED
    BY <2>1
<1>12. TodoOk(z, o, None)
  BY <1>10, <1>11 DEF TodoOk
<1>13. NoneDeleted(z, o) /\ Only(z, F)
  BY <1>10 DEF NoneDeleted, Only
<1>14. QED
  BY <1>1, <1>6, <1>9, <1>10, <1>12, <1>13

LEMMA MountStep ==
  ASSUME GutsInv, Mount
  PROVE  GutsInv'
<1>1. ~mounted /\ mounted' /\ nand' = nand /\ nseq' = nseq /\ gcBlock' = gcBlock
  BY DEF Mount
<1>2. nand \in Flash /\ nseq \in [Blocks -> Nat] /\ gcBlock = None
  BY <1>1 DEF GutsInv
<1>3. PICK q : q = ScannedObjects
  OBVIOUS
<1>4. PICK e : e = ScannedDevice
  OBVIOUS
<1>5. obj' = q /\ dev' = e
  BY <1>3, <1>4 DEF Mount, ScannedObjects
<1>6. PICK U : U = {f \in Files : q[f].here /\ q[f].dir = "unlinked"}
  OBVIOUS
<1>7. PICK D : D = {f \in Files : q[f].here /\ q[f].dir = "deleted"}
  OBVIOUS
<1>8. PICK y : y = SetToSeq(Destroys(U))
  OBVIOUS
<1>9. PICK z : z = SetToSeq(Destroys(D))
  OBVIOUS
<1>10. PICK t : t = y \o z
  OBVIOUS
<1>11. todo' = t
  BY <1>5, <1>6, <1>7, <1>8, <1>9, <1>10 DEF Mount, Destroys
<1>12. q \in [Files -> Objects] /\ \A f \in Files : ~q[f].deleted
  BY <1>2, <1>3, ScannedObjectsOk
<1>13. DevOk(e, q, nand, None)
  BY <1>2, <1>3, <1>4, ScannedDeviceOk
<1>14. DeletedOk(q)
  BY <1>12 DEF DeletedOk
<1>15. y \in Seq(Ops) /\ TodoOk(y, q, None) /\ Only(y, U)
  <2>1. U \in SUBSET Files /\ \A f \in U : q[f].here /\ ~q[f].deleted
    BY <1>6, <1>12
  <2>2. QED
    BY <1>8, <2>1, DestroysOk
<1>16. z \in Seq(Ops) /\ TodoOk(z, q, None) /\ Only(z, D) /\ NoneDeleted(z, q)
  <2>1. D \in SUBSET Files /\ \A f \in D : q[f].here /\ ~q[f].deleted
    BY <1>7, <1>12
  <2>2. QED
    BY <1>9, <2>1, DestroysOk
<1>17. \A i \in DOMAIN y, j \in DOMAIN z : On(y, i) /\ On(z, j) => y[i].file # z[j].file
  <2>1. \A f \in U, h \in D : f # h
    BY <1>6, <1>7
  <2>2. QED
    BY <1>15, <1>16, <2>1 DEF Only
<1>18. t \in Seq(Ops) /\ TodoOk(t, q, None)
  BY <1>10, <1>15, <1>16, <1>17, ConcatOk
<1>19. QED
  BY <1>1, <1>2, <1>5, <1>11, <1>12, <1>13, <1>14, <1>18, InMemoryAgain

-----------------------------------------------------------------------------
(* The flash that a run starts with, and what the invariant says.          *)
LEMMA ImageType ==
  ASSUME NEW f \in Files, NEW v \in Values
  PROVE  Image(f, v) \in Flash /\ \A b \in Blocks : Image(f, v)[b] \in Seq(PagesOfLog)
<1> DEFINE place(b, p) == (b - 1) * ChunksPerBlock + p
           Q(b) == {q \in Pages : place(b, q) <= Prefill}
           page(b, p) == IF place(b, p) = 1 THEN Header(f, "root", 0, FALSE) ELSE Data(f, place(b, p) - 1, v)
<1>1. ASSUME NEW b \in Blocks
      PROVE  /\ [p \in 1 .. Cardinality(Q(b)) |-> page(b, p)] \in Seq(PagesOfLog)
             /\ [p \in 1 .. Cardinality(Q(b)) |-> page(b, p)] \in Seq(PagesOfLog \cup {Torn})
  <2>1. PICK m \in Nat : m = (b - 1) * ChunksPerBlock
    <3>1. b - 1 \in Nat /\ ChunksPerBlock \in Nat
      BY Geometry
    <3>2. (b - 1) * ChunksPerBlock \in Nat
      BY <3>1
    <3>3. QED
      BY <3>2
  <2>2. PICK S : S = {q \in Pages : m + q <= Prefill}
    OBVIOUS
  <2>3. Q(b) = S
    BY <2>1, <2>2
  <2>4. PICK n \in Nat : n = Cardinality(S)
    BY <2>2, PagesFinite
  <2>5. ASSUME NEW p \in 1 .. n PROVE page(b, p) \in PagesOfLog
    <3>1. m + p <= Prefill
      <4> SUFFICES ASSUME ~(m + p <= Prefill) PROVE FALSE
        OBVIOUS
      <4>1. p - 1 \in Int /\ p \in Int /\ p - 1 \in Nat /\ n \in Int /\ p <= n
        BY <2>4
      <4>2. Prefill \in Int /\ ChunksPerBlock \in Int /\ m \in Int
        BY Geometry
      <4>3. S \subseteq 1 .. (p - 1)
        <5>1. ASSUME NEW q \in S PROVE q \in 1 .. (p - 1)
          <6>1. q \in Int /\ q >= 1 /\ m + q <= Prefill
            BY <2>2, <4>2 DEF Pages
          <6>2. QED
            BY <4>1, <4>2, <6>1
        <5>2. QED
          BY <5>1
      <4>4. Cardinality(1 .. (p - 1)) = p - 1 /\ IsFiniteSet(1 .. (p - 1))
        <5>1. 1 \in Int
          OBVIOUS
        <5>2. /\ IsFiniteSet(1 .. (p - 1))
              /\ Cardinality(1 .. (p - 1)) = IF 1 > p - 1 THEN 0 ELSE (p - 1) - 1 + 1
          BY <4>1, <5>1, FS_Interval
        <5>3. QED
          BY <4>1, <5>2
      <4>5. n <= p - 1
        <5>1. Cardinality(S) <= Cardinality(1 .. (p - 1))
          BY <4>3, <4>4, FS_Subset
        <5>2. QED
          BY <2>4, <4>4, <5>1
      <4>6. QED
        BY <4>1, <4>5
    <3>2. PICK j \in Int : j = m + p /\ j >= 1 /\ j <= FileChunks + 1
      <4>1. m + p \in Int /\ m + p >= 1 /\ Prefill \in Int /\ FileChunks \in Int /\ Prefill <= FileChunks + 1
        BY Geometry
      <4>2. m + p <= FileChunks + 1
        BY <3>1, <4>1
      <4>3. QED
        BY <4>1, <4>2
    <3>3. page(b, p) = IF j = 1 THEN Header(f, "root", 0, FALSE) ELSE Data(f, j - 1, v)
      BY <2>1, <3>2
    <3>4. Header(f, "root", 0, FALSE) \in PagesOfLog
      <4>1. "root" \in Dirs /\ 0 \in 0 .. FileChunks /\ FALSE \in BOOLEAN
        BY Geometry DEF Dirs
      <4>2. QED
        BY <4>1, HeaderType
    <3>5. Data(f, j - 1, v) \in PagesOfLog
      <4>1. j - 1 \in 0 .. FileChunks
        BY <3>2, Geometry
      <4>2. QED
        BY <4>1, DataType
    <3>6. QED
      BY <3>3, <3>4, <3>5
  <2> HIDE DEF page
  <2>6. /\ [p \in 1 .. n |-> page(b, p)] \in [1 .. n -> PagesOfLog]
        /\ [p \in 1 .. n |-> page(b, p)] \in [1 .. n -> PagesOfLog \cup {Torn}]
    BY <2>5
  <2>7. [p \in 1 .. n |-> page(b, p)] \in Seq(PagesOfLog)
    BY <2>6
  <2>8. [p \in 1 .. n |-> page(b, p)] \in Seq(PagesOfLog \cup {Torn})
    BY <2>6
  <2>9. QED
    BY <2>3, <2>4, <2>7, <2>8
<1>2. Image(f, v) = [b \in Blocks |-> [p \in 1 .. Cardinality(Q(b)) |-> page(b, p)]]
  BY Zenon DEF Image
<1> HIDE DEF page, Q
<1>3. QED
  BY <1>1, <1>2 DEF Flash

LEMMA GutsInit ==
  Init => GutsInv
<1> SUFFICES ASSUME Init PROVE GutsInv
  OBVIOUS
<1>1. nand \in Flash
  BY ImageType DEF Init
<1>2. nseq \in [Blocks -> Nat]
  <2>1. \A b \in Blocks : b \in Nat
    BY Geometry
  <2>2. nseq = [b \in Blocks |-> IF nand[b] = <<>> THEN 0 ELSE b]
    BY DEF Init
  <2>3. QED
    BY <2>1, <2>2
<1>3. ~mounted /\ gcBlock = None
  BY DEF Init
<1>4. QED
  BY <1>1, <1>2, <1>3 DEF GutsInv

LEMMA GutsNext ==
  GutsInv /\ ReserveSuffices /\ [Next]_vars => GutsInv'
<1> SUFFICES ASSUME GutsInv, ReserveSuffices, [Next]_vars PROVE GutsInv'
  OBVIOUS
<1>1. CASE CheckGarbageCollection
  BY <1>1, CheckGarbageCollectionStep
<1>2. CASE GcDrop
  BY <1>2, GcDropStep
<1>3. CASE GcCopy
  BY <1>3, GcCopyStep
<1>4. CASE GcCleanup
  BY <1>4, GcCleanupStep
<1>5. CASE BlockBecameDirty
  BY <1>5, BlockBecameDirtyStep
<1>6. CASE WriteChunkData
  BY <1>6, WriteChunkDataStep
<1>7. CASE WriteHeader
  BY <1>7, WriteHeaderStep
<1>8. CASE SkipUnerased
  BY <1>8, SkipUnerasedStep
<1>9. CASE PruneResizedChunk
  BY <1>9, PruneResizedChunkStep
<1>10. CASE DeleteFile
  BY <1>10, DeleteFileStep
<1>11. CASE RemoveObject
  BY <1>11, RemoveObjectStep
<1>12. ASSUME NEW f \in Files, Create(f) \/ FlushFile(f) \/ Unlink(f) \/ DeleteInode(f) PROVE GutsInv'
  BY <1>12, CreateStep, FlushFileStep, UnlinkStep, DeleteInodeStep
<1>13. ASSUME NEW f \in Files, NEW k \in 1 .. FileChunks, NEW v \in Values, WriteFile(f, k, v) PROVE GutsInv'
  BY <1>13, WriteFileStep
<1>14. ASSUME NEW f \in Files, NEW n \in 0 .. FileChunks, ResizeFile(f, n) PROVE GutsInv'
  BY <1>14, ResizeFileStep
<1>15. CASE PowerCut
  BY <1>15, PowerCutStep
<1>16. CASE Mount
  BY <1>16, MountStep
<1>17. CASE UNCHANGED vars
  BY <1>17 DEF vars, GutsInv, MemoryOk
<1>18. QED
  BY <1>1, <1>2, <1>3, <1>4, <1>5, <1>6, <1>7, <1>8, <1>9, <1>10, <1>11, <1>12, <1>13, <1>14,
     <1>15, <1>16, <1>17 DEF Next

LEMMA GutsAccounting ==
  GutsInv => Accounting
<1> SUFFICES ASSUME GutsInv, Idle PROVE
      /\ dev.erased = Cardinality(InState(dev.blk, {"empty"}))
      /\ dev.free = CountFreeChunks(dev.blk)
      /\ \A b \in Blocks : /\ dev.blk[b].pagesInUse = Cardinality(dev.blk[b].bits)
                           /\ dev.blk[b].state # "dead" =>
                                dev.blk[b].softDel <= dev.blk[b].pagesInUse
  BY DEF Accounting
<1>1. mounted /\ gcBlock = None /\ InState(dev.blk, {"dirty"}) = {}
  BY DEF Idle, Quiet
<1>2. DevOk(dev, obj, nand, None)
  BY <1>1, InMemory
<1>3. dev \in Devices /\ CountsOk(dev) /\ \A b \in Blocks : BlockOk(dev, obj, None, b)
  BY <1>2 DEF DevOk
<1>4. dev.blk \in [Blocks -> BlockInfos]
  BY <1>3, DeviceFields
<1>5. \A b \in Blocks : dev.blk[b].state # "collecting"
  BY <1>3, Distinct DEF BlockOk
<1>6. InState(dev.blk, {"collecting"}) = {}
  BY <1>5 DEF InState
<1>7. dev.free = CountFreeChunks(dev.blk)
  <2>1. dev.free = CountFreeChunks(dev.blk) + ChunksPerBlock * Cardinality(InState(dev.blk, {"dirty"}))
    BY <1>3, <1>4, <1>6, RoomsCount DEF CountsOk
  <2>2. Cardinality(InState(dev.blk, {"dirty"})) = 0
    BY <1>1, FS_EmptySet
  <2>3. PICK S, w : S = InState(dev.blk, Counted) /\ w = Weights(dev.blk)
    OBVIOUS
  <2>4. IsFiniteSet(S) /\ \A x \in S : w[x] \in Int
    BY <1>4, <2>3, Geometry, FS_Subset, WeightsType DEF InState
  <2>5. CountFreeChunks(dev.blk) \in Int
    BY <1>4, <2>3, <2>4, CountTotal, TotalSame
  <2>6. PICK x \in Int : x = CountFreeChunks(dev.blk)
    BY <2>5
  <2>7. ChunksPerBlock * 0 = 0
    BY Geometry
  <2>8. QED
    BY <2>1, <2>2, <2>6, <2>7
<1>8. ASSUME NEW b \in Blocks
      PROVE  /\ dev.blk[b].pagesInUse = Cardinality(dev.blk[b].bits)
             /\ dev.blk[b].state # "dead" => dev.blk[b].softDel <= dev.blk[b].pagesInUse
  <2>1. PICK r \in BlockInfos : r = dev.blk[b]
    BY <1>4
  <2>2. PICK h \in Nat : h = Cardinality(Held(obj, b))
    BY HeldFinite
  <2>3. /\ r.pagesInUse = Cardinality(r.bits)
        /\ r.state = "empty" => r.softDel = 0
        /\ r.state \in {"full", "allocating"} => r.softDel + h <= Cardinality(r.bits)
    BY <1>3, <2>1, <2>2 DEF BlockOk
  <2>4. r.state \in States /\ r.pagesInUse \in Nat /\ r.softDel \in Nat
    BY BlockFields
  <2>5. r.state # "collecting" /\ r.state # "dirty"
    BY <1>1, <1>5, <2>1 DEF InState
  <2>6. CASE r.state = "empty"
    BY <2>1, <2>3, <2>4, <2>6
  <2>7. CASE r.state \in {"full", "allocating"}
    BY <2>1, <2>2, <2>3, <2>4, <2>7
  <2>8. CASE r.state = "dead"
    BY <2>1, <2>3, <2>8
  <2>9. QED
    BY <2>4, <2>5, <2>6, <2>7, <2>8 DEF States
<1>9. dev.erased = Cardinality(InState(dev.blk, {"empty"}))
  BY <1>3 DEF CountsOk
<1>10. QED
  BY <1>7, <1>8, <1>9

(* Between two calls the counts of erased blocks, of free chunks and of    *)
(* pages in use are what a count over the block table gives, for every     *)
(* partition, if the blocks in reserve are enough: a chunk that the        *)
(* collector finds no page for is dropped while its file still has it.     *)
THEOREM AccountingCorrect ==
  Spec /\ []ReserveSuffices => []Accounting
<1>1. Init => GutsInv
  BY GutsInit
<1>2. GutsInv /\ ReserveSuffices /\ [Next]_vars => GutsInv'
  BY GutsNext
<1>3. GutsInv => Accounting
  BY GutsAccounting
<1>4. QED
  BY <1>1, <1>2, <1>3, PTL DEF Spec

(* What memory has is on the flash.                                        *)
ChunksOnFlash == mounted => HeldOk(obj, dev, nand)

(* A chunk that memory has for a file, its header or its data, is in use   *)
(* in the block table and is on the flash a page that this file wrote at   *)
(* that place: no collection, erasure or reuse of a block takes it away.   *)
THEOREM ChunksCorrect ==
  Spec /\ []ReserveSuffices => []ChunksOnFlash
<1>1. Init => GutsInv
  BY GutsInit
<1>2. GutsInv /\ ReserveSuffices /\ [Next]_vars => GutsInv'
  BY GutsNext
<1>3. GutsInv => ChunksOnFlash
  BY DEF GutsInv, MemoryOk, DevOk, ChunksOnFlash
<1>4. QED
  BY <1>1, <1>2, <1>3, PTL DEF Spec

(***************************************************************************)
(* The log.  YaffsScanProofs proves what a scan of the flash finds; its    *)
(* definitions and the lemmas about one file, one block and one step of    *)
(* the log are here.                                                       *)
(***************************************************************************)

(* The log as a function of the flash n and the bad blocks x.              *)
At(n, c) == n[c[1]][c[2]]
LogOf(n, x) == {c \in Addr : c[1] \notin x /\ c[2] <= Len(n[c[1]]) /\ At(n, c) # Torn}
Later(s, c, e) == s[c[1]] > s[e[1]] \/ (c[1] = e[1] /\ c[2] > e[2])
Of(n, C, f, k) == {c \in C : At(n, c).file = f /\ At(n, c).chunk = k}

FirstOk(n) == \A b \in Blocks : n[b] # <<>> => n[b][1] # Torn
Apart(n, s, x) ==
  \A a, b \in Blocks \ x : n[a] # <<>> /\ n[b] # <<>> /\ a # b => s[a] # s[b]

(* The block table agrees with the flash.                                  *)
BlockSide(n, s, x, d, b) ==
  LET r == d.blk[b] IN
  /\ r.state = "dead" <=> b \in x
  /\ r.state = "empty" => n[b] = <<>>
  /\ r.state = "dirty" => ~r.shrink
  /\ r.state = "allocating" => b = d.alloc
  /\ b \notin x /\ n[b] # <<>> =>
       /\ r.seq = s[b] /\ s[b] <= d.seq
       /\ d.alloc # None /\ b # d.alloc => s[b] < d.seq
SideOk(n, s, x, d) ==
  /\ \A b \in Blocks : BlockSide(n, s, x, d, b)
  /\ d.alloc # None =>
       /\ d.blk[d.alloc].seq = d.seq
       /\ \A p \in Pages : p >= d.page /\ p <= Len(n[d.alloc]) => n[d.alloc][p] = Torn

(* What the block table adds: chunks in use, blocks with a shrink header,  *)
(* and blocks that may hold a chunk of no file: those being allocated from *)
(* or full count it as soft-deleted.                                       *)
Bits(d) == {c \in Addr : c[2] \in d.blk[c[1]].bits}
Flagged(d) == {b \in Blocks : d.blk[b].shrink}
Soft(d) == {b \in Blocks : d.blk[b].state \in {"full", "allocating"} => d.blk[b].softDel >= 1}

(* What is left of a call to do for the file f.                            *)
Left(t, f) == {t[i] : i \in {j \in DOMAIN t : t[j].op # "gc" /\ t[j].file = f}}
HeaderPending(q) == \E x \in q : x.op = "header"
CutPending(q) == \E x \in q : x.op = "header" /\ x.shrink
PrunePending(q, k) == \E x \in q : x.op = "prune" /\ x.chunk = k

OwnOf(w, k) == IF k = 0 THEN w.hdr ELSE w.tnode[k]
SizeLeft(p) == IF p.dir # "root" THEN 0 ELSE p.size
IsTomb(p) == p.chunk = 0 /\ p.dir = "deleted"
Cutter(p, k) == p.chunk = 0 /\ (p.shrink \/ p.dir # "root") /\ k > SizeLeft(p)
Guard(s, F, h, e) == Later(s, h, e) /\ (h[1] \in F \/ h[1] = e[1])
Buried(n, C, s, F, e) ==
  \E h \in Of(n, C, At(n, e).file, 0) :
    At(n, h).dir = "deleted" /\ At(n, h).shrink /\ Guard(s, F, h, e)
Barred(n, C, s, F, e) ==
  \E h \in Of(n, C, At(n, e).file, 0) :
    At(n, h).shrink /\ At(n, e).chunk > SizeLeft(At(n, h)) /\ Guard(s, F, h, e)

InUse(n, C, K, f) == {c \in C : c \in K /\ At(n, c).file = f /\ At(n, c).chunk # 0}

UseOk(n, C, K, S, w, f) ==
  /\ \A c \in C : c \in K /\ At(n, c).file = f /\ OwnOf(w, At(n, c).chunk) # c =>
       At(n, c).chunk # 0 /\ w.here /\ w.deleted /\ c[1] \in S
  /\ w.here => Cardinality(InUse(n, C, K, f)) <= w.nData

HeaderOk(n, C, s, w, q, f) ==
  w.hdr # None =>
    /\ \A c \in Of(n, C, f, 0) : c = w.hdr \/ Later(s, w.hdr, c)
    /\ ~HeaderPending(q) => At(n, w.hdr).dir = w.dir
    /\ At(n, w.hdr).dir = "deleted" => w.dir = "deleted"
    /\ w.dir = "root" => /\ At(n, w.hdr).dir = "root"
                         /\ ~HeaderPending(q) => At(n, w.hdr).size <= w.size

GoneOk(n, C, s, F, w, f) ==
  w.hdr = None \/ At(n, w.hdr).dir = "deleted" =>
    \A c \in C : At(n, c).file = f => IsTomb(At(n, c)) \/ Buried(n, C, s, F, c)

DataOk(n, C, s, F, w, q, f) ==
  w.hdr # None /\ At(n, w.hdr).dir = "root" =>
    \A k \in 1 .. FileChunks : \A e \in Of(n, C, f, k) :
      /\ e = w.tnode[k] => \A h \in C : At(n, h).file = f /\ Later(s, h, e) => ~Cutter(At(n, h), k)
      /\ e # w.tnode[k] /\ (\E h \in Of(n, C, f, 0) : At(n, h).dir # "root" /\ Later(s, h, e))
           => Barred(n, C, s, F, e)
      /\ w.tnode[k] # None /\ e # w.tnode[k] => Later(s, w.tnode[k], e)
      /\ w.tnode[k] = None =>
           Barred(n, C, s, F, e) \/ (CutPending(q) /\ w.dir = "root" /\ k > w.size)
      /\ w.dir = "root" /\ ~HeaderPending(q) /\ Later(s, e, w.hdr) => k <= w.size

ObjectOk(w, q) ==
  /\ w.hdr = None => w.nData = 0 /\ \A k \in 1 .. FileChunks : w.tnode[k] = None
  /\ w.dir = "deleted" => w.nData = 0 /\ \A k \in 1 .. FileChunks : w.tnode[k] = None
  /\ w.deleted => w.dir # "root"
  /\ w.dir = "root" =>
       \A k \in 1 .. FileChunks : w.tnode[k] # None => k <= w.size \/ PrunePending(q, k)

CallOk(w, q) ==
  /\ w.here /\ w.hdr = None =>
       \E x \in q : x.op \in IF w.dir = "root" THEN {"header", "destroy"} ELSE {"remove"}
  /\ \A x \in q :
       /\ x.op = "put" => w.hdr # None /\ w.dir # "deleted"
       /\ x.op = "prune" => /\ w.hdr # None
                            /\ IF w.dir = "root" THEN x.chunk > w.size /\ CutPending(q)
                               ELSE ~HeaderPending(q)
       /\ x.op = "header" /\ w.dir = "deleted" => x.shrink
       /\ x.op = "destroy" => w.hdr = None \/ w.dir # "root"
       /\ x.op = "remove" => w.dir = "deleted"

FileOk(n, C, s, K, F, S, w, q, f) ==
  /\ UseOk(n, C, K, S, w, f)
  /\ HeaderOk(n, C, s, w, q, f)
  /\ GoneOk(n, C, s, F, w, f)
  /\ DataOk(n, C, s, F, w, q, f)
  /\ ObjectOk(w, q) /\ CallOk(w, q)

(* What the log alone says, when nothing is in memory.                     *)
Newest(n, C, s, h) == \A c \in Of(n, C, At(n, h).file, 0) : c = h \/ Later(s, h, c)
LogInv(n, C, s) ==
  /\ \A c \in C : Of(n, C, At(n, c).file, 0) # {}
  /\ \A h \in C : At(n, h).chunk = 0 /\ Newest(n, C, s, h) =>
       /\ At(n, h).dir = "deleted" =>
            \A c \in C : At(n, c).file = At(n, h).file => IsTomb(At(n, c)) \/
              \E x \in Of(n, C, At(n, c).file, 0) :
                 At(n, x).dir = "deleted" /\ At(n, x).shrink /\ Later(s, x, c)
       /\ At(n, h).dir = "root" =>
            \A e \in C :
              At(n, e).file = At(n, h).file /\ At(n, e).chunk # 0
              /\ (\E x \in Of(n, C, At(n, h).file, 0) : At(n, x).dir # "root" /\ Later(s, x, e))
                => \E x \in Of(n, C, At(n, h).file, 0) :
                     At(n, x).shrink /\ At(n, e).chunk > SizeLeft(At(n, x)) /\ Later(s, x, e)


-----------------------------------------------------------------------------
(* The log and its order.                                                  *)

LEMMA LaterOrder ==
  ASSUME NEW n \in Flash, NEW s \in [Blocks -> Nat], NEW x, Apart(n, s, x)
  PROVE  /\ \A c, e \in Addr : Later(s, c, e) => ~Later(s, e, c) /\ c # e
         /\ \A c, e, h \in Addr : Later(s, c, e) /\ Later(s, e, h) => Later(s, c, h)
         /\ \A c, e \in LogOf(n, x) : c # e => Later(s, c, e) \/ Later(s, e, c)
<1>1. \A c \in Addr : c[1] \in Blocks /\ c[2] \in Nat /\ c = <<c[1], c[2]>> /\ s[c[1]] \in Nat
  <2>1. Pages \subseteq Nat
    BY Geometry DEF Pages
  <2>2. QED
    BY <2>1, AddrPair
<1>2. ASSUME NEW c \in Addr, NEW e \in Addr, Later(s, c, e) PROVE ~Later(s, e, c) /\ c # e
  BY <1>1, <1>2 DEF Later
<1>3. ASSUME NEW c \in Addr, NEW e \in Addr, NEW h \in Addr, Later(s, c, e), Later(s, e, h)
      PROVE  Later(s, c, h)
  BY <1>1, <1>3 DEF Later
<1>4. ASSUME NEW c \in LogOf(n, x), NEW e \in LogOf(n, x), c # e
      PROVE  Later(s, c, e) \/ Later(s, e, c)
  <2>1. c \in Addr /\ e \in Addr /\ c[1] \notin x /\ e[1] \notin x
        /\ c[2] <= Len(n[c[1]]) /\ e[2] <= Len(n[e[1]])
    BY DEF LogOf
  <2>2. c[2] >= 1 /\ e[2] >= 1
    BY <2>1, AddrPair, Geometry DEF Pages
  <2>3. n[c[1]] # <<>> /\ n[e[1]] # <<>>
    BY <1>1, <2>1, <2>2 DEF Flash
  <2>4. CASE c[1] = e[1]
    BY <1>1, <1>4, <2>1, <2>4 DEF Later
  <2>5. CASE c[1] # e[1]
    <3>1. s[c[1]] # s[e[1]]
      BY <1>1, <2>1, <2>3, <2>5 DEF Apart
    <3>2. QED
      BY <1>1, <2>1, <3>1 DEF Later
  <2>6. QED
    BY <2>4, <2>5
<1>5. QED
  BY <1>2, <1>3, <1>4

LEMMA LogAddr ==
  ASSUME NEW n \in Flash, NEW x
  PROVE  /\ LogOf(n, x) \subseteq Addr /\ IsFiniteSet(LogOf(n, x))
         /\ \A c \in LogOf(n, x) :
              /\ c[1] \in Blocks /\ c[2] \in Pages /\ c[1] \notin x /\ c[2] <= Len(n[c[1]])
              /\ n[c[1]] # <<>> /\ At(n, c) \in PagesOfLog
              /\ At(n, c).file \in Files /\ At(n, c).chunk \in 0 .. FileChunks
              /\ At(n, c).dir \in Dirs /\ At(n, c).size \in 0 .. FileChunks
              /\ At(n, c).shrink \in BOOLEAN
<1>1. LogOf(n, x) \subseteq Addr
  BY DEF LogOf
<1>2. ASSUME NEW c \in LogOf(n, x)
      PROVE  /\ c[1] \in Blocks /\ c[2] \in Pages /\ c[1] \notin x /\ c[2] <= Len(n[c[1]])
             /\ n[c[1]] # <<>> /\ At(n, c) \in PagesOfLog
  <2>1. c \in Addr /\ c[1] \notin x /\ c[2] <= Len(n[c[1]]) /\ At(n, c) # Torn
    BY DEF LogOf
  <2>2. c[1] \in Blocks /\ c[2] \in Pages /\ c[2] \in Nat /\ c[2] >= 1
    BY <2>1, AddrPair, Geometry DEF Pages
  <2>3. n[c[1]] \in Seq(PagesOfLog \cup {Torn})
    BY <2>2 DEF Flash
  <2>4. c[2] \in 1 .. Len(n[c[1]])
    BY <2>1, <2>2, <2>3
  <2>5. At(n, c) \in PagesOfLog \cup {Torn}
    BY <2>3, <2>4 DEF At
  <2>6. QED
    BY <2>1, <2>2, <2>3, <2>4, <2>5
<1>3. QED
  BY <1>1, <1>2, AddrFinite DEF PagesOfLog

LEMMA LogIs ==
  ASSUME nand \in Flash, FirstOk(nand)
  PROVE  /\ Log = LogOf(nand, bad) /\ \A c : Tag(c) = At(nand, c)
         /\ \A c, e : Newer(c, e) = Later(nseq, c, e)
         /\ \A b \in Blocks : NeedsScanning(b) <=> b \notin bad /\ nand[b] # <<>>
         /\ Live \subseteq Log
<1>1. \A b \in Blocks : NeedsScanning(b) <=> b \notin bad /\ nand[b] # <<>>
  BY DEF NeedsScanning, FirstOk
<1>2. Log \subseteq LogOf(nand, bad)
  BY DEF Log, Readable, NeedsScanning, LogOf, At
<1>3. ASSUME NEW c \in LogOf(nand, bad) PROVE c \in Log
  <2>1. c \in Readable
    BY DEF LogOf, Readable, At
  <2>2. NeedsScanning(c[1])
    BY <1>1, LogAddr
  <2>3. QED
    BY <2>1, <2>2 DEF Log
<1>4. QED
  BY <1>1, <1>2, <1>3 DEF Tag, At, Newer, Later, Live

(* A page is programmed behind the last one of a block.                    *)
LEMMA LogProgram ==
  ASSUME NEW n \in Flash, NEW x, NEW b \in Blocks, b \notin x, NEW page \in PagesOfLog \cup {Torn},
         Len(n[b]) + 1 \in Pages, NEW m, m = Programmed(n, b, page),
         NEW c, c = <<b, Len(n[b]) + 1>>
  PROVE  /\ m \in Flash /\ c \in Addr /\ c \notin LogOf(n, x) /\ At(m, c) = page
         /\ page # Torn => LogOf(m, x) = LogOf(n, x) \cup {c}
         /\ page = Torn => LogOf(m, x) = LogOf(n, x)
         /\ \A a \in LogOf(n, x) : At(m, a) = At(n, a)
         /\ \A a \in Blocks \ {b} : m[a] = n[a]
         /\ Len(m[b]) = Len(n[b]) + 1 /\ m[b] # <<>>
         /\ FirstOk(n) /\ (page # Torn \/ n[b] # <<>>) => FirstOk(m)
<1>1. PICK q : q = n[b] /\ q \in Seq(PagesOfLog \cup {Torn})
  BY DEF Flash
<1>2. PICK r \in Seq(PagesOfLog \cup {Torn}) : r = Append(q, page)
  BY <1>1, AppendProperties
<1>3. /\ Len(q) \in Nat /\ Len(r) = Len(q) + 1 /\ r[Len(q) + 1] = page /\ r # <<>>
      /\ \A i \in 1 .. Len(q) : r[i] = q[i]
  <2>1. Len(q) \in Nat /\ Len(r) = Len(q) + 1
    BY <1>1, <1>2
  <2>2. r[Len(q) + 1] = page /\ \A i \in 1 .. Len(q) : r[i] = q[i]
    BY <1>1, <1>2
  <2>3. r # <<>>
    BY <1>2, <2>1
  <2>4. QED
    BY <2>1, <2>2, <2>3
<1>4. m = [n EXCEPT ![b] = r]
  BY <1>1, <1>2 DEF Programmed
<1>5. m \in Flash /\ m[b] = r /\ \A a \in Blocks \ {b} : m[a] = n[a]
  BY <1>2, <1>4 DEF Flash
<1>6. c \in Addr /\ c[1] = b /\ c[2] = Len(q) + 1
  BY <1>1, AddrPair
<1>7. c \notin LogOf(n, x)
  BY <1>1, <1>3, <1>6 DEF LogOf
<1>8. At(m, c) = page
  BY <1>3, <1>5, <1>6 DEF At
<1>9. ASSUME NEW a \in Addr, a # c
      PROVE  /\ a \in LogOf(m, x) <=> a \in LogOf(n, x)
             /\ a \in LogOf(n, x) => At(m, a) = At(n, a)
  <2>1. a[1] \in Blocks /\ a[2] \in Nat /\ a[2] >= 1 /\ a = <<a[1], a[2]>>
    BY AddrPair, Geometry DEF Pages
  <2>2. CASE a[1] # b
    <3>1. m[a[1]] = n[a[1]]
      BY <1>5, <2>1, <2>2
    <3>2. QED
      BY <3>1 DEF LogOf, At
  <2>3. CASE a[1] = b
    <3>1. a[2] # Len(q) + 1
      BY <1>1, <1>9, <2>1, <2>3
    <3>2. (a[2] <= Len(r)) = (a[2] <= Len(q))
      BY <1>3, <2>1, <3>1
    <3>3. a[2] <= Len(q) => r[a[2]] = q[a[2]]
      BY <1>3, <2>1
    <3>4. QED
      BY <1>1, <1>5, <2>3, <3>2, <3>3 DEF LogOf, At
  <2>4. QED
    BY <2>2, <2>3
<1>10. (c \in LogOf(m, x)) = (page # Torn)
  <2>1. c[2] <= Len(m[c[1]])
    BY <1>3, <1>5, <1>6
  <2>2. QED
    BY <1>6, <1>8, <2>1 DEF LogOf
<1>11. LogOf(m, x) \subseteq Addr /\ LogOf(n, x) \subseteq Addr
  BY DEF LogOf
<1>12. page # Torn => LogOf(m, x) = LogOf(n, x) \cup {c}
  <2>1. page # Torn => LogOf(m, x) \subseteq LogOf(n, x) \cup {c}
    BY <1>9, <1>11
  <2>2. page # Torn => LogOf(n, x) \cup {c} \subseteq LogOf(m, x)
    BY <1>7, <1>9, <1>10, <1>11
  <2>3. QED
    BY <2>1, <2>2
<1>13. page = Torn => LogOf(m, x) = LogOf(n, x)
  <2>1. page = Torn => LogOf(m, x) \subseteq LogOf(n, x)
    BY <1>9, <1>10, <1>11
  <2>2. LogOf(n, x) \ {c} \subseteq LogOf(m, x)
    BY <1>9, <1>11
  <2>3. QED
    BY <1>7, <2>1, <2>2
<1>14. \A a \in LogOf(n, x) : At(m, a) = At(n, a)
  BY <1>7, <1>9, <1>11
<1>15. ASSUME FirstOk(n), page # Torn \/ q # <<>> PROVE FirstOk(m)
  <2>1. ASSUME NEW a \in Blocks, m[a] # <<>> PROVE m[a][1] # Torn
    <3>1. CASE a # b
      BY <1>5, <1>15, <2>1, <3>1 DEF FirstOk
    <3>2. CASE a = b /\ q = <<>>
      <4>1. Len(q) = 0
        BY <3>2
      <4>2. r[1] = page
        BY <1>3, <4>1
      <4>3. QED
        BY <1>5, <1>15, <3>2, <4>2
    <3>3. CASE a = b /\ q # <<>>
      <4>1. 1 \in 1 .. Len(q)
        BY <1>1, <1>3, <3>3
      <4>2. QED
        BY <1>1, <1>3, <1>5, <1>15, <3>3, <4>1 DEF FirstOk
    <3>4. QED
      BY <3>1, <3>2, <3>3
  <2>2. QED
    BY <2>1 DEF FirstOk
<1>16. QED
  BY <1>1, <1>3, <1>5, <1>6, <1>7, <1>8, <1>12, <1>13, <1>14, <1>15

(* A block is erased, or marked bad.                                       *)
LEMMA LogErase ==
  ASSUME NEW n \in Flash, NEW x, NEW b \in Blocks, NEW m, m = [n EXCEPT ![b] = <<>>]
  PROVE  /\ m \in Flash
         /\ LogOf(m, x) = {c \in LogOf(n, x) : c[1] # b}
         /\ \A c \in LogOf(m, x) : At(m, c) = At(n, c)
         /\ m[b] = <<>> /\ \A a \in Blocks \ {b} : m[a] = n[a]
<1>1. m \in Flash /\ m[b] = <<>> /\ \A a \in Blocks \ {b} : m[a] = n[a]
  BY DEF Flash
<1>2. ASSUME NEW c \in Addr
      PROVE  /\ c \in LogOf(m, x) <=> c \in LogOf(n, x) /\ c[1] # b
             /\ c[1] # b => At(m, c) = At(n, c)
  <2>1. c[1] \in Blocks /\ c[2] \in Nat /\ c[2] >= 1
    BY AddrPair, Geometry DEF Pages
  <2>2. CASE c[1] = b
    <3>1. ~(c[2] <= Len(m[c[1]]))
      BY <1>1, <2>1, <2>2
    <3>2. QED
      BY <2>2, <3>1 DEF LogOf
  <2>3. CASE c[1] # b
    BY <1>1, <2>1, <2>3 DEF LogOf, At
  <2>4. QED
    BY <2>2, <2>3
<1>3. LogOf(m, x) \subseteq Addr /\ LogOf(n, x) \subseteq Addr
  BY DEF LogOf
<1>4. QED
  BY <1>1, <1>2, <1>3

LEMMA LogLost ==
  ASSUME NEW n, NEW x, NEW b
  PROVE  LogOf(n, x \cup {b}) = {c \in LogOf(n, x) : c[1] # b}
BY DEF LogOf

-----------------------------------------------------------------------------
(* What memory has for a file, and the log that grows or loses a block.    *)

(* The chunks that memory has for the file f are in the log and in use.    *)
OwnIn(n, C, K, w, f) ==
  \A k \in 0 .. FileChunks : OwnOf(w, k) # None =>
    /\ w.here /\ OwnOf(w, k) \in C /\ OwnOf(w, k) \in K
    /\ At(n, OwnOf(w, k)).file = f /\ At(n, OwnOf(w, k)).chunk = k

LEMMA OwnKinds ==
  \A w : OwnOf(w, 0) = w.hdr /\ \A k \in 1 .. FileChunks : k \in 0 .. FileChunks /\ OwnOf(w, k) = w.tnode[k]
BY Geometry DEF OwnOf

LEMMA OwnInParts ==
  ASSUME NEW n, NEW C, NEW K, NEW w, NEW f, OwnIn(n, C, K, w, f)
  PROVE  /\ w.hdr # None => /\ w.here /\ w.hdr \in C /\ w.hdr \in K
                            /\ At(n, w.hdr).file = f /\ At(n, w.hdr).chunk = 0
                            /\ w.hdr \in Of(n, C, f, 0)
         /\ \A k \in 1 .. FileChunks : w.tnode[k] # None =>
              /\ w.here /\ w.tnode[k] \in C /\ w.tnode[k] \in K
              /\ At(n, w.tnode[k]).file = f /\ At(n, w.tnode[k]).chunk = k
              /\ w.tnode[k] \in Of(n, C, f, k)
<1>1. 0 \in 0 .. FileChunks
  BY Geometry
<1>2. w.hdr # None => /\ w.here /\ w.hdr \in C /\ w.hdr \in K
                      /\ At(n, w.hdr).file = f /\ At(n, w.hdr).chunk = 0
  BY <1>1, OwnKinds DEF OwnIn
<1>3. \A k \in 1 .. FileChunks : w.tnode[k] # None =>
        /\ w.here /\ w.tnode[k] \in C /\ w.tnode[k] \in K
        /\ At(n, w.tnode[k]).file = f /\ At(n, w.tnode[k]).chunk = k
  BY OwnKinds DEF OwnIn
<1>4. QED
  BY <1>2, <1>3 DEF Of

Grown(n, C, s, F, m, E, u, G) ==
  /\ C \subseteq E /\ F \subseteq G
  /\ \A c \in C : At(m, c) = At(n, c)
  /\ \A c, e \in C : Later(u, c, e) <=> Later(s, c, e)

LEMMA AgainstKept ==
  ASSUME NEW n, NEW C, NEW s, NEW F, NEW m, NEW E, NEW u, NEW G, Grown(n, C, s, F, m, E, u, G)
  PROVE  /\ \A e \in C : Buried(n, C, s, F, e) => Buried(m, E, u, G, e)
         /\ \A e \in C : Barred(n, C, s, F, e) => Barred(m, E, u, G, e)
<1>1. /\ C \subseteq E /\ \A c \in C : At(m, c) = At(n, c)
      /\ \A f, k : Of(n, C, f, k) \subseteq Of(m, E, f, k) /\ Of(n, C, f, k) \subseteq C
  BY DEF Grown, Of
<1>2. \A h, e \in C : Guard(s, F, h, e) => Guard(u, G, h, e)
  BY DEF Grown, Guard
<1>3. ASSUME NEW e \in C, Buried(n, C, s, F, e) PROVE Buried(m, E, u, G, e)
  BY <1>1, <1>2, <1>3 DEF Buried
<1>4. ASSUME NEW e \in C, Barred(n, C, s, F, e) PROVE Barred(m, E, u, G, e)
  BY <1>1, <1>2, <1>4 DEF Barred
<1>5. QED
  BY <1>3, <1>4

(* The log grows by pages of other files.                                  *)
Apartly(n, C, m, E, f) ==
  /\ C \subseteq E /\ \A c \in C : At(m, c) = At(n, c)
  /\ \A c \in E : At(m, c).file = f => c \in C

LEMMA SameOf ==
  ASSUME NEW n, NEW C, NEW m, NEW E, NEW f, Apartly(n, C, m, E, f)
  PROVE  \A k : Of(m, E, f, k) = Of(n, C, f, k)
BY DEF Apartly, Of

LEMMA UseKept ==
  ASSUME NEW n, NEW C, IsFiniteSet(C), NEW K, NEW S, NEW m, NEW E, NEW L, NEW T,
         NEW w, NEW f, UseOk(n, C, K, S, w, f), w.here => w.nData \in Int,
         \A c \in C : At(m, c) = At(n, c),
         \A c \in E : At(m, c).file = f /\ c \in L => c \in C /\ c \in K,
         \A c \in C : c \in L /\ c \in K /\ c[1] \in S => c[1] \in T
  PROVE  UseOk(m, E, L, T, w, f)
<1>1. InUse(m, E, L, f) \subseteq InUse(n, C, K, f)
  BY DEF InUse
<1>2. IsFiniteSet(InUse(n, C, K, f))
  BY FS_Subset DEF InUse
<1>3. /\ IsFiniteSet(InUse(m, E, L, f))
      /\ Cardinality(InUse(m, E, L, f)) <= Cardinality(InUse(n, C, K, f))
      /\ Cardinality(InUse(m, E, L, f)) \in Nat /\ Cardinality(InUse(n, C, K, f)) \in Nat
  BY <1>1, <1>2, FS_Subset, FS_CardinalityType
<1>4. w.here => Cardinality(InUse(m, E, L, f)) <= w.nData
  <2>1. w.here => Cardinality(InUse(n, C, K, f)) <= w.nData
    BY DEF UseOk
  <2>2. QED
    BY <1>3, <2>1
<1>5. ASSUME NEW c \in E, c \in L, At(m, c).file = f, OwnOf(w, At(m, c).chunk) # c
      PROVE  At(m, c).chunk # 0 /\ w.here /\ w.deleted /\ c[1] \in T
  <2>1. c \in C /\ c \in K /\ At(m, c) = At(n, c)
    BY <1>5
  <2>2. At(n, c).chunk # 0 /\ w.here /\ w.deleted /\ c[1] \in S
    BY <1>5, <2>1 DEF UseOk
  <2>3. QED
    BY <1>5, <2>1, <2>2
<1>6. QED
  BY <1>4, <1>5 DEF UseOk

LEMMA HeaderKept ==
  ASSUME NEW n, NEW C, NEW s, NEW m, NEW E, NEW u, NEW K, NEW w, NEW q, NEW f,
         HeaderOk(n, C, s, w, q, f), OwnIn(n, C, K, w, f), Apartly(n, C, m, E, f),
         \A c, e \in C : Later(u, c, e) <=> Later(s, c, e)
  PROVE  HeaderOk(m, E, u, w, q, f)
<1>1. Of(m, E, f, 0) = Of(n, C, f, 0)
  BY SameOf
<1>2. w.hdr # None => w.hdr \in C
  BY OwnInParts
<1>3. Of(n, C, f, 0) \subseteq C
  BY DEF Of
<1>4. w.hdr # None => At(m, w.hdr) = At(n, w.hdr)
  BY <1>2 DEF Apartly
<1>5. QED
  BY <1>1, <1>2, <1>3, <1>4 DEF HeaderOk

LEMMA GoneKept ==
  ASSUME NEW n, NEW C, NEW s, NEW F, NEW m, NEW E, NEW u, NEW G, NEW K, NEW w, NEW f,
         GoneOk(n, C, s, F, w, f), OwnIn(n, C, K, w, f), Apartly(n, C, m, E, f),
         Grown(n, C, s, F, m, E, u, G)
  PROVE  GoneOk(m, E, u, G, w, f)
<1>1. w.hdr # None => At(m, w.hdr) = At(n, w.hdr)
  BY OwnInParts DEF Apartly
<1>2. QED
  BY <1>1, AgainstKept DEF GoneOk, Apartly

LEMMA DataKept ==
  ASSUME NEW n, NEW C, NEW s, NEW F, NEW m, NEW E, NEW u, NEW G, NEW K, NEW w, NEW q, NEW f,
         DataOk(n, C, s, F, w, q, f), OwnIn(n, C, K, w, f), Apartly(n, C, m, E, f),
         Grown(n, C, s, F, m, E, u, G)
  PROVE  DataOk(m, E, u, G, w, q, f)
<1>1. w.hdr # None => w.hdr \in C /\ At(m, w.hdr) = At(n, w.hdr)
  BY OwnInParts DEF Apartly
<1>2. \A k : Of(m, E, f, k) = Of(n, C, f, k) /\ Of(n, C, f, k) \subseteq C
  BY SameOf DEF Of
<1>3. /\ \A c \in C : At(m, c) = At(n, c) /\ (c \in E)
      /\ \A c \in E : At(m, c).file = f => c \in C
      /\ \A c, e \in C : Later(u, c, e) <=> Later(s, c, e)
  BY DEF Apartly, Grown
<1>4. \A e \in C : Barred(n, C, s, F, e) => Barred(m, E, u, G, e)
  BY AgainstKept
<1>5. ASSUME w.hdr # None, At(m, w.hdr).dir = "root", NEW k \in 1 .. FileChunks, NEW e \in Of(m, E, f, k)
      PROVE  /\ e = w.tnode[k] => \A h \in E : At(m, h).file = f /\ Later(u, h, e) => ~Cutter(At(m, h), k)
             /\ e # w.tnode[k] /\ (\E h \in Of(m, E, f, 0) : At(m, h).dir # "root" /\ Later(u, h, e))
                  => Barred(m, E, u, G, e)
             /\ w.tnode[k] # None /\ e # w.tnode[k] => Later(u, w.tnode[k], e)
             /\ w.tnode[k] = None =>
                  Barred(m, E, u, G, e) \/ (CutPending(q) /\ w.dir = "root" /\ k > w.size)
             /\ w.dir = "root" /\ ~HeaderPending(q) /\ Later(u, e, w.hdr) => k <= w.size
  <2>1. e \in C /\ e \in Of(n, C, f, k) /\ At(n, w.hdr).dir = "root"
    BY <1>1, <1>2, <1>5
  <2>2. /\ e = w.tnode[k] => \A h \in C : At(n, h).file = f /\ Later(s, h, e) => ~Cutter(At(n, h), k)
        /\ e # w.tnode[k] /\ (\E h \in Of(n, C, f, 0) : At(n, h).dir # "root" /\ Later(s, h, e))
             => Barred(n, C, s, F, e)
        /\ w.tnode[k] # None /\ e # w.tnode[k] => Later(s, w.tnode[k], e)
        /\ w.tnode[k] = None =>
             Barred(n, C, s, F, e) \/ (CutPending(q) /\ w.dir = "root" /\ k > w.size)
        /\ w.dir = "root" /\ ~HeaderPending(q) /\ Later(s, e, w.hdr) => k <= w.size
    BY <1>5, <2>1 DEF DataOk
  <2>3. w.tnode[k] # None => w.tnode[k] \in C
    BY OwnInParts
  <2>4. e = w.tnode[k] => \A h \in E : At(m, h).file = f /\ Later(u, h, e) => ~Cutter(At(m, h), k)
    BY <1>3, <2>1, <2>2
  <2>5. e # w.tnode[k] /\ (\E h \in Of(m, E, f, 0) : At(m, h).dir # "root" /\ Later(u, h, e))
          => Barred(m, E, u, G, e)
    BY <1>2, <1>3, <1>4, <2>1, <2>2
  <2>6. w.tnode[k] # None /\ e # w.tnode[k] => Later(u, w.tnode[k], e)
    BY <1>3, <2>1, <2>2, <2>3
  <2>7. w.tnode[k] = None => Barred(m, E, u, G, e) \/ (CutPending(q) /\ w.dir = "root" /\ k > w.size)
    BY <1>4, <2>1, <2>2
  <2>8. w.dir = "root" /\ ~HeaderPending(q) /\ Later(u, e, w.hdr) => k <= w.size
    BY <1>1, <1>3, <1>5, <2>1, <2>2
  <2>9. QED
    BY <2>4, <2>5, <2>6, <2>7, <2>8
<1>6. QED
  BY <1>5 DEF DataOk

LEMMA FileKept ==
  ASSUME NEW n, NEW C, IsFiniteSet(C), NEW s, NEW K, NEW F, NEW S,
         NEW m, NEW E, NEW u, NEW L, NEW G, NEW T, NEW w, NEW q, NEW f,
         FileOk(n, C, s, K, F, S, w, q, f), OwnIn(n, C, K, w, f), w.nData \in Int,
         Apartly(n, C, m, E, f), Grown(n, C, s, F, m, E, u, G),
         \A c \in C : At(n, c).file = f /\ c \in L => c \in K,
         \A c \in C : c \in L /\ c \in K /\ c[1] \in S => c[1] \in T
  PROVE  FileOk(m, E, u, L, G, T, w, q, f)
<1>1. /\ UseOk(n, C, K, S, w, f) /\ HeaderOk(n, C, s, w, q, f) /\ GoneOk(n, C, s, F, w, f)
      /\ DataOk(n, C, s, F, w, q, f) /\ ObjectOk(w, q) /\ CallOk(w, q)
  BY DEF FileOk
<1>2. /\ \A c \in C : At(m, c) = At(n, c)
      /\ \A c \in E : At(m, c).file = f => c \in C
      /\ \A c, e \in C : Later(u, c, e) <=> Later(s, c, e)
  BY DEF Apartly, Grown
<1>3. UseOk(m, E, L, T, w, f)
  <2>1. \A c \in E : At(m, c).file = f /\ c \in L => c \in C /\ c \in K
    BY <1>2
  <2>2. QED
    BY <1>1, <1>2, <2>1, UseKept
<1>4. HeaderOk(m, E, u, w, q, f)
  BY <1>1, <1>2, HeaderKept
<1>5. GoneOk(m, E, u, G, w, f)
  BY <1>1, GoneKept
<1>6. DataOk(m, E, u, G, w, q, f)
  BY <1>1, DataKept
<1>7. QED
  BY <1>1, <1>3, <1>4, <1>5, <1>6 DEF FileOk

(* The log loses a block, or a block its flag: what stands against a page  *)
(* that memory has no more must not be lost.                               *)
LEMMA FileWeaker ==
  ASSUME NEW n, NEW C, IsFiniteSet(C), C \subseteq Addr, NEW s, NEW K, NEW F, NEW S,
         NEW m, NEW E, NEW L, NEW G, NEW T, NEW w, NEW q, NEW f \in Files,
         FileOk(n, C, s, K, F, S, w, q, f), OwnIn(n, C, K, w, f), w.nData \in Int,
         \A c \in C : At(n, c).file = f => At(n, c).chunk \in 0 .. FileChunks,
         E \subseteq C, \A c \in E : At(m, c) = At(n, c),
         \A k \in 0 .. FileChunks : OwnOf(w, k) # None => OwnOf(w, k) \in E,
         \A c \in E : At(n, c).file = f /\ c \in L => c \in K,
         \A c \in E : c \in L /\ c \in K /\ c[1] \in S => c[1] \in T,
         \A h \in C, e \in E : At(n, e).file = f /\ OwnOf(w, At(n, e).chunk) # e
                               /\ Guard(s, F, h, e) => h \in E /\ Guard(s, G, h, e)
  PROVE  FileOk(m, E, s, L, G, T, w, q, f)
<1>1. /\ UseOk(n, C, K, S, w, f) /\ HeaderOk(n, C, s, w, q, f) /\ GoneOk(n, C, s, F, w, f)
      /\ DataOk(n, C, s, F, w, q, f) /\ ObjectOk(w, q) /\ CallOk(w, q)
  BY DEF FileOk
<1>2. \A k : Of(m, E, f, k) \subseteq Of(n, C, f, k) /\ Of(m, E, f, k) \subseteq E
             /\ \A c \in E : c \in Of(n, C, f, k) => c \in Of(m, E, f, k)
  BY DEF Of
<1>3. w.hdr # None => w.hdr \in E /\ At(m, w.hdr) = At(n, w.hdr)
  BY OwnKinds, Geometry
<1>4. UseOk(m, E, L, T, w, f)
  <2>1. InUse(m, E, L, f) \subseteq InUse(n, C, K, f)
    BY DEF InUse
  <2>2. IsFiniteSet(InUse(n, C, K, f))
    BY FS_Subset DEF InUse
  <2>3. /\ Cardinality(InUse(m, E, L, f)) <= Cardinality(InUse(n, C, K, f))
        /\ Cardinality(InUse(m, E, L, f)) \in Nat /\ Cardinality(InUse(n, C, K, f)) \in Nat
    BY <2>1, <2>2, FS_Subset, FS_CardinalityType
  <2>4. w.here => Cardinality(InUse(n, C, K, f)) <= w.nData
    BY <1>1 DEF UseOk
  <2>5. w.here => Cardinality(InUse(m, E, L, f)) <= w.nData
    BY <2>3, <2>4
  <2>6. \A c \in C : c \in K /\ At(n, c).file = f /\ OwnOf(w, At(n, c).chunk) # c =>
          At(n, c).chunk # 0 /\ w.here /\ w.deleted /\ c[1] \in S
    BY <1>1 DEF UseOk
  <2>7. \A c \in E : c \in L /\ At(m, c).file = f /\ OwnOf(w, At(m, c).chunk) # c =>
          At(m, c).chunk # 0 /\ w.here /\ w.deleted /\ c[1] \in T
    BY <2>6
  <2>8. QED
    BY <2>5, <2>7 DEF UseOk
<1>5. HeaderOk(m, E, s, w, q, f)
  BY <1>1, <1>2, <1>3 DEF HeaderOk
<1>6. \A e \in E : /\ At(n, e).file = f /\ OwnOf(w, At(n, e).chunk) # e
                   => /\ Buried(n, C, s, F, e) => Buried(m, E, s, G, e)
                      /\ Barred(n, C, s, F, e) => Barred(m, E, s, G, e)
  <2>1. SUFFICES ASSUME NEW e \in E, At(n, e).file = f, OwnOf(w, At(n, e).chunk) # e
                 PROVE  /\ Buried(n, C, s, F, e) => Buried(m, E, s, G, e)
                        /\ Barred(n, C, s, F, e) => Barred(m, E, s, G, e)
    OBVIOUS
  <2>2. \A h \in Of(n, C, f, 0) : Guard(s, F, h, e) =>
          h \in Of(m, E, f, 0) /\ Guard(s, G, h, e) /\ At(m, h) = At(n, h)
    BY <1>2, <2>1 DEF Of
  <2>3. At(m, e) = At(n, e)
    BY <2>1
  <2>4. Buried(n, C, s, F, e) => Buried(m, E, s, G, e)
    BY <2>1, <2>2, <2>3 DEF Buried
  <2>5. Barred(n, C, s, F, e) => Barred(m, E, s, G, e)
    BY <2>1, <2>2, <2>3 DEF Barred
  <2>6. QED
    BY <2>4, <2>5
<1>7. GoneOk(m, E, s, G, w, f)
  <2>1. SUFFICES ASSUME w.hdr = None \/ At(m, w.hdr).dir = "deleted",
                        NEW c \in E, At(m, c).file = f, ~IsTomb(At(m, c))
                 PROVE  Buried(m, E, s, G, c)
    BY DEF GoneOk
  <2>2. c \in C /\ At(n, c).file = f /\ ~IsTomb(At(n, c))
    BY <2>1
  <2>3. w.hdr = None \/ At(n, w.hdr).dir = "deleted"
    BY <1>3, <2>1
  <2>4. Buried(n, C, s, F, c)
    BY <1>1, <2>2, <2>3 DEF GoneOk
  <2>5. \A k \in 1 .. FileChunks : w.tnode[k] = None
    BY <1>1, <2>3 DEF HeaderOk, ObjectOk
  <2>6. c # None
    BY Distinct
  <2>7. At(n, c).chunk \in 0 .. FileChunks
    BY <2>2
  <2>8. OwnOf(w, At(n, c).chunk) # c
    <3>1. CASE At(n, c).chunk = 0
      BY <2>2, <2>3, <2>6, <3>1, OwnKinds DEF IsTomb
    <3>2. CASE At(n, c).chunk # 0
      BY <2>5, <2>6, <2>7, <3>2, OwnKinds, Geometry
    <3>3. QED
      BY <3>1, <3>2
  <2>9. QED
    BY <1>6, <2>2, <2>4, <2>8
<1>8. DataOk(m, E, s, G, w, q, f)
  <2>1. SUFFICES ASSUME w.hdr # None, At(m, w.hdr).dir = "root",
                        NEW k \in 1 .. FileChunks, NEW e \in Of(m, E, f, k)
        PROVE  /\ e = w.tnode[k] => \A h \in E : At(m, h).file = f /\ Later(s, h, e) => ~Cutter(At(m, h), k)
               /\ e # w.tnode[k] /\ (\E h \in Of(m, E, f, 0) : At(m, h).dir # "root" /\ Later(s, h, e))
                    => Barred(m, E, s, G, e)
               /\ w.tnode[k] # None /\ e # w.tnode[k] => Later(s, w.tnode[k], e)
               /\ w.tnode[k] = None =>
                    Barred(m, E, s, G, e) \/ (CutPending(q) /\ w.dir = "root" /\ k > w.size)
               /\ w.dir = "root" /\ ~HeaderPending(q) /\ Later(s, e, w.hdr) => k <= w.size
    BY DEF DataOk
  <2>2. e \in C /\ e \in E /\ e \in Of(n, C, f, k) /\ At(n, w.hdr).dir = "root"
    BY <1>2, <1>3, <2>1
  <2>3. /\ e = w.tnode[k] => \A h \in C : At(n, h).file = f /\ Later(s, h, e) => ~Cutter(At(n, h), k)
        /\ e # w.tnode[k] /\ (\E h \in Of(n, C, f, 0) : At(n, h).dir # "root" /\ Later(s, h, e))
             => Barred(n, C, s, F, e)
        /\ w.tnode[k] # None /\ e # w.tnode[k] => Later(s, w.tnode[k], e)
        /\ w.tnode[k] = None =>
             Barred(n, C, s, F, e) \/ (CutPending(q) /\ w.dir = "root" /\ k > w.size)
        /\ w.dir = "root" /\ ~HeaderPending(q) /\ Later(s, e, w.hdr) => k <= w.size
    BY <1>1, <2>1, <2>2 DEF DataOk
  <2>4. e # w.tnode[k] => (Barred(n, C, s, F, e) => Barred(m, E, s, G, e))
    BY <1>6, <2>2, OwnKinds DEF Of
  <2>5. e = w.tnode[k] => \A h \in E : At(m, h).file = f /\ Later(s, h, e) => ~Cutter(At(m, h), k)
    BY <2>3
  <2>6. e # w.tnode[k] /\ (\E h \in Of(m, E, f, 0) : At(m, h).dir # "root" /\ Later(s, h, e))
          => Barred(m, E, s, G, e)
    BY <1>2, <2>3, <2>4
  <2>7. e # None
    BY <2>2, Distinct
  <2>8. w.tnode[k] = None => Barred(m, E, s, G, e) \/ (CutPending(q) /\ w.dir = "root" /\ k > w.size)
    BY <2>3, <2>4, <2>7
  <2>9. QED
    BY <2>3, <2>5, <2>6, <2>8
<1>9. QED
  BY <1>1, <1>4, <1>5, <1>7, <1>8 DEF FileOk

-----------------------------------------------------------------------------
(* What is left of a call.                                                 *)

LEMMA LeftType ==
  ASSUME NEW t \in Seq(Ops), NEW f
  PROVE  \A y \in Left(t, f) : y \in Ops /\ y.file = f /\ y.op # "gc"
BY DEF Left

LEMMA LeftTail ==
  ASSUME NEW t \in Seq(Ops), t # <<>>, NEW f
  PROVE  Left(t, f) = Left(Tail(t), f)
                      \cup (IF Head(t).op # "gc" /\ Head(t).file = f THEN {Head(t)} ELSE {})
<1>1. PICK r : r = Tail(t)
  OBVIOUS
<1>2. /\ r \in Seq(Ops) /\ Len(t) \in Nat /\ Len(t) >= 1 /\ Len(r) = Len(t) - 1
      /\ Head(t) = t[1] /\ \A i \in 1 .. Len(r) : r[i] = t[i + 1]
  BY <1>1, HeadTailProperties
<1>3. DOMAIN t = 1 .. Len(t) /\ DOMAIN r = 1 .. Len(r)
  BY <1>2
<1>4. ASSUME NEW i \in DOMAIN t, i # 1 PROVE i - 1 \in DOMAIN r /\ r[i - 1] = t[i]
  BY <1>2, <1>3, <1>4
<1>5. ASSUME NEW i \in DOMAIN r PROVE i + 1 \in DOMAIN t /\ t[i + 1] = r[i]
  BY <1>2, <1>3, <1>5
<1>6. 1 \in DOMAIN t
  BY <1>2, <1>3
<1>7. Left(t, f) \subseteq Left(r, f) \cup (IF Head(t).op # "gc" /\ Head(t).file = f THEN {Head(t)} ELSE {})
  <2>1. SUFFICES ASSUME NEW i \in DOMAIN t, t[i].op # "gc", t[i].file = f
                 PROVE  t[i] \in Left(r, f) \/ (t[i] = Head(t) /\ Head(t).op # "gc" /\ Head(t).file = f)
    BY DEF Left
  <2>2. CASE i = 1
    BY <1>2, <2>1, <2>2
  <2>3. CASE i # 1
    BY <1>4, <2>1, <2>3 DEF Left
  <2>4. QED
    BY <2>2, <2>3
<1>8. Left(r, f) \subseteq Left(t, f)
  BY <1>5 DEF Left
<1>9. Head(t).op # "gc" /\ Head(t).file = f => Head(t) \in Left(t, f)
  BY <1>2, <1>6 DEF Left
<1>10. QED
  BY <1>1, <1>7, <1>8, <1>9

LEMMA LeftConcat ==
  ASSUME NEW t \in Seq(Ops), NEW s \in Seq(Ops), NEW f
  PROVE  Left(t \o s, f) = Left(t, f) \cup Left(s, f)
<1>1. PICK z : z = t \o s
  OBVIOUS
<1>2. /\ Len(t) \in Nat /\ Len(s) \in Nat /\ Len(z) = Len(t) + Len(s)
      /\ \A i \in 1 .. Len(t) : z[i] = t[i]
      /\ \A i \in 1 .. Len(s) : z[Len(t) + i] = s[i]
  BY <1>1, ConcatProperties
<1>3. DOMAIN t = 1 .. Len(t) /\ DOMAIN s = 1 .. Len(s) /\ DOMAIN z = 1 .. Len(z)
  BY <1>1, <1>2
<1>4. ASSUME NEW i \in DOMAIN z
      PROVE  \/ i \in DOMAIN t /\ z[i] = t[i]
             \/ i - Len(t) \in DOMAIN s /\ z[i] = s[i - Len(t)]
  <2>1. CASE i <= Len(t)
    BY <1>2, <1>3, <2>1
  <2>2. CASE i > Len(t)
    <3>1. i - Len(t) \in 1 .. Len(s) /\ Len(t) + (i - Len(t)) = i
      BY <1>2, <1>3, <2>2
    <3>2. QED
      BY <1>2, <1>3, <3>1
  <2>3. QED
    BY <1>2, <1>3, <2>1, <2>2
<1>5. \A i \in DOMAIN t : i \in DOMAIN z /\ z[i] = t[i]
  BY <1>2, <1>3
<1>6. \A i \in DOMAIN s : Len(t) + i \in DOMAIN z /\ z[Len(t) + i] = s[i]
  BY <1>2, <1>3
<1>7. Left(z, f) \subseteq Left(t, f) \cup Left(s, f)
  BY <1>4 DEF Left
<1>8. Left(t, f) \subseteq Left(z, f)
  BY <1>5 DEF Left
<1>9. Left(s, f) \subseteq Left(z, f)
  BY <1>6 DEF Left
<1>10. QED
  BY <1>1, <1>7, <1>8, <1>9

LEMMA LeftOne ==
  ASSUME NEW x \in Ops, NEW f
  PROVE  /\ Left(<<x>>, f) = IF x.op # "gc" /\ x.file = f THEN {x} ELSE {}
         /\ Left(<<>>, f) = {}
<1>1. PICK s : s = <<x>>
  OBVIOUS
<1>2. s \in Seq(Ops) /\ DOMAIN s = 1 .. 1 /\ s[1] = x
  BY <1>1
<1>3. \A i : i \in DOMAIN s <=> i = 1
  BY <1>2
<1>4. Left(s, f) = IF x.op # "gc" /\ x.file = f THEN {x} ELSE {}
  BY <1>2, <1>3 DEF Left
<1>5. \A i : i \notin DOMAIN <<>>
  OBVIOUS
<1>6. Left(<<>>, f) = {}
  BY <1>5 DEF Left
<1>7. QED
  BY <1>1, <1>4, <1>6

LEMMA LeftTwo ==
  ASSUME NEW x \in Ops, NEW y \in Ops, NEW f
  PROVE  Left(<<x, y>>, f) = {z \in {x, y} : z.op # "gc" /\ z.file = f}
<1>1. PICK s : s = <<x, y>>
  OBVIOUS
<1>2. s \in Seq(Ops) /\ DOMAIN s = {1, 2} /\ s[1] = x /\ s[2] = y
  BY <1>1
<1>3. Left(s, f) = {z \in {x, y} : z.op # "gc" /\ z.file = f}
  BY <1>2 DEF Left
<1>4. QED
  BY <1>1, <1>3

(* What may be left for the file of the step that was just done.           *)
LEMMA LeftRest ==
  ASSUME NEW t \in Seq(Ops), NEW o, NEW g, TodoOk(t, o, g), t # <<>>, Head(t).op # "gc"
  PROVE  LET f == Head(t).file
             r == Left(Tail(t), f)
         IN /\ Left(t, f) = r \cup {Head(t)}
            /\ \A h : h # f => Left(t, h) = Left(Tail(t), h)
            /\ Head(t).op \in {"put", "destroy", "remove"} => r = {}
            /\ Head(t).op = "header" => \A x \in r : x.op = "remove" /\ o[f].dir = "deleted"
            /\ Head(t).op = "prune" => \A x \in r : x.op \in {"prune", "header"}
<1>1. PICK f, r : f = Head(t).file /\ r = Left(Tail(t), f)
  OBVIOUS
<1>2. Left(t, f) = r \cup {Head(t)}
  BY <1>1, LeftTail
<1>3. ASSUME NEW h, h # f PROVE Left(t, h) = Left(Tail(t), h)
  <2>1. Left(t, h) = Left(Tail(t), h)
                     \cup (IF Head(t).op # "gc" /\ Head(t).file = h THEN {Head(t)} ELSE {})
    BY LeftTail
  <2>2. QED
    BY <1>1, <1>3, <2>1
<1>4. \A x \in r : \/ Head(t).op = "prune" /\ x.op \in {"prune", "header"}
                   \/ Head(t).op = "header" /\ x.op = "remove" /\ o[f].dir = "deleted"
  <2>1. SUFFICES ASSUME NEW x \in r
        PROVE \/ Head(t).op = "prune" /\ x.op \in {"prune", "header"}
              \/ Head(t).op = "header" /\ x.op = "remove" /\ o[f].dir = "deleted"
    OBVIOUS
  <2>2. PICK i \in DOMAIN Tail(t) : x = Tail(t)[i] /\ x.op # "gc" /\ x.file = f
    BY <1>1, <2>1 DEF Left
  <2>3. On(Tail(t), i)
    BY <2>2 DEF On
  <2>4. QED
    BY <1>1, <2>2, <2>3, HeadOk
<1>5. QED
  BY <1>1, <1>2, <1>3, <1>4

-----------------------------------------------------------------------------
(* The device: what each operation on it changes.                          *)

LEMMA ReadyFields ==
  ASSUME NEW d \in Devices, NEW e, e = Ready(d)
  PROVE  \/ e = d
         \/ \E b \in Blocks :
              /\ d.alloc = None /\ d.blk[b].state = "empty"
              /\ e.alloc = b /\ e.page = 1 /\ e.seq = d.seq + 1
              /\ \A y \in Blocks \ {b} : e.blk[y] = d.blk[y]
              /\ e.blk[b].state = "allocating" /\ e.blk[b].seq = d.seq + 1
              /\ e.blk[b].bits = d.blk[b].bits /\ e.blk[b].softDel = d.blk[b].softDel
              /\ e.blk[b].shrink = d.blk[b].shrink
<1> DEFINE empty == InState(d.blk, {"empty"})
           x == CHOOSE y \in empty : \A z \in empty : y <= z
<1>1. CASE d.alloc # None \/ d.erased < 1 \/ empty = {}
  BY <1>1 DEF Ready, FindBlockForAllocation
<1>2. CASE d.alloc = None /\ ~(d.erased < 1) /\ empty # {}
  <2>1. empty \in SUBSET Nat /\ empty \subseteq Blocks
    BY Geometry DEF InState
  <2>2. x \in empty
    BY <1>2, <2>1, LeastLemma
  <2>3. PICK b \in Blocks : b = x /\ d.blk[b].state = "empty"
    BY <2>1, <2>2 DEF InState
  <2>4. e = [d EXCEPT !.alloc = b, !.page = 1, !.seq = @ + 1, !.erased = @ - 1,
                      !.blk[b].state = "allocating", !.blk[b].seq = d.seq + 1]
    BY <1>2, <2>3 DEF Ready, FindBlockForAllocation
  <2>5. PICK r : r = [d.blk[b] EXCEPT !.state = "allocating", !.seq = d.seq + 1]
    OBVIOUS
  <2>6. d.blk \in [Blocks -> BlockInfos] /\ d.blk[b] \in BlockInfos
    BY DEF Devices
  <2>7. /\ r.state = "allocating" /\ r.seq = d.seq + 1 /\ r.bits = d.blk[b].bits
        /\ r.softDel = d.blk[b].softDel /\ r.shrink = d.blk[b].shrink
    BY <2>5, <2>6 DEF BlockInfos
  <2>8. e.blk = [d.blk EXCEPT ![b] = r]
    <3>1. e.blk = [d.blk EXCEPT ![b].state = "allocating", ![b].seq = d.seq + 1]
      BY ONLY <2>4, d \in Devices DEF Devices
    <3>2. QED
      BY ONLY <2>5, <2>6, <3>1 DEF BlockInfos
  <2>9. e.alloc = b /\ e.page = 1 /\ e.seq = d.seq + 1
    BY <2>4 DEF Devices
  <2>10. e.blk[b] = r /\ \A y \in Blocks \ {b} : e.blk[y] = d.blk[y]
    BY <2>6, <2>8
  <2>11. QED
    BY <1>2, <2>3, <2>7, <2>9, <2>10
<1>3. QED
  BY <1>1, <1>2

LEMMA AllocatedFields ==
  ASSUME NEW d \in Devices, NEW b \in Blocks, d.alloc = b, NEW e, e = Allocated(d)
  PROVE  /\ e.alloc = (IF d.page = ChunksPerBlock THEN None ELSE b)
         /\ e.page = d.page + 1 /\ e.seq = d.seq
         /\ \A y \in Blocks \ {b} : e.blk[y] = d.blk[y]
         /\ e.blk[b].state = (IF d.page = ChunksPerBlock THEN "full" ELSE d.blk[b].state)
         /\ e.blk[b].bits = d.blk[b].bits \cup {d.page} /\ e.blk[b].seq = d.blk[b].seq
         /\ e.blk[b].softDel = d.blk[b].softDel /\ e.blk[b].shrink = d.blk[b].shrink
<1>1. PICK r : r = d.blk[b]
  OBVIOUS
<1>2. d.blk \in [Blocks -> BlockInfos] /\ r \in BlockInfos
  BY <1>1 DEF Devices
<1>3. PICK u : u = [r EXCEPT !.bits = @ \cup {d.page}, !.pagesInUse = @ + 1,
                             !.state = IF d.page = ChunksPerBlock THEN "full" ELSE @]
  OBVIOUS
<1>4. /\ u.state = (IF d.page = ChunksPerBlock THEN "full" ELSE r.state) /\ u.seq = r.seq
      /\ u.bits = r.bits \cup {d.page} /\ u.softDel = r.softDel /\ u.shrink = r.shrink
  BY <1>2, <1>3 DEF BlockInfos
<1>5. e = [d EXCEPT !.free = @ - 1, !.page = @ + 1,
                    !.alloc = IF d.page = ChunksPerBlock THEN None ELSE @, !.blk[b] = u]
  BY <1>1, <1>3 DEF Allocated
<1>6. /\ e.blk = [d.blk EXCEPT ![b] = u] /\ e.page = d.page + 1 /\ e.seq = d.seq
      /\ e.alloc = (IF d.page = ChunksPerBlock THEN None ELSE b)
  BY <1>5 DEF Devices
<1>7. e.blk[b] = u /\ \A y \in Blocks \ {b} : e.blk[y] = d.blk[y]
  BY <1>2, <1>6
<1>8. QED
  BY <1>1, <1>4, <1>6, <1>7

LEMMA DeleteFields ==
  ASSUME NEW d \in Devices, NEW b \in Blocks, NEW c, c # None, c[1] = b,
         d.blk[b].state \in {"allocating", "full", "collecting"}, NEW e, e = DeleteChunk(d, c)
  PROVE  /\ e.alloc = d.alloc /\ e.page = d.page /\ e.seq = d.seq
         /\ \A y \in Blocks \ {b} : e.blk[y] = d.blk[y]
         /\ \/ e.blk[b].state = d.blk[b].state
            \/ e.blk[b].state = "dirty" /\ ~d.blk[b].shrink /\ d.blk[b].state # "allocating"
         /\ e.blk[b].bits = d.blk[b].bits \ {c[2]} /\ e.blk[b].seq = d.blk[b].seq
         /\ e.blk[b].softDel = d.blk[b].softDel /\ e.blk[b].shrink = d.blk[b].shrink
<1>1. PICK r : r = d.blk[b]
  OBVIOUS
<1>2. d.blk \in [Blocks -> BlockInfos] /\ r \in BlockInfos
  BY <1>1 DEF Devices
<1>3. PICK u : u = [r EXCEPT !.bits = @ \ {c[2]}, !.pagesInUse = @ - 1,
                             !.state = IF r.pagesInUse = 1 /\ ~r.shrink /\ r.state # "allocating"
                                       THEN "dirty" ELSE @]
  OBVIOUS
<1>4. /\ u.state = (IF r.pagesInUse = 1 /\ ~r.shrink /\ r.state # "allocating" THEN "dirty" ELSE r.state)
      /\ u.seq = r.seq /\ u.bits = r.bits \ {c[2]} /\ u.softDel = r.softDel /\ u.shrink = r.shrink
  BY <1>2, <1>3 DEF BlockInfos
<1>5. e = [d EXCEPT !.free = @ + 1, !.blk[b] = u]
  BY <1>1, <1>3 DEF DeleteChunk
<1>6. e.blk = [d.blk EXCEPT ![b] = u] /\ e.page = d.page /\ e.seq = d.seq /\ e.alloc = d.alloc
  BY <1>5 DEF Devices
<1>7. e.blk[b] = u /\ \A y \in Blocks \ {b} : e.blk[y] = d.blk[y]
  BY <1>2, <1>6
<1>8. QED
  BY <1>1, <1>4, <1>6, <1>7

(* Flags stay, and so does what is known of the blocks of chunks in use.   *)
Tracks(d, e) ==
  /\ Flagged(d) \subseteq Flagged(e)
  /\ \A c \in Bits(d) : c \in Bits(e) /\ c[1] \in Soft(d) => c[1] \in Soft(e)

LEMMA BitsAddr ==
  ASSUME NEW d
  PROVE  /\ Bits(d) \subseteq Addr
         /\ \A c \in Bits(d) : c[1] \in Blocks /\ c[2] \in Pages /\ c = <<c[1], c[2]>>
                               /\ c[2] \in d.blk[c[1]].bits
         /\ \A b \in Blocks, p \in Pages : <<b, p>> \in Bits(d) <=> p \in d.blk[b].bits
BY AddrPair DEF Bits

LEMMA ReadySide ==
  ASSUME NEW d, NEW o \in [Files -> Objects], NEW n \in Flash, NEW g, DevOk(d, o, n, g),
         NEW s \in [Blocks -> Nat], NEW x, SideOk(n, s, x, d), NEW e, e = Ready(d)
  PROVE  SideOk(n, s, x, e) /\ Bits(e) = Bits(d) /\ Flagged(e) = Flagged(d) /\ Tracks(d, e)
<1>1. d \in Devices /\ d.seq \in Nat /\ \A b \in Blocks : BlockOk(d, o, g, b)
  BY DeviceFields DEF DevOk
<1>2. CASE e = d
  BY <1>2 DEF Tracks
<1>3. ASSUME NEW b \in Blocks, d.alloc = None, d.blk[b].state = "empty",
             e.alloc = b, e.page = 1, e.seq = d.seq + 1,
             \A y \in Blocks \ {b} : e.blk[y] = d.blk[y],
             e.blk[b].state = "allocating", e.blk[b].seq = d.seq + 1,
             e.blk[b].bits = d.blk[b].bits, e.blk[b].softDel = d.blk[b].softDel,
             e.blk[b].shrink = d.blk[b].shrink
      PROVE  SideOk(n, s, x, e) /\ Bits(e) = Bits(d) /\ Flagged(e) = Flagged(d) /\ Tracks(d, e)
  <2>1. \A y \in Blocks : e.blk[y].bits = d.blk[y].bits /\ e.blk[y].shrink = d.blk[y].shrink
    BY <1>3
  <2>2. Bits(e) = Bits(d) /\ Flagged(e) = Flagged(d)
    BY <2>1, AddrPair DEF Bits, Flagged
  <2>3. n[b] = <<>> /\ Len(n[b]) = 0 /\ b \notin x
    BY <1>3 DEF SideOk, BlockSide
  <2>4. ASSUME NEW y \in Blocks PROVE BlockSide(n, s, x, e, y)
    <3>1. BlockSide(n, s, x, d, y)
      BY DEF SideOk
    <3>2. CASE y = b
      BY <1>3, <2>3, <3>2 DEF BlockSide
    <3>3. CASE y # b
      <4>1. d.blk[y].state # "allocating"
        BY <1>3, <3>1, Distinct DEF BlockSide
      <4>2. e.blk[y] = d.blk[y] /\ s[y] \in Nat
        BY <1>3, <3>3
      <4>3. s[y] <= d.seq => s[y] <= e.seq /\ s[y] < e.seq
        BY <1>1, <1>3, <4>2
      <4>4. QED
        BY <3>1, <4>1, <4>2, <4>3 DEF BlockSide
    <3>4. QED
      BY <3>2, <3>3
  <2>5. \A p \in Pages : ~(p <= Len(n[b]))
    BY <2>3, Geometry DEF Pages
  <2>6. SideOk(n, s, x, e)
    BY <1>3, <2>4, <2>5 DEF SideOk
  <2>7. d.blk[b].bits = {}
    BY <1>1, <1>3 DEF BlockOk
  <2>8. ASSUME NEW c \in Bits(d), c[1] \in Soft(d) PROVE c[1] \in Soft(e)
    <3>1. c[1] \in Blocks /\ c[1] # b
      BY <2>7, BitsAddr
    <3>2. QED
      BY <1>3, <2>8, <3>1 DEF Soft
  <2>9. QED
    BY <2>2, <2>6, <2>8 DEF Tracks
<1>4. QED
  BY <1>1, <1>2, <1>3, ReadyFields

LEMMA AllocatedBits ==
  ASSUME NEW d, NEW o \in [Files -> Objects], NEW n \in Flash, NEW g, DevOk(d, o, n, g),
         NEW b \in Blocks, d.alloc = b, NEW e, e = Allocated(d)
  PROVE  LET c == NextChunk(d) IN
         /\ c \in Addr /\ c[1] = b /\ c[2] = d.page /\ c \notin Bits(d)
         /\ Bits(e) = Bits(d) \cup {c} /\ Flagged(e) = Flagged(d) /\ Tracks(d, e)
         /\ (c[1] \in Soft(e)) = (b \in Soft(d))
<1>1. /\ d \in Devices /\ b # None /\ d.blk[b].state = "allocating"
      /\ d.page \in Pages /\ \A p \in d.blk[b].bits : p < d.page
  BY Distinct DEF DevOk, AllocOk
<1>2. /\ \A y \in Blocks \ {b} : e.blk[y] = d.blk[y]
      /\ e.blk[b].state \in {"full", "allocating"}
      /\ e.blk[b].bits = d.blk[b].bits \cup {d.page}
      /\ e.blk[b].softDel = d.blk[b].softDel /\ e.blk[b].shrink = d.blk[b].shrink
  BY <1>1, AllocatedFields
<1>3. PICK c : c = NextChunk(d)
  OBVIOUS
<1>4. c = <<b, d.page>> /\ c \in Addr /\ c[1] = b /\ c[2] = d.page
  BY <1>1, <1>3, AddrPair DEF NextChunk
<1>5. c \notin Bits(d)
  <2>1. d.page \notin d.blk[b].bits
    BY <1>1 DEF Pages
  <2>2. QED
    BY <1>4, <2>1, BitsAddr
<1>6. Bits(e) = Bits(d) \cup {c}
  <2>1. ASSUME NEW a \in Addr PROVE a \in Bits(e) <=> a \in Bits(d) \/ a = c
    <3>1. a[1] \in Blocks /\ a = <<a[1], a[2]>>
      BY AddrPair
    <3>2. CASE a[1] = b
      BY <1>2, <1>4, <3>1, <3>2 DEF Bits
    <3>3. CASE a[1] # b
      BY <1>2, <1>4, <3>1, <3>3 DEF Bits
    <3>4. QED
      BY <3>2, <3>3
  <2>2. Bits(e) \subseteq Addr /\ Bits(d) \subseteq Addr
    BY DEF Bits
  <2>3. QED
    BY <1>4, <2>1, <2>2
<1>7. Flagged(e) = Flagged(d)
  BY <1>2 DEF Flagged
<1>8. \A y \in Blocks : y \in Soft(e) <=> y \in Soft(d)
  BY <1>1, <1>2 DEF Soft
<1>9. Tracks(d, e)
  BY <1>6, <1>7, <1>8, BitsAddr DEF Tracks
<1>10. QED
  BY <1>3, <1>4, <1>5, <1>6, <1>7, <1>8, <1>9

LEMMA AllocatedSide ==
  ASSUME NEW d, NEW o \in [Files -> Objects], NEW n \in Flash, NEW g, DevOk(d, o, n, g),
         NEW b \in Blocks, d.alloc = b, NEW e, e = Allocated(d),
         NEW s \in [Blocks -> Nat], NEW x, SideOk(n, s, x, d), NEW m, NEW u \in [Blocks -> Nat],
         \A y \in Blocks \ {b} : m[y] = n[y] /\ u[y] = s[y],
         m[b] # <<>>, u[b] = d.seq,
         \A p \in Pages : p > d.page /\ p <= Len(m[b]) => m[b][p] = Torn
  PROVE  SideOk(m, u, x, e)
<1>1. /\ d \in Devices /\ b # None /\ d.blk[b].state = "allocating" /\ d.page \in Pages
  BY Distinct DEF DevOk, AllocOk
<1>2. /\ \A y \in Blocks \ {b} : e.blk[y] = d.blk[y]
      /\ e.alloc = (IF d.page = ChunksPerBlock THEN None ELSE b)
      /\ e.blk[b].state = (IF d.page = ChunksPerBlock THEN "full" ELSE "allocating")
      /\ e.page = d.page + 1 /\ e.seq = d.seq /\ e.blk[b].seq = d.blk[b].seq
  BY <1>1, AllocatedFields
<1>3. d.blk[b].seq = d.seq /\ d.seq \in Nat
  BY <1>1, DeviceFields DEF SideOk
<1>4. \A y \in Blocks : BlockSide(n, s, x, d, y)
  BY DEF SideOk
<1>5. ASSUME NEW y \in Blocks PROVE BlockSide(m, u, x, e, y)
  <2>1. CASE y = b
    <3>1. b \notin x
      BY <1>1, <1>4 DEF BlockSide
    <3>2. QED
      BY <1>1, <1>2, <1>3, <2>1, <3>1 DEF BlockSide
  <2>2. CASE y # b
    <3>1. m[y] = n[y] /\ u[y] = s[y] /\ e.blk[y] = d.blk[y] /\ BlockSide(n, s, x, d, y)
      BY <1>2, <1>4, <2>2
    <3>2. d.blk[y].state # "allocating"
      BY <2>2, <3>1 DEF BlockSide
    <3>3. QED
      BY <1>1, <1>2, <2>2, <3>1, <3>2 DEF BlockSide
  <2>3. QED
    BY <2>1, <2>2
<1>6. ASSUME e.alloc # None
      PROVE  /\ e.blk[e.alloc].seq = e.seq
             /\ \A p \in Pages : p >= e.page /\ p <= Len(m[e.alloc]) => m[e.alloc][p] = Torn
  <2>1. e.alloc = b
    BY <1>2, <1>6
  <2>2. \A p \in Pages : p >= e.page => p > d.page
    BY <1>1, <1>2, Geometry DEF Pages
  <2>3. QED
    BY <1>2, <1>3, <2>1, <2>2
<1>7. QED
  BY <1>5, <1>6 DEF SideOk

(* A page that is not erased is skipped.                                   *)
LEMMA SkippedSide ==
  ASSUME NEW d, NEW o \in [Files -> Objects], NEW n \in Flash, NEW g, DevOk(d, o, n, g),
         NEW b \in Blocks, d.alloc = b, d.page <= Len(n[b]), NEW e, e = Allocated(d),
         NEW s \in [Blocks -> Nat], NEW x, SideOk(n, s, x, d)
  PROVE  SideOk(n, s, x, e) /\ NextChunk(d) \notin LogOf(n, x)
<1>1. /\ d \in Devices /\ b # None /\ d.blk[b].state = "allocating" /\ d.page \in Pages
  BY Distinct DEF DevOk, AllocOk
<1>2. n[b] \in Seq(PagesOfLog \cup {Torn})
  BY DEF Flash
<1>3. n[b] # <<>> /\ Len(n[b]) \in Nat
  BY <1>1, <1>2, Geometry DEF Pages
<1>4. /\ d.blk[b].seq = d.seq
      /\ \A p \in Pages : p >= d.page /\ p <= Len(n[b]) => n[b][p] = Torn
      /\ BlockSide(n, s, x, d, b)
  BY <1>1 DEF SideOk
<1>5. b \notin x /\ s[b] = d.seq
  BY <1>1, <1>3, <1>4 DEF BlockSide
<1>6. \A p \in Pages : p > d.page /\ p <= Len(n[b]) => n[b][p] = Torn
  BY <1>1, <1>4, Geometry DEF Pages
<1>7. SideOk(n, s, x, e)
  BY <1>3, <1>5, <1>6, AllocatedSide
<1>8. n[b][d.page] = Torn
  BY <1>1, <1>4, Geometry DEF Pages
<1>9. NextChunk(d)[1] = b /\ NextChunk(d)[2] = d.page
  BY DEF NextChunk
<1>10. NextChunk(d) \notin LogOf(n, x)
  BY <1>8, <1>9 DEF LogOf, At
<1>11. QED
  BY <1>7, <1>10

Numbered(s, b, q) == [s EXCEPT ![b] = q]

(* A page is programmed: the log grows by a last page.                     *)
Behind(n, s, x, m, u, c, page) ==
  /\ c \in Addr /\ c \notin LogOf(n, x) /\ LogOf(m, x) = LogOf(n, x) \cup {c}
  /\ At(m, c) = page /\ \A a \in LogOf(n, x) : At(m, a) = At(n, a) /\ Later(u, c, a)
  /\ \A a, e \in LogOf(n, x) : Later(u, a, e) <=> Later(s, a, e)

LEMMA ProgramSide ==
  ASSUME NEW d, NEW o \in [Files -> Objects], NEW n \in Flash, NEW g, DevOk(d, o, n, g),
         NEW b \in Blocks, d.alloc = b, d.page > Len(n[b]), NEW e, e = Allocated(d),
         NEW s \in [Blocks -> Nat], NEW x, SideOk(n, s, x, d), FirstOk(n), Apart(n, s, x),
         NEW page \in PagesOfLog, NEW m, m = Programmed(n, b, page),
         NEW u, u = Numbered(s, b, d.seq)
  PROVE  /\ m \in Flash /\ u \in [Blocks -> Nat] /\ SideOk(m, u, x, e) /\ FirstOk(m) /\ Apart(m, u, x)
         /\ Behind(n, s, x, m, u, NextChunk(d), page)
<1>1. /\ d \in Devices /\ b # None /\ d.blk[b].state = "allocating" /\ d.page \in Pages
      /\ d.page <= Len(n[b]) + 1
  BY Distinct DEF DevOk, AllocOk
<1>2. n[b] \in Seq(PagesOfLog \cup {Torn}) /\ Len(n[b]) \in Nat
  BY DEF Flash
<1>3. d.page = Len(n[b]) + 1
  BY <1>1, <1>2 DEF Pages
<1>4. PICK c : c = NextChunk(d)
  OBVIOUS
<1>5. c = <<b, Len(n[b]) + 1>> /\ c[1] = b /\ c[2] = d.page
  BY <1>3, <1>4 DEF NextChunk
<1>6. d.blk[b].seq = d.seq /\ d.seq \in Nat /\ \A y \in Blocks : BlockSide(n, s, x, d, y)
  BY <1>1, DeviceFields DEF SideOk
<1>7. b \notin x
  BY <1>1, <1>6 DEF BlockSide
<1>8. page # Torn
  BY Distinct
<1>9. /\ m \in Flash /\ c \in Addr /\ c \notin LogOf(n, x) /\ At(m, c) = page
      /\ LogOf(m, x) = LogOf(n, x) \cup {c} /\ \A a \in LogOf(n, x) : At(m, a) = At(n, a)
      /\ \A a \in Blocks \ {b} : m[a] = n[a]
      /\ Len(m[b]) = Len(n[b]) + 1 /\ m[b] # <<>> /\ FirstOk(m)
  BY <1>1, <1>3, <1>5, <1>7, <1>8, LogProgram
<1>10. u \in [Blocks -> Nat] /\ u[b] = d.seq /\ \A y \in Blocks \ {b} : u[y] = s[y]
  BY <1>6 DEF Numbered
<1>11. \A p \in Pages : ~(p > d.page /\ p <= Len(m[b]))
  BY <1>2, <1>3, <1>9, Geometry DEF Pages
<1>12. SideOk(m, u, x, e)
  <2>1. \A y \in Blocks \ {b} : m[y] = n[y] /\ u[y] = s[y]
    BY <1>9, <1>10
  <2>2. \A p \in Pages : p > d.page /\ p <= Len(m[b]) => m[b][p] = Torn
    BY <1>11
  <2>3. m[b] # <<>> /\ u[b] = d.seq /\ u \in [Blocks -> Nat]
    BY <1>9, <1>10
  <2>4. QED
    BY ONLY <2>1, <2>2, <2>3, o \in [Files -> Objects], n \in Flash, DevOk(d, o, n, g), b \in Blocks,
            d.alloc = b, e = Allocated(d), s \in [Blocks -> Nat], SideOk(n, s, x, d), AllocatedSide
<1>13. \A y \in Blocks \ {b} : y \notin x /\ n[y] # <<>> => s[y] < d.seq
  BY <1>1, <1>6 DEF BlockSide
<1>14. Apart(m, u, x)
  <2>1. ASSUME NEW a \in Blocks \ x, NEW y \in Blocks \ x, m[a] # <<>>, m[y] # <<>>, a # y
        PROVE  u[a] # u[y]
    <3>1. CASE a = b
      BY <1>6, <1>9, <1>10, <1>13, <2>1, <3>1
    <3>2. CASE y = b
      BY <1>6, <1>9, <1>10, <1>13, <2>1, <3>2
    <3>3. CASE a # b /\ y # b
      BY <1>9, <1>10, <2>1, <3>3 DEF Apart
    <3>4. QED
      BY <3>1, <3>2, <3>3
  <2>2. QED
    BY <2>1 DEF Apart
<1>15. ASSUME NEW a \in LogOf(n, x) PROVE u[a[1]] = s[a[1]] /\ Later(u, c, a)
  <2>1. a[1] \in Blocks /\ a[1] \notin x /\ n[a[1]] # <<>> /\ a[2] <= Len(n[a[1]])
        /\ a[2] \in Pages
    BY LogAddr
  <2>2. CASE a[1] = b
    <3>1. s[b] = d.seq
      BY <1>6, <2>1, <2>2 DEF BlockSide
    <3>2. c[2] > a[2]
      BY <1>2, <1>3, <1>5, <2>1, <2>2 DEF Pages
    <3>3. QED
      BY <1>5, <1>10, <2>2, <3>1, <3>2 DEF Later
  <2>3. CASE a[1] # b
    BY <1>5, <1>6, <1>10, <1>13, <2>1, <2>3 DEF Later
  <2>4. QED
    BY <2>2, <2>3
<1>16. \A a, y \in LogOf(n, x) : Later(u, a, y) <=> Later(s, a, y)
  BY <1>15 DEF Later
<1>17. Behind(n, s, x, m, u, c, page)
  BY <1>9, <1>15, <1>16 DEF Behind
<1>18. QED
  BY <1>4, <1>9, <1>10, <1>12, <1>14, <1>17

(* The flash as it was, and no block newly in use.                         *)
LEMMA SideKept ==
  ASSUME NEW d, d.alloc \in Blocks \cup {None}, NEW n, NEW s, NEW x, SideOk(n, s, x, d), NEW e,
         e.alloc = d.alloc, e.page = d.page, e.seq = d.seq,
         \A y \in Blocks : e.blk[y].seq = d.blk[y].seq,
         \A y \in Blocks :
           \/ e.blk[y].state = d.blk[y].state /\ (d.blk[y].state = "dirty" => e.blk[y].shrink = d.blk[y].shrink)
           \/ e.blk[y].state \in {"dirty", "collecting"} /\ d.blk[y].state # "dead" /\ ~e.blk[y].shrink
  PROVE  SideOk(n, s, x, e)
<1>1. ASSUME NEW y \in Blocks PROVE BlockSide(n, s, x, e, y)
  <2>1. BlockSide(n, s, x, d, y)
    BY DEF SideOk
  <2>2. e.blk[y].seq = d.blk[y].seq
    OBVIOUS
  <2>3. CASE e.blk[y].state = d.blk[y].state
             /\ (d.blk[y].state = "dirty" => e.blk[y].shrink = d.blk[y].shrink)
    BY <2>1, <2>2, <2>3 DEF BlockSide
  <2>4. CASE e.blk[y].state \in {"dirty", "collecting"} /\ d.blk[y].state # "dead" /\ ~e.blk[y].shrink
    BY <2>1, <2>2, <2>4 DEF BlockSide
  <2>5. QED
    BY <2>3, <2>4
<1>2. d.alloc # None => d.blk[d.alloc].seq = d.seq
                        /\ \A p \in Pages : p >= d.page /\ p <= Len(n[d.alloc]) => n[d.alloc][p] = Torn
  BY DEF SideOk
<1>3. QED
  BY <1>1, <1>2 DEF SideOk

LEMMA BitsState ==
  ASSUME NEW d, NEW o \in [Files -> Objects], NEW n \in Flash, NEW g, DevOk(d, o, n, g),
         NEW c \in Bits(d)
  PROVE  d.blk[c[1]].state \in {"allocating", "full", "collecting"}
<1>1. c[1] \in Blocks /\ c[2] \in d.blk[c[1]].bits
  BY BitsAddr
<1>2. d.blk[c[1]] \in BlockInfos
  BY <1>1 DEF DevOk, Devices
<1>3. d.blk[c[1]].state \in States
  BY <1>2, BlockFields
<1>4. QED
  BY <1>1, <1>3 DEF DevOk, BlockOk, States

LEMMA DeleteSide ==
  ASSUME NEW d, NEW o \in [Files -> Objects], NEW n \in Flash, NEW g, DevOk(d, o, n, g),
         NEW c, c = None \/ c \in Bits(d), NEW e, e = DeleteChunk(d, c),
         NEW m, NEW s, NEW x, SideOk(m, s, x, d)
  PROVE  SideOk(m, s, x, e) /\ Bits(e) = Bits(d) \ {c} /\ Flagged(e) = Flagged(d) /\ Tracks(d, e)
<1>1. d \in Devices
  BY DEF DevOk
<1>2. CASE c = None
  <2>1. e = d
    BY <1>2 DEF DeleteChunk
  <2>2. None \notin Bits(d)
    BY BitsAddr, Distinct
  <2>3. QED
    BY <1>2, <2>1, <2>2 DEF Tracks
<1>3. CASE c \in Bits(d)
  <2>1. PICK b \in Blocks : b = c[1] /\ c \in Addr /\ c = <<b, c[2]>> /\ c # None
    BY <1>3, BitsAddr, AddrPair, Distinct
  <2>2. d.blk[b].state \in {"allocating", "full", "collecting"}
    BY <1>3, <2>1, BitsState
  <2>3. /\ e.alloc = d.alloc /\ e.page = d.page /\ e.seq = d.seq
        /\ \A y \in Blocks \ {b} : e.blk[y] = d.blk[y]
        /\ \/ e.blk[b].state = d.blk[b].state
           \/ e.blk[b].state = "dirty" /\ ~d.blk[b].shrink /\ d.blk[b].state # "allocating"
        /\ e.blk[b].bits = d.blk[b].bits \ {c[2]} /\ e.blk[b].seq = d.blk[b].seq
        /\ e.blk[b].softDel = d.blk[b].softDel /\ e.blk[b].shrink = d.blk[b].shrink
    BY <1>1, <2>1, <2>2, DeleteFields
  <2>4. SideOk(m, s, x, e)
    <3>1. \A y \in Blocks : e.blk[y].seq = d.blk[y].seq
      BY <2>3
    <3>2. \A y \in Blocks :
           \/ e.blk[y].state = d.blk[y].state /\ (d.blk[y].state = "dirty" => e.blk[y].shrink = d.blk[y].shrink)
           \/ e.blk[y].state \in {"dirty", "collecting"} /\ d.blk[y].state # "dead" /\ ~e.blk[y].shrink
      BY <2>2, <2>3
    <3>3. QED
      BY <1>1, <2>3, <3>1, <3>2, DeviceFields, SideKept
  <2>5. Bits(e) = Bits(d) \ {c}
    <3>1. ASSUME NEW a \in Addr PROVE a \in Bits(e) <=> a \in Bits(d) /\ a # c
      <4>1. a[1] \in Blocks /\ a = <<a[1], a[2]>>
        BY AddrPair
      <4>2. CASE a[1] = b
        BY <2>1, <2>3, <4>1, <4>2 DEF Bits
      <4>3. CASE a[1] # b
        BY <2>1, <2>3, <4>1, <4>3 DEF Bits
      <4>4. QED
        BY <4>2, <4>3
    <3>2. Bits(e) \subseteq Addr /\ Bits(d) \subseteq Addr
      BY DEF Bits
    <3>3. QED
      BY <3>1, <3>2
  <2>6. Flagged(e) = Flagged(d)
    BY <2>3 DEF Flagged
  <2>7. \A y \in Blocks : y \in Soft(d) => y \in Soft(e)
    BY <2>3 DEF Soft
  <2>8. Tracks(d, e)
    BY <2>5, <2>6, <2>7, BitsAddr DEF Tracks
  <2>9. QED
    BY <2>4, <2>5, <2>6, <2>8
<1>4. QED
  BY <1>2, <1>3

LEMMA HeldInLog ==
  ASSUME NEW d, NEW o \in [Files -> Objects], NEW n \in Flash, NEW g, DevOk(d, o, n, g),
         NEW s, NEW x, SideOk(n, s, x, d), NEW f \in Files
  PROVE  OwnIn(n, LogOf(n, x), Bits(d), o[f], f)
<1>1. ASSUME NEW k \in 0 .. FileChunks, OwnOf(o[f], k) # None
      PROVE  LET c == OwnOf(o[f], k) IN
             /\ o[f].here /\ c \in LogOf(n, x) /\ c \in Bits(d)
             /\ At(n, c).file = f /\ At(n, c).chunk = k
  <2>1. PICK c : c = OwnOf(o[f], k) /\ c = Own(o, f, k)
    BY DEF OwnOf, Own
  <2>2. c \in Addr
    BY <1>1, <2>1, OwnType
  <2>3. /\ o[f].here /\ c[2] \in d.blk[c[1]].bits /\ c[2] <= Len(n[c[1]]) /\ n[c[1]][c[2]] # Torn
        /\ n[c[1]][c[2]].file = f /\ n[c[1]][c[2]].chunk = k
    BY <2>1, <2>2, OwnTag DEF DevOk
  <2>4. c \in Bits(d)
    BY <2>2, <2>3 DEF Bits
  <2>5. d.blk[c[1]].state \in {"allocating", "full", "collecting"} /\ c[1] \in Blocks
    BY <2>4, BitsState, BitsAddr
  <2>6. c[1] \notin x
    BY <2>5 DEF SideOk, BlockSide
  <2>7. QED
    BY <2>1, <2>2, <2>3, <2>4, <2>6 DEF LogOf, At
<1>2. QED
  BY <1>1 DEF OwnIn

LEMMA TracksOn ==
  ASSUME NEW d, NEW e, NEW h, Tracks(d, e), Tracks(e, h), Bits(d) \cap Bits(h) \subseteq Bits(e)
  PROVE  Tracks(d, h)
BY DEF Tracks

(* A file that the step leaves alone.                                      *)
LEMMA DeviceKept ==
  ASSUME NEW d, NEW o \in [Files -> Objects], NEW n \in Flash, NEW g, DevOk(d, o, n, g),
         NEW s, NEW x, SideOk(n, s, x, d), NEW f \in Files, NEW q,
         FileOk(n, LogOf(n, x), s, Bits(d), Flagged(d), Soft(d), o[f], q, f),
         NEW e, \A c \in LogOf(n, x) : c \in Bits(e) => c \in Bits(d), Tracks(d, e)
  PROVE  FileOk(n, LogOf(n, x), s, Bits(e), Flagged(e), Soft(e), o[f], q, f)
<1>1. PICK C : C = LogOf(n, x)
  OBVIOUS
<1>2. IsFiniteSet(C) /\ OwnIn(n, C, Bits(d), o[f], f) /\ o[f].nData \in Int
  BY <1>1, LogAddr, HeldInLog DEF Objects
<1>3. Apartly(n, C, n, C, f) /\ Grown(n, C, s, Flagged(d), n, C, s, Flagged(e))
  BY DEF Apartly, Grown, Tracks
<1>4. /\ \A c \in C : At(n, c).file = f /\ c \in Bits(e) => c \in Bits(d)
      /\ \A c \in C : c \in Bits(e) /\ c \in Bits(d) /\ c[1] \in Soft(d) => c[1] \in Soft(e)
  BY <1>1 DEF Tracks
<1>5. FileOk(n, C, s, Bits(d), Flagged(d), Soft(d), o[f], q, f)
  BY <1>1
<1>6. FileOk(n, C, s, Bits(e), Flagged(e), Soft(e), o[f], q, f)
  BY <1>2, <1>3, <1>4, <1>5, FileKept
<1>7. QED
  BY <1>1, <1>6

LEMMA DeviceGrown ==
  ASSUME NEW d, NEW o \in [Files -> Objects], NEW n \in Flash, NEW g, DevOk(d, o, n, g),
         NEW s, NEW x, SideOk(n, s, x, d), NEW f \in Files, NEW q,
         FileOk(n, LogOf(n, x), s, Bits(d), Flagged(d), Soft(d), o[f], q, f),
         NEW e, \A c \in LogOf(n, x) : c \in Bits(e) => c \in Bits(d), Tracks(d, e),
         NEW m, NEW u, NEW c, NEW page, Behind(n, s, x, m, u, c, page), page.file # f
  PROVE  FileOk(m, LogOf(m, x), u, Bits(e), Flagged(e), Soft(e), o[f], q, f)
<1>1. PICK C, E : C = LogOf(n, x) /\ E = LogOf(m, x)
  OBVIOUS
<1>2. IsFiniteSet(C) /\ OwnIn(n, C, Bits(d), o[f], f) /\ o[f].nData \in Int
  BY <1>1, LogAddr, HeldInLog DEF Objects
<1>3. /\ E = C \cup {c} /\ At(m, c) = page /\ \A a \in C : At(m, a) = At(n, a)
      /\ \A a, b \in C : Later(u, a, b) <=> Later(s, a, b)
  BY <1>1 DEF Behind
<1>4. Apartly(n, C, m, E, f)
  BY <1>3 DEF Apartly
<1>5. Grown(n, C, s, Flagged(d), m, E, u, Flagged(e))
  BY <1>3 DEF Grown, Tracks
<1>6. /\ \A a \in C : At(n, a).file = f /\ a \in Bits(e) => a \in Bits(d)
      /\ \A a \in C : a \in Bits(e) /\ a \in Bits(d) /\ a[1] \in Soft(d) => a[1] \in Soft(e)
  BY <1>1 DEF Tracks
<1>7. FileOk(n, C, s, Bits(d), Flagged(d), Soft(d), o[f], q, f)
  BY <1>1
<1>8. FileOk(m, E, u, Bits(e), Flagged(e), Soft(e), o[f], q, f)
  BY <1>2, <1>4, <1>5, <1>6, <1>7, FileKept
<1>9. QED
  BY <1>1, <1>8

(* A chunk is written and another one deleted.                             *)
LEMMA WriteSide ==
  ASSUME NEW d, NEW o \in [Files -> Objects], NEW n \in Flash, NEW g, DevOk(d, o, n, g),
         NEW s \in [Blocks -> Nat], NEW x, SideOk(n, s, x, d), FirstOk(n), Apart(n, s, x),
         NEW r, r = Ready(d), r.alloc # None, r.page > Len(n[r.alloc]),
         NEW page \in PagesOfLog, NEW m, m = Programmed(n, r.alloc, page),
         NEW u, u = Numbered(s, r.alloc, r.seq),
         NEW old, old = None \/ old \in Bits(d), NEW e, e = DeleteChunk(Allocated(r), old)
  PROVE  LET c == NextChunk(r) IN
         /\ m \in Flash /\ u \in [Blocks -> Nat] /\ SideOk(m, u, x, e) /\ FirstOk(m) /\ Apart(m, u, x)
         /\ Behind(n, s, x, m, u, c, page) /\ c \notin Bits(d) /\ r.alloc \in Blocks /\ c[1] = r.alloc
         /\ Bits(e) = (Bits(d) \cup {c}) \ {old} /\ Flagged(e) = Flagged(d) /\ Tracks(d, e)
<1>1. DevOk(r, o, n, g)
  BY ReadyOk
<1>2. r \in Devices
  BY <1>1 DEF DevOk
<1>3. SideOk(n, s, x, r) /\ Bits(r) = Bits(d) /\ Flagged(r) = Flagged(d) /\ Tracks(d, r)
  BY ReadySide
<1>4. PICK b \in Blocks : b = r.alloc
  BY <1>2, DeviceFields
<1>5. PICK h, c : h = Allocated(r) /\ c = NextChunk(r)
  OBVIOUS
<1>6. /\ c \in Addr /\ c[1] = b /\ c \notin Bits(r)
      /\ Bits(h) = Bits(r) \cup {c} /\ Flagged(h) = Flagged(r) /\ Tracks(r, h)
  BY <1>1, <1>4, <1>5, AllocatedBits
<1>7. m = Programmed(n, b, page) /\ u = Numbered(s, b, r.seq) /\ r.page > Len(n[b])
  BY <1>4
<1>8. /\ m \in Flash /\ u \in [Blocks -> Nat] /\ SideOk(m, u, x, h) /\ FirstOk(m) /\ Apart(m, u, x)
      /\ Behind(n, s, x, m, u, c, page)
  <2>1. r.alloc = b /\ h = Allocated(r) /\ b \in Blocks
    BY <1>4, <1>5
  <2>2. /\ m \in Flash /\ u \in [Blocks -> Nat] /\ SideOk(m, u, x, h) /\ FirstOk(m) /\ Apart(m, u, x)
        /\ Behind(n, s, x, m, u, NextChunk(r), page)
    BY ONLY <1>1, <1>3, <1>7, <2>1, o \in [Files -> Objects], n \in Flash, s \in [Blocks -> Nat],
            FirstOk(n), Apart(n, s, x), page \in PagesOfLog, ProgramSide
  <2>3. QED
    BY <1>5, <2>2
<1>9. DevOk(h, o, m, g)
  <2>1. HeldOk(o, r, n)
    BY <1>1 DEF DevOk
  <2>2. HeldOk(o, r, m)
    <3>1. page \in PagesOfLog \cup {Torn} /\ m = [n EXCEPT ![b] = Append(@, page)]
      BY <1>7 DEF Programmed
    <3>2. QED
      BY ONLY <2>1, <3>1, b \in Blocks, n \in Flash, o \in [Files -> Objects], ProgramHeld
  <2>3. c[2] <= Len(m[c[1]]) /\ c[2] = r.page
    <3>1. c[2] = r.page
      BY <1>5 DEF NextChunk
    <3>2. c \in LogOf(m, x)
      BY <1>8 DEF Behind
    <3>3. QED
      BY <3>1, <3>2 DEF LogOf
  <2>4. r.page <= Len(m[r.alloc])
    BY <1>4, <1>6, <2>3
  <2>5. QED
    BY <1>1, <1>5, <1>8, <2>2, <2>4, AllocatedOk
<1>10. old = None \/ old \in Bits(h)
  BY <1>3, <1>6
<1>11. e = DeleteChunk(h, old)
  BY <1>5
<1>12. SideOk(m, u, x, e) /\ Bits(e) = Bits(h) \ {old} /\ Flagged(e) = Flagged(h) /\ Tracks(h, e)
  BY ONLY <1>8, <1>9, <1>10, <1>11, o \in [Files -> Objects], DeleteSide
<1>13. Tracks(d, h)
  BY <1>3, <1>6, TracksOn
<1>14. Tracks(d, e)
  BY <1>3, <1>6, <1>12, <1>13, TracksOn
<1>15. Bits(e) = (Bits(d) \cup {c}) \ {old} /\ Flagged(e) = Flagged(d) /\ c \notin Bits(d)
  <2>1. Bits(e) = (Bits(d) \cup {c}) \ {old}
    BY ONLY <1>3, <1>6, <1>12
  <2>2. QED
    BY ONLY <1>3, <1>6, <1>12, <2>1
<1>16. QED
  BY ONLY <1>4, <1>5, <1>6, <1>8, <1>12, <1>14, <1>15

-----------------------------------------------------------------------------
(* One file: what each step changes of it.                                 *)

Ordered(C, s) ==
  /\ \A c, e \in C : Later(s, c, e) => ~Later(s, e, c) /\ c # e
  /\ \A c, e, h \in C : Later(s, c, e) /\ Later(s, e, h) => Later(s, c, h)
  /\ \A c, e \in C : c # e => Later(s, c, e) \/ Later(s, e, c)

LEMMA LogOrdered ==
  ASSUME NEW n \in Flash, NEW s \in [Blocks -> Nat], NEW x, Apart(n, s, x)
  PROVE  Ordered(LogOf(n, x), s)
<1>1. LogOf(n, x) \subseteq Addr
  BY LogAddr
<1>2. QED
  BY <1>1, LaterOrder DEF Ordered

SameUse(w, v) ==
  /\ v.here = w.here /\ v.hdr = w.hdr /\ v.tnode = w.tnode
  /\ v.nData = w.nData /\ v.deleted = w.deleted

LEMMA SameUseOk ==
  ASSUME NEW w, NEW v, SameUse(w, v), NEW n, NEW C, NEW K, NEW S, NEW f, UseOk(n, C, K, S, w, f)
  PROVE  UseOk(n, C, K, S, v, f)
<1>1. \A k : OwnOf(v, k) = OwnOf(w, k)
  BY DEF OwnOf, SameUse
<1>2. QED
  BY <1>1 DEF UseOk, SameUse

LEMMA NothingLeft ==
  ASSUME NEW k
  PROVE  ~HeaderPending({}) /\ ~CutPending({}) /\ ~PrunePending({}, k)
BY DEF HeaderPending, CutPending, PrunePending

LEMMA CutsAreHeaders ==
  \A q : CutPending(q) => HeaderPending(q)
BY DEF HeaderPending, CutPending

(* A call that leaves the file as it is, or only sets its size.            *)
LEMMA FileCalled ==
  ASSUME NEW n, NEW C, NEW s, NEW K, NEW F, NEW S, NEW f, NEW w, FileOk(n, C, s, K, F, S, w, {}, f),
         w.here, w.size \in Nat, NEW v, SameUse(w, v), v.dir = w.dir, w.dir # "deleted", NEW q,
         v.size = w.size \/ HeaderPending(q) \/ w.dir # "root",
         w.dir # "root" /\ v.size # w.size => ~HeaderPending(q),
         w.dir = "root" /\ v.size # w.size =>
           \A k \in 1 .. FileChunks : k <= w.size => k <= v.size \/ PrunePending(q, k),
         \A x \in q :
           /\ x.op # "remove"
           /\ x.op = "prune" => IF w.dir = "root" THEN x.chunk > v.size /\ CutPending(q) ELSE ~HeaderPending(q)
           /\ x.op = "destroy" => w.dir # "root"
  PROVE  FileOk(n, C, s, K, F, S, v, q, f)
<1>1. /\ UseOk(n, C, K, S, w, f) /\ HeaderOk(n, C, s, w, {}, f) /\ GoneOk(n, C, s, F, w, f)
      /\ DataOk(n, C, s, F, w, {}, f) /\ ObjectOk(w, {}) /\ CallOk(w, {})
  BY DEF FileOk
<1>2. v.here = w.here /\ v.hdr = w.hdr /\ v.tnode = w.tnode /\ v.nData = w.nData /\ v.deleted = w.deleted
  BY DEF SameUse
<1>3. w.hdr # None
  BY <1>1 DEF CallOk
<1>4. UseOk(n, C, K, S, v, f)
  BY <1>1, SameUseOk
<1>5. HeaderOk(n, C, s, v, q, f)
  BY <1>1, <1>2, NothingLeft DEF HeaderOk
<1>6. GoneOk(n, C, s, F, v, f)
  BY <1>1, <1>2 DEF GoneOk
<1>7. DataOk(n, C, s, F, v, q, f)
  <2>1. SUFFICES ASSUME At(n, v.hdr).dir = "root",
                        NEW k \in 1 .. FileChunks, NEW e \in Of(n, C, f, k)
        PROVE  /\ e = v.tnode[k] => \A h \in C : At(n, h).file = f /\ Later(s, h, e) => ~Cutter(At(n, h), k)
               /\ e # v.tnode[k] /\ (\E h \in Of(n, C, f, 0) : At(n, h).dir # "root" /\ Later(s, h, e))
                    => Barred(n, C, s, F, e)
               /\ v.tnode[k] # None /\ e # v.tnode[k] => Later(s, v.tnode[k], e)
               /\ v.tnode[k] = None =>
                    Barred(n, C, s, F, e) \/ (CutPending(q) /\ v.dir = "root" /\ k > v.size)
               /\ v.dir = "root" /\ ~HeaderPending(q) /\ Later(s, e, v.hdr) => k <= v.size
    BY DEF DataOk
  <2>2. /\ e = w.tnode[k] => \A h \in C : At(n, h).file = f /\ Later(s, h, e) => ~Cutter(At(n, h), k)
        /\ e # w.tnode[k] /\ (\E h \in Of(n, C, f, 0) : At(n, h).dir # "root" /\ Later(s, h, e))
             => Barred(n, C, s, F, e)
        /\ w.tnode[k] # None /\ e # w.tnode[k] => Later(s, w.tnode[k], e)
        /\ w.tnode[k] = None => Barred(n, C, s, F, e)
        /\ w.dir = "root" /\ Later(s, e, w.hdr) => k <= w.size
    BY <1>1, <1>2, <1>3, <2>1, NothingLeft DEF DataOk
  <2>3. QED
    BY <1>2, <2>2
<1>8. ObjectOk(v, q)
  <2>1. ASSUME v.dir = "root", NEW k \in 1 .. FileChunks, v.tnode[k] # None
        PROVE  k <= v.size \/ PrunePending(q, k)
    BY <1>1, <1>2, <2>1, NothingLeft DEF ObjectOk
  <2>2. QED
    BY <1>1, <1>2, <2>1 DEF ObjectOk
<1>9. CallOk(v, q)
  BY <1>2, <1>3 DEF CallOk
<1>10. QED
  BY <1>4, <1>5, <1>6, <1>7, <1>8, <1>9 DEF FileOk

LEMMA FileUnlinked ==
  ASSUME NEW n, NEW C, NEW s, NEW K, NEW F, NEW S, NEW f, NEW w, FileOk(n, C, s, K, F, S, w, {}, f),
         w.here, w.dir = "root", NEW v, SameUse(w, v), v.dir = "unlinked",
         NEW q, NEW y, q = {y}, y.op = "header", ~y.shrink
  PROVE  FileOk(n, C, s, K, F, S, v, q, f)
<1>1. /\ UseOk(n, C, K, S, w, f) /\ HeaderOk(n, C, s, w, {}, f) /\ GoneOk(n, C, s, F, w, f)
      /\ DataOk(n, C, s, F, w, {}, f) /\ ObjectOk(w, {}) /\ CallOk(w, {})
  BY DEF FileOk
<1>2. v.here = w.here /\ v.hdr = w.hdr /\ v.tnode = w.tnode /\ v.nData = w.nData /\ v.deleted = w.deleted
  BY DEF SameUse
<1>3. w.hdr # None
  BY <1>1 DEF CallOk
<1>4. UseOk(n, C, K, S, v, f)
  BY <1>1, SameUseOk
<1>5. HeaderPending(q) /\ \A x \in q : x.op = "header"
  BY DEF HeaderPending
<1>6. HeaderOk(n, C, s, v, q, f)
  BY <1>1, <1>2, <1>5 DEF HeaderOk
<1>7. GoneOk(n, C, s, F, v, f)
  BY <1>1, <1>2 DEF GoneOk
<1>8. DataOk(n, C, s, F, v, q, f)
  <2>1. \A k : ~CutPending({})
    BY NothingLeft
  <2>2. QED
    BY <1>1, <1>2, <2>1 DEF DataOk
<1>9. ObjectOk(v, q)
  BY <1>1, <1>2 DEF ObjectOk
<1>10. CallOk(v, q)
  BY <1>2, <1>3, <1>5 DEF CallOk
<1>11. QED
  BY <1>4, <1>6, <1>7, <1>8, <1>9, <1>10 DEF FileOk

LEMMA NothingInUse ==
  ASSUME NEW n, NEW C, IsFiniteSet(C), NEW K, NEW S, NEW f, NEW w, UseOk(n, C, K, S, w, f),
         OwnIn(n, C, K, w, f), w.here, w.nData \in Int, w.nData <= 0
  PROVE  /\ InUse(n, C, K, f) = {} /\ w.nData = 0 /\ \A k \in 1 .. FileChunks : w.tnode[k] = None
<1>1. IsFiniteSet(InUse(n, C, K, f))
  BY FS_Subset DEF InUse
<1>2. Cardinality(InUse(n, C, K, f)) \in Nat /\ Cardinality(InUse(n, C, K, f)) <= w.nData
  BY <1>1, FS_CardinalityType DEF UseOk
<1>3. Cardinality(InUse(n, C, K, f)) = 0 /\ w.nData = 0
  BY <1>2
<1>4. InUse(n, C, K, f) = {}
  BY <1>1, <1>3, FS_EmptySet
<1>5. ASSUME NEW k \in 1 .. FileChunks PROVE w.tnode[k] = None
  <2>1. w.tnode[k] # None => w.tnode[k] \in InUse(n, C, K, f)
    BY OwnInParts DEF InUse
  <2>2. QED
    BY <1>4, <2>1
<1>6. QED
  BY <1>3, <1>4, <1>5

LEMMA FileCreated ==
  ASSUME NEW n, NEW C, IsFiniteSet(C), NEW s, NEW K, NEW F, NEW S, NEW f, NEW w,
         FileOk(n, C, s, K, F, S, w, {}, f), OwnIn(n, C, K, w, f), ~w.here,
         NEW v, v.here, v.hdr = None, \A k \in 1 .. FileChunks : v.tnode[k] = None,
         v.nData = 0, ~v.deleted, v.dir = "root", NEW q, NEW y, q = {y}, y.op = "header", None \notin C,
         \A c \in C : At(n, c).file = f => At(n, c).chunk \in 0 .. FileChunks
  PROVE  FileOk(n, C, s, K, F, S, v, q, f)
<1>1. UseOk(n, C, K, S, w, f) /\ GoneOk(n, C, s, F, w, f)
  BY DEF FileOk
<1>2. w.hdr = None /\ \A k \in 1 .. FileChunks : w.tnode[k] = None
  BY OwnInParts
<1>3. \A c \in C : ~(c \in K /\ At(n, c).file = f)
  <2>1. SUFFICES ASSUME NEW c \in C, c \in K, At(n, c).file = f PROVE FALSE
    OBVIOUS
  <2>2. OwnOf(w, At(n, c).chunk) = c
    BY <1>1, <2>1 DEF UseOk
  <2>3. OwnOf(w, At(n, c).chunk) = None
    BY <2>1 DEF OwnIn
  <2>4. QED
    BY <2>1, <2>2, <2>3
<1>4. UseOk(n, C, K, S, v, f)
  <2>1. InUse(n, C, K, f) = {}
    BY <1>3 DEF InUse
  <2>2. QED
    BY <1>3, <2>1, FS_EmptySet DEF UseOk
<1>5. HeaderOk(n, C, s, v, q, f) /\ DataOk(n, C, s, F, v, q, f)
  BY DEF HeaderOk, DataOk
<1>6. GoneOk(n, C, s, F, v, f)
  BY <1>1, <1>2 DEF GoneOk
<1>7. ObjectOk(v, q) /\ CallOk(v, q)
  BY DEF ObjectOk, CallOk
<1>8. QED
  BY <1>4, <1>5, <1>6, <1>7 DEF FileOk

(* A file that is to be removed: its last header is still to be written.   *)
LEMMA FileBuried ==
  ASSUME NEW n, NEW C, IsFiniteSet(C), NEW s, NEW K, NEW F, NEW S, NEW f, NEW w, NEW p,
         FileOk(n, C, s, K, F, S, w, p, f), OwnIn(n, C, K, w, f),
         w.here, w.nData \in Int, w.nData <= 0, ~HeaderPending(p), w.hdr = None \/ w.dir # "root",
         NEW v, SameUse(w, v), v.dir = "deleted",
         NEW q, \A x \in q : x.op = "remove" \/ (x.op = "header" /\ x.shrink), \E x \in q : x.op = "remove",
         w.dir = "deleted" \/ HeaderPending(q)
  PROVE  FileOk(n, C, s, K, F, S, v, q, f)
<1>1. /\ UseOk(n, C, K, S, w, f) /\ HeaderOk(n, C, s, w, p, f) /\ GoneOk(n, C, s, F, w, f)
      /\ DataOk(n, C, s, F, w, p, f) /\ ObjectOk(w, p) /\ CallOk(w, p)
  BY DEF FileOk
<1>2. v.here = w.here /\ v.hdr = w.hdr /\ v.tnode = w.tnode /\ v.nData = w.nData /\ v.deleted = w.deleted
  BY DEF SameUse
<1>3. w.nData = 0 /\ \A k \in 1 .. FileChunks : w.tnode[k] = None
  BY <1>1, NothingInUse
<1>4. UseOk(n, C, K, S, v, f)
  BY <1>1, SameUseOk
<1>5. HeaderOk(n, C, s, v, q, f)
  BY <1>1, <1>2 DEF HeaderOk
<1>6. GoneOk(n, C, s, F, v, f)
  BY <1>1, <1>2 DEF GoneOk
<1>7. DataOk(n, C, s, F, v, q, f)
  <2>1. w.hdr # None => At(n, w.hdr).dir # "root"
    BY <1>1 DEF HeaderOk
  <2>2. QED
    BY <1>2, <2>1 DEF DataOk
<1>8. ObjectOk(v, q)
  BY <1>1, <1>2, <1>3 DEF ObjectOk
<1>9. CallOk(v, q)
  BY DEF CallOk
<1>10. QED
  BY <1>4, <1>5, <1>6, <1>7, <1>8, <1>9 DEF FileOk

(* Its data waits for the collector.                                       *)
LEMMA FileSoftDeleted ==
  ASSUME NEW n, NEW C, IsFiniteSet(C), NEW s, NEW K, NEW F, NEW S, NEW f, NEW w, NEW p,
         FileOk(n, C, s, K, F, S, w, p, f), OwnIn(n, C, K, w, f),
         w.here, w.nData # 0, ~HeaderPending(p), w.hdr = None \/ w.dir # "root",
         \A c \in C : At(n, c).file = f => At(n, c).chunk \in 0 .. FileChunks,
         NEW v, v.here = w.here, v.hdr = w.hdr, v.nData = w.nData, v.dir = w.dir, v.size = w.size,
         v.deleted, \A k \in 1 .. FileChunks : v.tnode[k] = None,
         NEW T, \A c \in C : c \in K /\ c[1] \in S => c[1] \in T,
         \A k \in 1 .. FileChunks : w.tnode[k] # None => w.tnode[k][1] \in T
  PROVE  FileOk(n, C, s, K, F, T, v, {}, f)
<1>1. /\ UseOk(n, C, K, S, w, f) /\ HeaderOk(n, C, s, w, p, f) /\ GoneOk(n, C, s, F, w, f)
      /\ DataOk(n, C, s, F, w, p, f) /\ ObjectOk(w, p) /\ CallOk(w, p)
  BY DEF FileOk
<1>2. w.hdr # None /\ w.dir # "root" /\ w.dir # "deleted" /\ At(n, w.hdr).dir = w.dir
  BY <1>1 DEF ObjectOk, HeaderOk
<1>3. UseOk(n, C, K, T, v, f)
  <2>1. ASSUME NEW c \in C, c \in K, At(n, c).file = f, OwnOf(v, At(n, c).chunk) # c
        PROVE  At(n, c).chunk # 0 /\ v.here /\ v.deleted /\ c[1] \in T
    <3>1. CASE OwnOf(w, At(n, c).chunk) # c
      BY <1>1, <2>1, <3>1 DEF UseOk
    <3>2. CASE OwnOf(w, At(n, c).chunk) = c
      <4>1. At(n, c).chunk # 0
        BY <2>1, <3>2, OwnKinds
      <4>2. At(n, c).chunk \in 1 .. FileChunks
        <5>1. At(n, c).chunk \in 0 .. FileChunks
          BY <2>1
        <5>2. QED
          BY <4>1, <5>1, Geometry
      <4>3. w.tnode[At(n, c).chunk] = c
        BY <3>2, <4>2, OwnKinds
      <4>4. CASE c # None
        BY <4>1, <4>2, <4>3, <4>4
      <4>5. CASE c = None
        BY <2>1, <4>2, <4>5, OwnKinds
      <4>6. QED
        BY <4>4, <4>5
    <3>3. QED
      BY <3>1, <3>2
  <2>2. QED
    BY <1>1, <2>1 DEF UseOk
<1>4. HeaderOk(n, C, s, v, {}, f)
  BY <1>1, <1>2 DEF HeaderOk
<1>5. GoneOk(n, C, s, F, v, f)
  BY <1>1 DEF GoneOk
<1>6. DataOk(n, C, s, F, v, {}, f)
  BY <1>2 DEF DataOk
<1>7. ObjectOk(v, {})
  BY <1>2 DEF ObjectOk
<1>8. CallOk(v, {})
  BY <1>2 DEF CallOk
<1>9. QED
  BY <1>3, <1>4, <1>5, <1>6, <1>7, <1>8 DEF FileOk

LEMMA FileRemoved ==
  ASSUME NEW n, NEW C, IsFiniteSet(C), NEW s, NEW K, NEW F, NEW S, NEW f, NEW w, NEW p,
         FileOk(n, C, s, K, F, S, w, p, f), OwnIn(n, C, K, w, f),
         w.here, w.nData \in Int, ~HeaderPending(p), w.dir = "deleted",
         \A c \in C : At(n, c).file = f => At(n, c).chunk \in 0 .. FileChunks,
         NEW v, ~v.here, v.hdr = None, \A k \in 1 .. FileChunks : v.tnode[k] = None,
         v.nData = 0, ~v.deleted, v.dir = "root", NEW L, L = K \ {w.hdr}, None \notin C
  PROVE  FileOk(n, C, s, L, F, S, v, {}, f)
<1>1. /\ UseOk(n, C, K, S, w, f) /\ HeaderOk(n, C, s, w, p, f) /\ GoneOk(n, C, s, F, w, f)
      /\ ObjectOk(w, p)
  BY DEF FileOk
<1>2. w.nData = 0 /\ \A k \in 1 .. FileChunks : w.tnode[k] = None
  BY <1>1 DEF ObjectOk
<1>3. InUse(n, C, K, f) = {}
  BY <1>1, <1>2, NothingInUse
<1>4. \A c \in C : ~(c \in L /\ At(n, c).file = f)
  <2>1. SUFFICES ASSUME NEW c \in C, c \in L, At(n, c).file = f PROVE FALSE
    OBVIOUS
  <2>2. At(n, c).chunk = 0
    BY <1>3, <2>1 DEF InUse
  <2>3. OwnOf(w, At(n, c).chunk) # c
    BY <2>1, <2>2, OwnKinds
  <2>4. QED
    BY <1>1, <2>1, <2>2, <2>3 DEF UseOk
<1>5. UseOk(n, C, L, S, v, f)
  BY <1>4 DEF UseOk
<1>6. HeaderOk(n, C, s, v, {}, f) /\ DataOk(n, C, s, F, v, {}, f)
  BY DEF HeaderOk, DataOk
<1>7. GoneOk(n, C, s, F, v, f)
  <2>1. w.hdr = None \/ At(n, w.hdr).dir = "deleted"
    BY <1>1 DEF HeaderOk
  <2>2. QED
    BY <1>1, <2>1 DEF GoneOk
<1>8. ObjectOk(v, {}) /\ CallOk(v, {})
  BY DEF ObjectOk, CallOk
<1>9. QED
  BY <1>5, <1>6, <1>7, <1>8 DEF FileOk

LEMMA UseLess ==
  ASSUME NEW n, NEW C, IsFiniteSet(C), NEW K, NEW f, NEW c \in InUse(n, C, K, f)
  PROVE  /\ InUse(n, C, K \ {c}, f) = InUse(n, C, K, f) \ {c}
         /\ Cardinality(InUse(n, C, K \ {c}, f)) = Cardinality(InUse(n, C, K, f)) - 1
         /\ Cardinality(InUse(n, C, K, f)) \in Nat
<1>1. IsFiniteSet(InUse(n, C, K, f))
  BY FS_Subset DEF InUse
<1>2. InUse(n, C, K \ {c}, f) = InUse(n, C, K, f) \ {c}
  BY DEF InUse
<1>3. QED
  BY <1>1, <1>2, FS_RemoveElement, FS_CardinalityType

(* A chunk of a deleted file is dropped.                                   *)
LEMMA FileDropped ==
  ASSUME NEW n, NEW C, IsFiniteSet(C), NEW s, NEW K, NEW F, NEW S, NEW f, NEW w, NEW q,
         FileOk(n, C, s, K, F, S, w, q, f), OwnIn(n, C, K, w, f), w.here, w.nData \in Int,
         NEW c \in InUse(n, C, K, f),
         NEW v, v.here = w.here, v.hdr = w.hdr, v.tnode = w.tnode, v.deleted = w.deleted,
         v.dir = w.dir, v.size = w.size, v.nData = w.nData - 1, NEW L, L = K \ {c}
  PROVE  FileOk(n, C, s, L, F, S, v, q, f)
<1>1. /\ UseOk(n, C, K, S, w, f) /\ HeaderOk(n, C, s, w, q, f) /\ GoneOk(n, C, s, F, w, f)
      /\ DataOk(n, C, s, F, w, q, f) /\ ObjectOk(w, q) /\ CallOk(w, q)
  BY DEF FileOk
<1>2. w.nData > 0
  <2>1. InUse(n, C, K, f) # {}
    OBVIOUS
  <2>2. ~(w.nData <= 0)
    BY <1>1, <2>1, NothingInUse
  <2>3. QED
    BY <2>2
<1>3. UseOk(n, C, L, S, v, f)
  <2>1. \A k : OwnOf(v, k) = OwnOf(w, k)
    BY DEF OwnOf
  <2>2. Cardinality(InUse(n, C, K, f)) <= w.nData
    BY <1>1 DEF UseOk
  <2>3. /\ Cardinality(InUse(n, C, L, f)) = Cardinality(InUse(n, C, K, f)) - 1
        /\ Cardinality(InUse(n, C, K, f)) \in Nat
    BY ONLY IsFiniteSet(C), c \in InUse(n, C, K, f), L = K \ {c}, UseLess
  <2>4. Cardinality(InUse(n, C, L, f)) <= v.nData
    BY ONLY <2>2, <2>3, v.nData = w.nData - 1, w.nData \in Int
  <2>5. QED
    BY <1>1, <2>1, <2>4 DEF UseOk
<1>4. HeaderOk(n, C, s, v, q, f) /\ GoneOk(n, C, s, F, v, f) /\ DataOk(n, C, s, F, v, q, f)
  BY <1>1 DEF HeaderOk, GoneOk, DataOk
<1>5. ObjectOk(v, q) /\ CallOk(v, q)
  BY <1>1, <1>2 DEF ObjectOk, CallOk
<1>6. QED
  BY <1>3, <1>4, <1>5 DEF FileOk

(* A chunk behind the new end of a file is deleted.                        *)
LEMMA FilePruned ==
  ASSUME NEW n, NEW C, IsFiniteSet(C), NEW s, Ordered(C, s), NEW K, NEW F, NEW S, NEW f, NEW w, NEW r, NEW y,
         FileOk(n, C, s, K, F, S, w, r \cup {y}, f), OwnIn(n, C, K, w, f), w.here, w.nData \in Int,
         NEW k \in 1 .. FileChunks, y.op = "prune", y.chunk = k,
         NEW old, old = w.tnode[k], None \notin C,
         \A c \in C : At(n, c).file = f => At(n, c).chunk \in 0 .. FileChunks,
         NEW v, v.here = w.here, v.hdr = w.hdr, v.deleted = w.deleted, v.dir = w.dir, v.size = w.size,
         v.tnode[k] = None, \A j \in 1 .. FileChunks \ {k} : v.tnode[j] = w.tnode[j],
         v.nData = IF old = None THEN w.nData ELSE w.nData - 1, NEW L, L = K \ {old}
  PROVE  FileOk(n, C, s, L, F, S, v, r, f)
<1> DEFINE p == r \cup {y}
<1>1. /\ UseOk(n, C, K, S, w, f) /\ HeaderOk(n, C, s, w, p, f) /\ GoneOk(n, C, s, F, w, f)
      /\ DataOk(n, C, s, F, w, p, f) /\ ObjectOk(w, p) /\ CallOk(w, p)
  BY DEF FileOk
<1>2. /\ HeaderPending(p) <=> HeaderPending(r)
      /\ CutPending(p) <=> CutPending(r)
      /\ \A j : j # k => (PrunePending(p, j) <=> PrunePending(r, j))
  BY DEF HeaderPending, CutPending, PrunePending
<1>3. /\ w.hdr # None
      /\ IF w.dir = "root" THEN k > w.size /\ CutPending(p) ELSE ~HeaderPending(p)
  BY <1>1 DEF CallOk
<1> HIDE DEF p
<1>4. old # None => old \in C /\ old \in K /\ At(n, old).file = f /\ At(n, old).chunk = k
  BY OwnInParts
<1>5. UseOk(n, C, L, S, v, f)
  <2>1. ASSUME NEW c \in C, c \in L, At(n, c).file = f, OwnOf(v, At(n, c).chunk) # c
        PROVE  At(n, c).chunk # 0 /\ v.here /\ v.deleted /\ c[1] \in S
    <3>1. OwnOf(w, At(n, c).chunk) # c
      <4>1. CASE At(n, c).chunk = k
        BY <2>1, <4>1, OwnKinds
      <4>2. CASE At(n, c).chunk = 0
        BY <2>1, <4>2, OwnKinds
      <4>3. CASE At(n, c).chunk \in 1 .. FileChunks \ {k}
        BY <2>1, <4>3, OwnKinds
      <4>4. At(n, c).chunk \in 0 .. FileChunks
        BY <2>1
      <4>5. QED
        BY <4>1, <4>2, <4>3, <4>4, Geometry
    <3>2. QED
      BY <1>1, <2>1, <3>1 DEF UseOk
  <2>2. CASE old = None
    <3>1. L \subseteq K /\ InUse(n, C, L, f) = InUse(n, C, K, f)
      BY <2>2 DEF InUse
    <3>2. QED
      BY <1>1, <2>1, <2>2, <3>1 DEF UseOk
  <2>3. CASE old # None
    <3>1. old \in InUse(n, C, K, f)
      BY <1>4, <2>3 DEF InUse
    <3>2. Cardinality(InUse(n, C, L, f)) = Cardinality(InUse(n, C, K, f)) - 1
          /\ Cardinality(InUse(n, C, K, f)) \in Nat
      BY ONLY <3>1, IsFiniteSet(C), L = K \ {old}, UseLess
    <3>3. Cardinality(InUse(n, C, K, f)) <= w.nData
      BY <1>1 DEF UseOk
    <3>4. Cardinality(InUse(n, C, L, f)) <= v.nData
      BY <2>3, <3>2, <3>3
    <3>5. QED
      BY <2>1, <3>4 DEF UseOk
  <2>4. QED
    BY <2>2, <2>3
<1>6. HeaderOk(n, C, s, v, r, f)
  BY <1>1, <1>2 DEF HeaderOk
<1>7. GoneOk(n, C, s, F, v, f)
  BY <1>1 DEF GoneOk
<1>8. DataOk(n, C, s, F, v, r, f)
  <2>1. CASE w.dir # "root"
    BY <1>1, <1>2, <1>3, <2>1 DEF HeaderOk, DataOk
  <2>2. CASE w.dir = "root"
    <3>1. SUFFICES ASSUME At(n, v.hdr).dir = "root",
                          NEW j \in 1 .. FileChunks, NEW e \in Of(n, C, f, j)
        PROVE  /\ e = v.tnode[j] => \A h \in C : At(n, h).file = f /\ Later(s, h, e) => ~Cutter(At(n, h), j)
               /\ e # v.tnode[j] /\ (\E h \in Of(n, C, f, 0) : At(n, h).dir # "root" /\ Later(s, h, e))
                    => Barred(n, C, s, F, e)
               /\ v.tnode[j] # None /\ e # v.tnode[j] => Later(s, v.tnode[j], e)
               /\ v.tnode[j] = None =>
                    Barred(n, C, s, F, e) \/ (CutPending(r) /\ v.dir = "root" /\ j > v.size)
               /\ v.dir = "root" /\ ~HeaderPending(r) /\ Later(s, e, v.hdr) => j <= v.size
      BY DEF DataOk
    <3>2. /\ e = w.tnode[j] => \A h \in C : At(n, h).file = f /\ Later(s, h, e) => ~Cutter(At(n, h), j)
          /\ e # w.tnode[j] /\ (\E h \in Of(n, C, f, 0) : At(n, h).dir # "root" /\ Later(s, h, e))
               => Barred(n, C, s, F, e)
          /\ w.tnode[j] # None /\ e # w.tnode[j] => Later(s, w.tnode[j], e)
          /\ w.tnode[j] = None =>
               Barred(n, C, s, F, e) \/ (CutPending(p) /\ w.dir = "root" /\ j > w.size)
          /\ w.dir = "root" /\ ~HeaderPending(p) /\ Later(s, e, w.hdr) => j <= w.size
      BY <1>1, <1>3, <3>1 DEF DataOk
    <3>3. CASE j # k
      BY <1>2, <3>2, <3>3
    <3>4. CASE j = k
      <4>1. e = w.tnode[j] => ~\E h \in Of(n, C, f, 0) : At(n, h).dir # "root" /\ Later(s, h, e)
        <5>1. SUFFICES ASSUME e = w.tnode[j], NEW h \in Of(n, C, f, 0),
                              At(n, h).dir # "root", Later(s, h, e)
                       PROVE  FALSE
          OBVIOUS
        <5>2. h \in C /\ At(n, h).file = f /\ At(n, h).chunk = 0
          BY <5>1 DEF Of
        <5>3. Cutter(At(n, h), j)
          BY <5>1, <5>2 DEF Cutter, SizeLeft
        <5>4. QED
          BY <3>2, <5>1, <5>2, <5>3
      <4>2. CutPending(r) /\ HeaderPending(r) /\ v.dir = "root" /\ j > v.size
        BY <1>2, <1>3, <2>2, <3>4, CutsAreHeaders
      <4>3. e \in C /\ v.tnode[j] = None /\ e # v.tnode[j]
        BY <3>1, <3>4 DEF Of
      <4>4. QED
        BY <3>2, <4>1, <4>2, <4>3
    <3>5. QED
      BY <3>3, <3>4
  <2>3. QED
    BY <2>1, <2>2
<1>9. ObjectOk(v, r)
  <2>1. ASSUME v.dir = "deleted" PROVE v.nData = 0 /\ \A j \in 1 .. FileChunks : v.tnode[j] = None
    BY <1>1, <2>1 DEF ObjectOk
  <2>2. ASSUME v.dir = "root", NEW j \in 1 .. FileChunks, v.tnode[j] # None
        PROVE  j <= v.size \/ PrunePending(r, j)
    BY <1>1, <1>2, <2>2 DEF ObjectOk
  <2>3. QED
    BY <1>1, <1>3, <2>1, <2>2 DEF ObjectOk
<1>10. CallOk(v, r)
  <2>1. r \subseteq p
    BY DEF p
  <2>2. QED
    BY <1>1, <1>2, <1>3, <2>1 DEF CallOk
<1>11. QED
  BY <1>5, <1>6, <1>7, <1>8, <1>9, <1>10 DEF FileOk

(* A write that found no room.                                             *)
LEMMA FileOver ==
  ASSUME NEW n, NEW C, NEW s, NEW K, NEW F, NEW S, NEW f, NEW w, NEW y,
         FileOk(n, C, s, K, F, S, w, {y}, f), y.op = "put",
         NEW v, SameUse(w, v), v.dir = w.dir, v.size = w.size
  PROVE  FileOk(n, C, s, K, F, S, v, {}, f)
<1>1. /\ UseOk(n, C, K, S, w, f) /\ HeaderOk(n, C, s, w, {y}, f) /\ GoneOk(n, C, s, F, w, f)
      /\ DataOk(n, C, s, F, w, {y}, f) /\ ObjectOk(w, {y}) /\ CallOk(w, {y})
  BY DEF FileOk
<1>2. v.here = w.here /\ v.hdr = w.hdr /\ v.tnode = w.tnode /\ v.nData = w.nData /\ v.deleted = w.deleted
  BY DEF SameUse
<1>3. ~HeaderPending({y}) /\ ~CutPending({y}) /\ \A k : ~PrunePending({y}, k)
  BY DEF HeaderPending, CutPending, PrunePending
<1>4. w.hdr # None
  BY <1>1 DEF CallOk
<1>5. UseOk(n, C, K, S, v, f)
  BY <1>1, SameUseOk
<1>6. HeaderOk(n, C, s, v, {}, f)
  BY <1>1, <1>2, <1>3 DEF HeaderOk
<1>7. GoneOk(n, C, s, F, v, f)
  BY <1>1, <1>2 DEF GoneOk
<1>8. DataOk(n, C, s, F, v, {}, f)
  BY <1>1, <1>2, <1>3 DEF DataOk
<1>9. ObjectOk(v, {})
  BY <1>1, <1>2, <1>3 DEF ObjectOk
<1>10. CallOk(v, {})
  BY <1>2, <1>4 DEF CallOk
<1>11. QED
  BY <1>5, <1>6, <1>7, <1>8, <1>9, <1>10 DEF FileOk

(* A new file, or one to be removed, whose header found no room.           *)
LEMMA FileNoRoom ==
  ASSUME NEW n, NEW C, NEW s, NEW K, NEW F, NEW S, NEW f, NEW w, NEW r, NEW y,
         FileOk(n, C, s, K, F, S, w, r \cup {y}, f), y.op = "header", w.here, w.hdr = None,
         \A x \in r : x.op = "remove" /\ w.dir = "deleted",
         NEW q, w.dir # "root" => q = r, w.dir = "root" => \A x \in q : x.op = "destroy",
         w.dir = "root" => q # {}
  PROVE  FileOk(n, C, s, K, F, S, w, q, f)
<1>1. UseOk(n, C, K, S, w, f) /\ GoneOk(n, C, s, F, w, f) /\ ObjectOk(w, r \cup {y}) /\ CallOk(w, r \cup {y})
  BY DEF FileOk
<1>2. HeaderOk(n, C, s, w, q, f) /\ DataOk(n, C, s, F, w, q, f)
  BY DEF HeaderOk, DataOk
<1>3. ObjectOk(w, q)
  BY <1>1 DEF ObjectOk
<1>4. CallOk(w, q)
  <2>1. CASE w.dir = "root"
    BY <2>1 DEF CallOk
  <2>2. CASE w.dir # "root"
    BY <1>1, <2>2 DEF CallOk
  <2>3. QED
    BY <2>1, <2>2
<1>5. QED
  BY <1>1, <1>2, <1>3, <1>4 DEF FileOk

-----------------------------------------------------------------------------
(* One file, of which the log gets a new page.                             *)

Appended(n, C, s, m, E, u, c) ==
  /\ c \notin C /\ E = C \cup {c} /\ Ordered(E, u)
  /\ \A a \in C : At(m, a) = At(n, a) /\ Later(u, c, a)
  /\ \A a, e \in C : Later(u, a, e) <=> Later(s, a, e)

LEMMA AppendedIs ==
  ASSUME NEW n, NEW s, NEW x, NEW m \in Flash, NEW u \in [Blocks -> Nat], Apart(m, u, x),
         NEW c, NEW page, Behind(n, s, x, m, u, c, page)
  PROVE  Appended(n, LogOf(n, x), s, m, LogOf(m, x), u, c)
BY LogOrdered DEF Behind, Appended

LEMMA AppendedLast ==
  ASSUME NEW n, NEW C, NEW s, NEW m, NEW E, NEW u, NEW c, Appended(n, C, s, m, E, u, c)
  PROVE  \A a \in E : ~Later(u, a, c)
<1>1. \A a \in C : Later(u, c, a) /\ a \in E
  BY DEF Appended
<1>2. c \in E
  BY DEF Appended
<1>3. QED
  BY <1>1, <1>2 DEF Appended, Ordered

LEMMA UseMoved ==
  ASSUME NEW n, NEW C, IsFiniteSet(C), NEW s, NEW m, NEW E, NEW u, NEW c, Appended(n, C, s, m, E, u, c),
         NEW K, NEW S, NEW f, NEW w, UseOk(n, C, K, S, w, f), OwnIn(n, C, K, w, f), None \notin C,
         \A a \in C : At(n, a).file = f => At(n, a).chunk \in 0 .. FileChunks,
         w.here => w.nData \in Int,
         NEW k \in 0 .. FileChunks, At(m, c).file = f, At(m, c).chunk = k,
         NEW old, old = OwnOf(w, k), NEW v, v.here = w.here, v.deleted = w.deleted,
         OwnOf(v, k) = c, \A j \in 0 .. FileChunks \ {k} : OwnOf(v, j) = OwnOf(w, j),
         v.nData = IF k # 0 /\ old = None THEN w.nData + 1 ELSE w.nData,
         NEW L, L = (K \cup {c}) \ {old}, NEW T, \A a \in C : a \in L /\ a \in K /\ a[1] \in S => a[1] \in T
  PROVE  UseOk(m, E, L, T, v, f)
<1>1. E = C \cup {c} /\ c \notin C /\ \A a \in C : At(m, a) = At(n, a)
  BY DEF Appended
<1>2. ASSUME NEW a \in E, a \in L, At(m, a).file = f, OwnOf(v, At(m, a).chunk) # a
      PROVE  At(m, a).chunk # 0 /\ v.here /\ v.deleted /\ a[1] \in T
  <2>1. a # c
    BY <1>2
  <2>2. a \in C /\ a \in K /\ At(m, a) = At(n, a) /\ a # old
    BY <1>1, <1>2, <2>1
  <2>3. At(n, a).chunk \in 0 .. FileChunks
    BY <1>2, <2>2
  <2>4. OwnOf(w, At(n, a).chunk) # a
    <3>1. CASE At(n, a).chunk = k
      BY <2>2, <3>1
    <3>2. CASE At(n, a).chunk # k
      BY <1>2, <2>2, <2>3, <3>2
    <3>3. QED
      BY <3>1, <3>2
  <2>5. At(n, a).chunk # 0 /\ w.here /\ w.deleted /\ a[1] \in S
    BY <1>2, <2>2, <2>4 DEF UseOk
  <2>6. QED
    BY <1>2, <2>2, <2>5
<1>3. old # None => old \in C /\ old \in K /\ At(n, old).file = f /\ At(n, old).chunk = k
  BY DEF OwnIn
<1>4. PICK U, V : U = InUse(n, C, K, f) /\ V = InUse(m, E, L, f)
  OBVIOUS
<1>5. IsFiniteSet(U) /\ Cardinality(U) \in Nat
  BY <1>4, FS_Subset, FS_CardinalityType DEF InUse
<1>6. V = IF k = 0 THEN U ELSE (U \cup {c}) \ {old}
  <2>1. CASE k = 0
    <3>1. \A a \in C : a \in V <=> a \in U
      BY <1>1, <1>3, <1>4, <2>1 DEF InUse
    <3>2. V \subseteq C
      BY <1>1, <1>4, <2>1 DEF InUse
    <3>3. U \subseteq C
      BY <1>4 DEF InUse
    <3>4. QED
      BY <2>1, <3>1, <3>2, <3>3
  <2>2. CASE k # 0
    <3>1. \A a \in C : a \in V <=> a \in U /\ a # old
      BY <1>1, <1>4 DEF InUse
    <3>2. V \subseteq E /\ U \subseteq C
      BY <1>4 DEF InUse
    <3>3. c # old => c \in V
      BY <1>1, <1>4, <2>2 DEF InUse
    <3>4. c = old => c \notin V
      BY <1>4 DEF InUse
    <3>5. QED
      BY <1>1, <2>2, <3>1, <3>2, <3>3, <3>4
  <2>3. QED
    BY <2>1, <2>2
<1>7. v.here => Cardinality(V) <= v.nData
  <2>1. SUFFICES ASSUME v.here PROVE Cardinality(V) <= v.nData
    OBVIOUS
  <2>2. Cardinality(U) <= w.nData /\ w.nData \in Int
    BY <1>4, <2>1 DEF UseOk
  <2>3. CASE k = 0
    BY <1>6, <2>2, <2>3
  <2>4. CASE k # 0 /\ old = None
    <3>1. c \notin U /\ old \notin U
      BY <1>1, <1>4, <2>4 DEF InUse
    <3>2. c # old => V = U \cup {c}
      BY <1>6, <2>4, <3>1
    <3>3. c = old => V = U
      BY <1>6, <2>4, <3>1
    <3>4. Cardinality(U \cup {c}) = Cardinality(U) + 1
      BY <1>5, <3>1, FS_AddElement
    <3>5. QED
      BY <1>5, <2>2, <2>4, <3>2, <3>3, <3>4
  <2>5. CASE k # 0 /\ old # None
    <3>1. old \in U /\ c \notin U /\ c # old
      BY <1>1, <1>3, <1>4, <2>5 DEF InUse
    <3>2. IsFiniteSet(U \cup {c}) /\ Cardinality(U \cup {c}) = Cardinality(U) + 1
      BY <1>5, <3>1, FS_AddElement
    <3>3. Cardinality((U \cup {c}) \ {old}) = Cardinality(U \cup {c}) - 1
      BY <3>1, <3>2, FS_RemoveElement
    <3>4. V = (U \cup {c}) \ {old}
      BY <1>6, <2>5
    <3>5. QED
      BY <1>5, <2>2, <2>5, <3>2, <3>3, <3>4
  <2>6. QED
    BY <2>3, <2>4, <2>5
<1>8. QED
  BY <1>2, <1>4, <1>7 DEF UseOk

LEMMA GrownIs ==
  ASSUME NEW n, NEW C, NEW s, NEW m, NEW E, NEW u, NEW c, Appended(n, C, s, m, E, u, c),
         NEW F, NEW G, F \subseteq G
  PROVE  /\ Grown(n, C, s, F, m, E, u, G)
         /\ \A e \in C : Buried(n, C, s, F, e) => Buried(m, E, u, G, e)
         /\ \A e \in C : Barred(n, C, s, F, e) => Barred(m, E, u, G, e)
<1>1. Grown(n, C, s, F, m, E, u, G)
  BY DEF Appended, Grown
<1>2. QED
  BY <1>1, AgainstKept

LEMMA DataMoved ==
  ASSUME NEW n, NEW C, NEW s, NEW m, NEW E, NEW u, NEW c, Appended(n, C, s, m, E, u, c),
         NEW F, NEW G, F \subseteq G, NEW K, NEW f, NEW w, NEW p, DataOk(n, C, s, F, w, p, f),
         OwnIn(n, C, K, w, f), None \notin C,
         NEW k \in 1 .. FileChunks, At(m, c).file = f, At(m, c).chunk = k,
         w.size \in Nat, NEW v, v.hdr = w.hdr, v.dir = w.dir, v.size \in Nat, v.size >= w.size, c # None,
         v.tnode[k] = c, \A j \in 1 .. FileChunks \ {k} : v.tnode[j] = w.tnode[j],
         NEW q, HeaderPending(q) <=> HeaderPending(p), CutPending(q) <=> CutPending(p),
         v.size = w.size \/ ~CutPending(p),
         v.dir = "root" /\ ~HeaderPending(p) => k <= v.size
  PROVE  DataOk(m, E, u, G, v, q, f)
<1>1. /\ E = C \cup {c} /\ c \notin C /\ \A a \in C : At(m, a) = At(n, a) /\ Later(u, c, a)
      /\ \A a, e \in C : Later(u, a, e) <=> Later(s, a, e)
  BY DEF Appended
<1>2. \A a \in E : ~Later(u, a, c)
  BY AppendedLast
<1>3. \A e \in C : Barred(n, C, s, F, e) => Barred(m, E, u, G, e)
  BY GrownIs
<1>4. w.hdr # None => w.hdr \in C
  BY OwnInParts
<1>5. Of(m, E, f, 0) = Of(n, C, f, 0) /\ Of(n, C, f, 0) \subseteq C
  <2>1. c \notin Of(m, E, f, 0)
    BY DEF Of
  <2>2. QED
    BY <1>1, <2>1 DEF Of
<1>6. SUFFICES ASSUME v.hdr # None, At(m, v.hdr).dir = "root",
                      NEW j \in 1 .. FileChunks, NEW e \in Of(m, E, f, j)
      PROVE  /\ e = v.tnode[j] => \A h \in E : At(m, h).file = f /\ Later(u, h, e) => ~Cutter(At(m, h), j)
             /\ e # v.tnode[j] /\ (\E h \in Of(m, E, f, 0) : At(m, h).dir # "root" /\ Later(u, h, e))
                  => Barred(m, E, u, G, e)
             /\ v.tnode[j] # None /\ e # v.tnode[j] => Later(u, v.tnode[j], e)
             /\ v.tnode[j] = None =>
                  Barred(m, E, u, G, e) \/ (CutPending(q) /\ v.dir = "root" /\ j > v.size)
             /\ v.dir = "root" /\ ~HeaderPending(q) /\ Later(u, e, v.hdr) => j <= v.size
  BY DEF DataOk
<1>7. e \in E /\ At(m, e).file = f /\ At(m, e).chunk = j
  BY <1>6 DEF Of
<1>8. CASE e = c
  <2>1. j = k
    BY <1>7, <1>8
  <2>2. QED
    BY <1>2, <1>6, <1>8, <2>1
<1>9. CASE e # c
  <2>1. e \in C /\ e \in Of(n, C, f, j) /\ At(m, e) = At(n, e)
    BY <1>1, <1>7, <1>9 DEF Of
  <2>2. /\ e = w.tnode[j] => \A h \in C : At(n, h).file = f /\ Later(s, h, e) => ~Cutter(At(n, h), j)
        /\ e # w.tnode[j] /\ (\E h \in Of(n, C, f, 0) : At(n, h).dir # "root" /\ Later(s, h, e))
             => Barred(n, C, s, F, e)
        /\ w.tnode[j] # None /\ e # w.tnode[j] => Later(s, w.tnode[j], e)
        /\ w.tnode[j] = None =>
             Barred(n, C, s, F, e) \/ (CutPending(p) /\ w.dir = "root" /\ j > w.size)
        /\ w.dir = "root" /\ ~HeaderPending(p) /\ Later(s, e, w.hdr) => j <= w.size
    BY <1>1, <1>4, <1>6, <2>1 DEF DataOk
  <2>3. v.dir = "root" /\ ~HeaderPending(q) /\ Later(u, e, v.hdr) => j <= v.size
    BY <1>1, <1>4, <1>6, <2>1, <2>2
  <2>4. e # w.tnode[j] /\ (\E h \in Of(m, E, f, 0) : At(m, h).dir # "root" /\ Later(u, h, e))
          => Barred(m, E, u, G, e)
    BY <1>1, <1>3, <1>5, <2>1, <2>2
  <2>5. CASE j # k
    <3>1. v.tnode[j] = w.tnode[j]
      BY <2>5
    <3>2. e = v.tnode[j] => \A h \in E : At(m, h).file = f /\ Later(u, h, e) => ~Cutter(At(m, h), j)
      <4>1. ~Cutter(At(m, c), j)
        BY DEF Cutter
      <4>2. QED
        BY <1>1, <2>1, <2>2, <3>1, <4>1
    <3>3. w.tnode[j] # None => w.tnode[j] \in C
      BY OwnInParts
    <3>4. v.tnode[j] # None /\ e # v.tnode[j] => Later(u, v.tnode[j], e)
      BY <1>1, <2>1, <2>2, <3>1, <3>3
    <3>5. v.tnode[j] = None =>
            Barred(m, E, u, G, e) \/ (CutPending(q) /\ v.dir = "root" /\ j > v.size)
      BY <1>3, <2>1, <2>2, <3>1
    <3>6. QED
      BY <2>3, <2>4, <3>1, <3>2, <3>4, <3>5
  <2>6. CASE j = k
    <3>1. e = w.tnode[j] => ~\E h \in Of(m, E, f, 0) : At(m, h).dir # "root" /\ Later(u, h, e)
      <4>1. SUFFICES ASSUME e = w.tnode[j], NEW h \in Of(m, E, f, 0), At(m, h).dir # "root", Later(u, h, e)
                     PROVE  FALSE
        OBVIOUS
      <4>2. h \in C /\ At(n, h).file = f /\ At(n, h).chunk = 0 /\ At(n, h).dir # "root" /\ Later(s, h, e)
        BY <1>1, <1>5, <2>1, <4>1 DEF Of
      <4>3. Cutter(At(n, h), j)
        BY <4>2 DEF Cutter, SizeLeft
      <4>4. QED
        BY <2>2, <4>1, <4>2, <4>3
    <3>2. v.tnode[j] = c /\ Later(u, c, e)
      BY <1>1, <2>1, <2>6
    <3>3. QED
      BY <1>9, <2>3, <2>4, <3>1, <3>2
  <2>7. QED
    BY <2>5, <2>6
<1>10. QED
  BY <1>8, <1>9

(* Chunk k of the file moves to the new page: its data was written, or the *)
(* collector copied it.                                                    *)
PutOrCopied(p, q, w, v, old, k) ==
  \/ p = q /\ v.size = w.size /\ old # None
  \/ q = {} /\ (\E y : p = {y} /\ y.op = "put") /\ v.size >= w.size /\ v.size >= k

MovedFile(n, C, s, m, E, u, c, K, F, S, f, w, p, k, old, v, L, T, q) ==
  /\ IsFiniteSet(C) /\ Appended(n, C, s, m, E, u, c)
  /\ FileOk(n, C, s, K, F, S, w, p, f) /\ OwnIn(n, C, K, w, f) /\ None \notin C /\ c # None
  /\ \A a \in C : At(n, a).file = f => At(n, a).chunk \in 0 .. FileChunks
  /\ \A a \in C : At(n, a).size \in Nat
  /\ w.here /\ w.nData \in Int /\ w.size \in Nat
  /\ k \in 1 .. FileChunks /\ At(m, c).file = f /\ At(m, c).chunk = k
  /\ old = w.tnode[k] /\ v.here = w.here /\ v.hdr = w.hdr /\ v.deleted = w.deleted /\ v.dir = w.dir
  /\ v.tnode[k] = c /\ \A j \in 1 .. FileChunks \ {k} : v.tnode[j] = w.tnode[j]
  /\ v.nData = (IF old = None THEN w.nData + 1 ELSE w.nData) /\ v.size \in Nat
  /\ L = (K \cup {c}) \ {old}
  /\ \A a \in C : a \in L /\ a \in K /\ a[1] \in S => a[1] \in T
  /\ PutOrCopied(p, q, w, v, old, k)

LEMMA FileMoved ==
  ASSUME NEW n, NEW C, NEW s, NEW m, NEW E, NEW u, NEW c, NEW K, NEW F, NEW S, NEW f, NEW w, NEW p,
         NEW k, NEW old, NEW v, NEW L, NEW T, NEW q,
         MovedFile(n, C, s, m, E, u, c, K, F, S, f, w, p, k, old, v, L, T, q)
  PROVE  FileOk(m, E, u, L, F, T, v, q, f)
<1>0. /\ IsFiniteSet(C) /\ Appended(n, C, s, m, E, u, c)
      /\ FileOk(n, C, s, K, F, S, w, p, f) /\ OwnIn(n, C, K, w, f) /\ None \notin C /\ c # None
      /\ \A a \in C : At(n, a).file = f => At(n, a).chunk \in 0 .. FileChunks
      /\ \A a \in C : At(n, a).size \in Nat
      /\ w.here /\ w.nData \in Int /\ w.size \in Nat
      /\ k \in 1 .. FileChunks /\ At(m, c).file = f /\ At(m, c).chunk = k
      /\ old = w.tnode[k] /\ v.here = w.here /\ v.hdr = w.hdr /\ v.deleted = w.deleted /\ v.dir = w.dir
      /\ v.tnode[k] = c /\ \A j \in 1 .. FileChunks \ {k} : v.tnode[j] = w.tnode[j]
      /\ v.nData = (IF old = None THEN w.nData + 1 ELSE w.nData) /\ v.size \in Nat
      /\ L = (K \cup {c}) \ {old}
      /\ \A a \in C : a \in L /\ a \in K /\ a[1] \in S => a[1] \in T
      /\ PutOrCopied(p, q, w, v, old, k)
  BY DEF MovedFile
<1> USE <1>0
<1>1. /\ UseOk(n, C, K, S, w, f) /\ HeaderOk(n, C, s, w, p, f) /\ GoneOk(n, C, s, F, w, f)
      /\ DataOk(n, C, s, F, w, p, f) /\ ObjectOk(w, p) /\ CallOk(w, p)
  BY DEF FileOk
<1>2. /\ HeaderPending(q) <=> HeaderPending(p)
      /\ CutPending(q) <=> CutPending(p)
      /\ v.size >= w.size
      /\ v.size = w.size \/ ~CutPending(p)
      /\ \A j : j # k => (PrunePending(p, j) <=> PrunePending(q, j))
  BY DEF HeaderPending, CutPending, PrunePending, PutOrCopied
<1>3. w.hdr # None /\ w.dir # "deleted"
  BY <1>1 DEF ObjectOk, CallOk, PutOrCopied
<1>4. v.dir = "root" /\ ~HeaderPending(p) => k <= v.size
  <2>1. CASE p = q /\ v.size = w.size /\ old # None
    <3>1. w.dir = "root" => k <= w.size \/ PrunePending(p, k)
      BY <1>1, <2>1 DEF ObjectOk
    <3>2. w.dir = "root" /\ PrunePending(p, k) => CutPending(p)
      BY <1>1 DEF CallOk, PrunePending
    <3>3. QED
      BY <2>1, <3>1, <3>2, CutsAreHeaders
  <2>2. CASE v.size >= k
    BY <2>2
  <2>3. QED
    BY <2>1, <2>2 DEF PutOrCopied
<1>5. UseOk(m, E, L, T, v, f)
  <2>1. k \in 0 .. FileChunks /\ k # 0 /\ old = OwnOf(w, k) /\ OwnOf(v, k) = c
    BY OwnKinds
  <2>2. \A j \in 0 .. FileChunks \ {k} : OwnOf(v, j) = OwnOf(w, j)
    BY DEF OwnOf
  <2>3. v.nData = IF k # 0 /\ old = None THEN w.nData + 1 ELSE w.nData
    BY <2>1
  <2>4. QED
    BY ONLY <1>1, <2>1, <2>2, <2>3, UseMoved, IsFiniteSet(C), Appended(n, C, s, m, E, u, c),
       OwnIn(n, C, K, w, f), None \notin C, w.nData \in Int, At(m, c).file = f, At(m, c).chunk = k,
       \A a \in C : At(n, a).file = f => At(n, a).chunk \in 0 .. FileChunks,
       v.here = w.here, v.deleted = w.deleted, L = (K \cup {c}) \ {old},
       \A a \in C : a \in L /\ a \in K /\ a[1] \in S => a[1] \in T
<1>6. /\ \A a \in C : At(m, a) = At(n, a)
      /\ \A a, e \in C : Later(u, a, e) <=> Later(s, a, e)
      /\ Of(m, E, f, 0) = Of(n, C, f, 0) /\ w.hdr \in C
  <2>1. E = C \cup {c} /\ \A a \in C : At(m, a) = At(n, a)
    BY DEF Appended
  <2>2. c \notin Of(m, E, f, 0)
    BY DEF Of
  <2>3. Of(m, E, f, 0) = Of(n, C, f, 0)
    BY <2>1, <2>2 DEF Of
  <2>4. w.hdr \in C
    BY <1>3, OwnInParts
  <2>5. QED
    BY <2>1, <2>3, <2>4 DEF Appended
<1>7. HeaderOk(m, E, u, v, q, f)
  <2>1. Of(n, C, f, 0) \subseteq C
    BY DEF Of
  <2>2. /\ \A a \in Of(n, C, f, 0) : a = w.hdr \/ Later(s, w.hdr, a)
        /\ ~HeaderPending(p) => At(n, w.hdr).dir = w.dir
        /\ At(n, w.hdr).dir = "deleted" => w.dir = "deleted"
        /\ w.dir = "root" => /\ At(n, w.hdr).dir = "root"
                             /\ ~HeaderPending(p) => At(n, w.hdr).size <= w.size
    BY <1>1, <1>3 DEF HeaderOk
  <2>3. \A a \in Of(m, E, f, 0) : a = w.hdr \/ Later(u, w.hdr, a)
    BY <1>6, <2>1, <2>2
  <2>4. At(m, w.hdr) = At(n, w.hdr)
    BY <1>6
  <2>5. At(n, w.hdr).size <= w.size => At(n, w.hdr).size <= v.size \/ At(n, w.hdr).size \notin Int
    BY <1>2
  <2>6. CASE v.size = w.size
    BY <1>2, <2>2, <2>3, <2>4, <2>6 DEF HeaderOk
  <2>7. CASE v.size # w.size
    <3>1. At(n, w.hdr).size \in Int
      BY <1>6
    <3>2. QED
      BY <1>2, <2>2, <2>3, <2>4, <2>5, <3>1 DEF HeaderOk
  <2>8. QED
    BY <2>6, <2>7
<1>8. GoneOk(m, E, u, F, v, f)
  BY <1>1, <1>3, <1>6 DEF HeaderOk, GoneOk
<1>9. DataOk(m, E, u, F, v, q, f)
  <2>1. Appended(n, C, s, m, E, u, c) /\ DataOk(n, C, s, F, w, p, f) /\ OwnIn(n, C, K, w, f)
    BY <1>1
  <2>2. F \subseteq F /\ None \notin C /\ c # None
    OBVIOUS
  <2>3. k \in 1 .. FileChunks /\ At(m, c).file = f /\ At(m, c).chunk = k /\ w.size \in Nat
    OBVIOUS
  <2>4. v.hdr = w.hdr /\ v.dir = w.dir /\ v.size \in Nat /\ v.size >= w.size
    BY <1>2
  <2>5. v.tnode[k] = c /\ \A j \in 1 .. FileChunks \ {k} : v.tnode[j] = w.tnode[j]
    OBVIOUS
  <2>6. HeaderPending(q) <=> HeaderPending(p)
    BY <1>2
  <2>7. CutPending(q) <=> CutPending(p)
    BY <1>2
  <2>8. v.size = w.size \/ ~CutPending(p)
    BY <1>2
  <2>9. QED
    BY ONLY <1>4, <2>1, <2>2, <2>3, <2>4, <2>5, <2>6, <2>7, <2>8, DataMoved
<1>10. ObjectOk(v, q)
  <2>1. ASSUME v.dir = "root", NEW j \in 1 .. FileChunks, v.tnode[j] # None
        PROVE  j <= v.size \/ PrunePending(q, j)
    <3>1. CASE j # k
      <4>1. j <= w.size \/ PrunePending(p, j)
        BY <1>1, <2>1, <3>1 DEF ObjectOk
      <4>2. QED
        BY <1>2, <3>1, <4>1
    <3>2. CASE j = k
      <4>1. p = q /\ v.size = w.size /\ old # None => k <= v.size \/ PrunePending(q, k)
        BY <1>1, <2>1 DEF ObjectOk
      <4>2. QED
        BY <3>2, <4>1 DEF PutOrCopied
    <3>3. QED
      BY <3>1, <3>2
  <2>2. v.deleted => v.dir # "root"
    BY <1>1 DEF ObjectOk
  <2>3. QED
    BY <1>3, <2>1, <2>2 DEF ObjectOk
<1>11. CallOk(v, q)
  <2>1. CASE q = {}
    BY <1>3, <2>1 DEF CallOk
  <2>2. CASE p = q /\ v.size = w.size
    BY <1>1, <2>2 DEF CallOk
  <2>3. QED
    BY <2>1, <2>2 DEF PutOrCopied
<1>12. QED
  BY <1>5, <1>7, <1>8, <1>9, <1>10, <1>11 DEF FileOk

(* The collector copied the header of the file.                            *)
CopiedHeader(n, C, s, m, E, u, c, K, F, S, f, w, q, v, L, T) ==
  /\ IsFiniteSet(C) /\ Appended(n, C, s, m, E, u, c)
  /\ FileOk(n, C, s, K, F, S, w, q, f) /\ OwnIn(n, C, K, w, f) /\ None \notin C /\ c # None
  /\ \A a \in C : At(n, a).file = f => At(n, a).chunk \in 0 .. FileChunks
  /\ w.here /\ w.nData \in Int /\ w.hdr # None
  /\ At(m, c).file = f /\ At(m, c).chunk = 0 /\ At(m, c).dir = At(n, w.hdr).dir
  /\ At(m, c).size = At(n, w.hdr).size /\ ~At(m, c).shrink
  /\ v.here = w.here /\ v.hdr = c /\ v.deleted = w.deleted /\ v.dir = w.dir
  /\ v.tnode = w.tnode /\ v.nData = w.nData /\ v.size = w.size
  /\ L = (K \cup {c}) \ {w.hdr}
  /\ \A a \in C : a \in L /\ a \in K /\ a[1] \in S => a[1] \in T

LEMMA FileHeaderMoved ==
  ASSUME NEW n, NEW C, NEW s, NEW m, NEW E, NEW u, NEW c, NEW K, NEW F, NEW S, NEW f, NEW w, NEW q, NEW v, NEW L, NEW T,
         CopiedHeader(n, C, s, m, E, u, c, K, F, S, f, w, q, v, L, T)
  PROVE  FileOk(m, E, u, L, F, T, v, q, f)
<1>0. /\ IsFiniteSet(C) /\ Appended(n, C, s, m, E, u, c)
      /\ FileOk(n, C, s, K, F, S, w, q, f) /\ OwnIn(n, C, K, w, f) /\ None \notin C /\ c # None
      /\ \A a \in C : At(n, a).file = f => At(n, a).chunk \in 0 .. FileChunks
      /\ w.here /\ w.nData \in Int /\ w.hdr # None
      /\ At(m, c).file = f /\ At(m, c).chunk = 0 /\ At(m, c).dir = At(n, w.hdr).dir
      /\ At(m, c).size = At(n, w.hdr).size /\ ~At(m, c).shrink
      /\ v.here = w.here /\ v.hdr = c /\ v.deleted = w.deleted /\ v.dir = w.dir
      /\ v.tnode = w.tnode /\ v.nData = w.nData /\ v.size = w.size
      /\ L = (K \cup {c}) \ {w.hdr}
      /\ \A a \in C : a \in L /\ a \in K /\ a[1] \in S => a[1] \in T
  BY DEF CopiedHeader
<1> USE <1>0
<1>1. /\ UseOk(n, C, K, S, w, f) /\ HeaderOk(n, C, s, w, q, f) /\ GoneOk(n, C, s, F, w, f)
      /\ DataOk(n, C, s, F, w, q, f) /\ ObjectOk(w, q) /\ CallOk(w, q)
  BY DEF FileOk
<1>2. /\ E = C \cup {c} /\ c \notin C /\ \A a \in C : At(m, a) = At(n, a) /\ Later(u, c, a)
      /\ \A a, e \in C : Later(u, a, e) <=> Later(s, a, e)
  BY DEF Appended
<1>3. /\ \A e \in C : Buried(n, C, s, F, e) => Buried(m, E, u, F, e)
      /\ \A e \in C : Barred(n, C, s, F, e) => Barred(m, E, u, F, e)
  BY GrownIs
<1>4. UseOk(m, E, L, T, v, f)
  <2>1. 0 \in 0 .. FileChunks /\ w.hdr = OwnOf(w, 0) /\ OwnOf(v, 0) = c
    BY OwnKinds, Geometry
  <2>2. \A j \in 0 .. FileChunks \ {0} : OwnOf(v, j) = OwnOf(w, j)
    BY DEF OwnOf
  <2>3. v.nData = IF 0 # 0 /\ w.hdr = None THEN w.nData + 1 ELSE w.nData
    OBVIOUS
  <2>4. QED
    BY ONLY <1>1, <2>1, <2>2, <2>3, UseMoved, IsFiniteSet(C), Appended(n, C, s, m, E, u, c),
       OwnIn(n, C, K, w, f), None \notin C, w.nData \in Int, At(m, c).file = f, At(m, c).chunk = 0,
       \A a \in C : At(n, a).file = f => At(n, a).chunk \in 0 .. FileChunks,
       v.here = w.here, v.deleted = w.deleted, L = (K \cup {c}) \ {w.hdr},
       \A a \in C : a \in L /\ a \in K /\ a[1] \in S => a[1] \in T
<1>5. HeaderOk(m, E, u, v, q, f)
  <2>1. \A a \in Of(m, E, f, 0) : a = v.hdr \/ Later(u, v.hdr, a)
    BY <1>2 DEF Of
  <2>2. QED
    BY <1>1, <2>1 DEF HeaderOk
<1>6. GoneOk(m, E, u, F, v, f)
  <2>1. SUFFICES ASSUME At(m, c).dir = "deleted", NEW a \in E, At(m, a).file = f
                 PROVE  IsTomb(At(m, a)) \/ Buried(m, E, u, F, a)
    BY DEF GoneOk
  <2>2. CASE a = c
    BY <2>1, <2>2 DEF IsTomb
  <2>3. CASE a # c
    BY <1>1, <1>2, <1>3, <2>1, <2>3 DEF GoneOk
  <2>4. QED
    BY <2>2, <2>3
<1>7. DataOk(m, E, u, F, v, q, f)
  <2>1. SUFFICES ASSUME At(m, c).dir = "root",
                        NEW j \in 1 .. FileChunks, NEW e \in Of(m, E, f, j)
      PROVE  /\ e = v.tnode[j] => \A h \in E : At(m, h).file = f /\ Later(u, h, e) => ~Cutter(At(m, h), j)
             /\ e # v.tnode[j] /\ (\E h \in Of(m, E, f, 0) : At(m, h).dir # "root" /\ Later(u, h, e))
                  => Barred(m, E, u, F, e)
             /\ v.tnode[j] # None /\ e # v.tnode[j] => Later(u, v.tnode[j], e)
             /\ v.tnode[j] = None =>
                  Barred(m, E, u, F, e) \/ (CutPending(q) /\ v.dir = "root" /\ j > v.size)
             /\ v.dir = "root" /\ ~HeaderPending(q) /\ Later(u, e, v.hdr) => j <= v.size
    BY DEF DataOk
  <2>2. e \in C /\ e \in Of(n, C, f, j) /\ At(m, e) = At(n, e)
    <3>1. e # c
      BY <2>1 DEF Of
    <3>2. QED
      BY <1>2, <2>1, <3>1 DEF Of
  <2>3. /\ e = w.tnode[j] => \A h \in C : At(n, h).file = f /\ Later(s, h, e) => ~Cutter(At(n, h), j)
        /\ e # w.tnode[j] /\ (\E h \in Of(n, C, f, 0) : At(n, h).dir # "root" /\ Later(s, h, e))
             => Barred(n, C, s, F, e)
        /\ w.tnode[j] # None /\ e # w.tnode[j] => Later(s, w.tnode[j], e)
        /\ w.tnode[j] = None =>
             Barred(n, C, s, F, e) \/ (CutPending(q) /\ w.dir = "root" /\ j > w.size)
    BY <1>1, <2>1, <2>2 DEF DataOk
  <2>4. e = v.tnode[j] => \A h \in E : At(m, h).file = f /\ Later(u, h, e) => ~Cutter(At(m, h), j)
    <3>1. ~Cutter(At(m, c), j)
      BY <2>1 DEF Cutter
    <3>2. QED
      BY <1>2, <2>2, <2>3, <3>1
  <2>5. e # v.tnode[j] /\ (\E h \in Of(m, E, f, 0) : At(m, h).dir # "root" /\ Later(u, h, e))
          => Barred(m, E, u, F, e)
    <3>1. SUFFICES ASSUME e # v.tnode[j], NEW h \in Of(m, E, f, 0), At(m, h).dir # "root", Later(u, h, e)
                   PROVE  Barred(m, E, u, F, e)
      OBVIOUS
    <3>2. h # c
      BY <2>1, <3>1
    <3>3. h \in Of(n, C, f, 0) /\ h \in C /\ At(n, h) = At(m, h)
      BY <1>2, <3>1, <3>2 DEF Of
    <3>4. QED
      BY <1>2, <1>3, <2>2, <2>3, <3>1, <3>3
  <2>6. v.tnode[j] # None /\ e # v.tnode[j] => Later(u, v.tnode[j], e)
    BY <1>2, <2>2, <2>3, OwnInParts
  <2>7. v.tnode[j] = None =>
          Barred(m, E, u, F, e) \/ (CutPending(q) /\ v.dir = "root" /\ j > v.size)
    BY <1>3, <2>2, <2>3
  <2>8. ~Later(u, e, v.hdr)
    BY <2>1, <2>2, <1>2, AppendedLast
  <2>9. QED
    BY <2>4, <2>5, <2>6, <2>7, <2>8
<1>8. ObjectOk(v, q)
  BY <1>1 DEF ObjectOk
<1>9. CallOk(v, q)
  BY <1>1 DEF CallOk
<1>10. QED
  BY <1>4, <1>5, <1>6, <1>7, <1>8, <1>9 DEF FileOk

(* A new header of the file.                                               *)
HeadedFile(n, C, s, m, E, u, c, K, F, S, f, w, r, y, v, L, G, T) ==
  /\ IsFiniteSet(C) /\ Appended(n, C, s, m, E, u, c)
  /\ FileOk(n, C, s, K, F, S, w, r \cup {y}, f) /\ OwnIn(n, C, K, w, f) /\ None \notin C /\ c # None
  /\ \A a \in C : At(n, a).file = f => At(n, a).chunk \in 0 .. FileChunks
  /\ w.here /\ w.nData \in Int /\ w.size \in Nat
  /\ y.op = "header" /\ \A x \in r : x.op = "remove" /\ w.dir = "deleted"
  /\ At(m, c).file = f /\ At(m, c).chunk = 0 /\ At(m, c).dir = w.dir
  /\ (w.dir = "root" => At(m, c).size = w.size) /\ At(m, c).shrink = y.shrink
  /\ v.here = w.here /\ v.hdr = c /\ v.deleted = w.deleted /\ v.dir = w.dir
  /\ v.tnode = w.tnode /\ v.nData = w.nData /\ v.size = w.size
  /\ L = (K \cup {c}) \ {w.hdr} /\ F \subseteq G /\ (y.shrink => c[1] \in G)
  /\ \A a \in C : a \in L /\ a \in K /\ a[1] \in S => a[1] \in T

LEMMA FileHeaded ==
  ASSUME NEW n, NEW C, NEW s, NEW m, NEW E, NEW u, NEW c, NEW K, NEW F, NEW S, NEW f, NEW w, NEW r, NEW y, NEW v, NEW L, NEW G, NEW T,
         HeadedFile(n, C, s, m, E, u, c, K, F, S, f, w, r, y, v, L, G, T)
  PROVE  FileOk(m, E, u, L, G, T, v, r, f)
<1>0. /\ IsFiniteSet(C) /\ Appended(n, C, s, m, E, u, c)
      /\ FileOk(n, C, s, K, F, S, w, r \cup {y}, f) /\ OwnIn(n, C, K, w, f) /\ None \notin C /\ c # None
      /\ \A a \in C : At(n, a).file = f => At(n, a).chunk \in 0 .. FileChunks
      /\ w.here /\ w.nData \in Int /\ w.size \in Nat
      /\ y.op = "header" /\ \A x \in r : x.op = "remove" /\ w.dir = "deleted"
      /\ At(m, c).file = f /\ At(m, c).chunk = 0 /\ At(m, c).dir = w.dir
      /\ (w.dir = "root" => At(m, c).size = w.size) /\ At(m, c).shrink = y.shrink
      /\ v.here = w.here /\ v.hdr = c /\ v.deleted = w.deleted /\ v.dir = w.dir
      /\ v.tnode = w.tnode /\ v.nData = w.nData /\ v.size = w.size
      /\ L = (K \cup {c}) \ {w.hdr} /\ F \subseteq G /\ (y.shrink => c[1] \in G)
      /\ \A a \in C : a \in L /\ a \in K /\ a[1] \in S => a[1] \in T
  BY DEF HeadedFile
<1> USE <1>0
<1>1. /\ UseOk(n, C, K, S, w, f) /\ HeaderOk(n, C, s, w, r \cup {y}, f) /\ GoneOk(n, C, s, F, w, f)
      /\ DataOk(n, C, s, F, w, r \cup {y}, f) /\ ObjectOk(w, r \cup {y}) /\ CallOk(w, r \cup {y})
  BY DEF FileOk
<1>2. /\ E = C \cup {c} /\ c \notin C /\ \A a \in C : At(m, a) = At(n, a) /\ Later(u, c, a)
      /\ \A a, e \in C : Later(u, a, e) <=> Later(s, a, e)
  BY DEF Appended
<1>3. /\ \A e \in C : Buried(n, C, s, F, e) => Buried(m, E, u, G, e)
      /\ \A e \in C : Barred(n, C, s, F, e) => Barred(m, E, u, G, e)
  BY GrownIs
<1>4. /\ ~HeaderPending(r) /\ \A j : ~PrunePending(r \cup {y}, j)
      /\ CutPending(r \cup {y}) => y.shrink
  BY DEF HeaderPending, PrunePending, CutPending
<1>5. UseOk(m, E, L, T, v, f)
  <2>1. 0 \in 0 .. FileChunks /\ w.hdr = OwnOf(w, 0) /\ OwnOf(v, 0) = c
    BY OwnKinds, Geometry
  <2>2. \A j \in 0 .. FileChunks \ {0} : OwnOf(v, j) = OwnOf(w, j)
    BY DEF OwnOf
  <2>3. v.nData = IF 0 # 0 /\ w.hdr = None THEN w.nData + 1 ELSE w.nData
    OBVIOUS
  <2>4. QED
    BY ONLY <1>1, <2>1, <2>2, <2>3, UseMoved, IsFiniteSet(C), Appended(n, C, s, m, E, u, c),
       OwnIn(n, C, K, w, f), None \notin C, w.nData \in Int, At(m, c).file = f, At(m, c).chunk = 0,
       \A a \in C : At(n, a).file = f => At(n, a).chunk \in 0 .. FileChunks,
       v.here = w.here, v.deleted = w.deleted, L = (K \cup {c}) \ {w.hdr},
       \A a \in C : a \in L /\ a \in K /\ a[1] \in S => a[1] \in T
<1>6. HeaderOk(m, E, u, v, r, f)
  <2>1. \A a \in Of(m, E, f, 0) : a = v.hdr \/ Later(u, v.hdr, a)
    BY <1>2 DEF Of
  <2>2. v.dir = "root" => At(m, v.hdr).size <= v.size
    OBVIOUS
  <2>3. QED
    BY <2>1, <2>2 DEF HeaderOk
<1>7. c \in Of(m, E, f, 0)
  BY <1>2 DEF Of
<1>8. GoneOk(m, E, u, G, v, f)
  <2>1. SUFFICES ASSUME w.dir = "deleted", NEW a \in E, At(m, a).file = f
                 PROVE  IsTomb(At(m, a)) \/ Buried(m, E, u, G, a)
    BY DEF GoneOk
  <2>2. y.shrink
    BY <1>1, <2>1 DEF CallOk
  <2>3. CASE a = c
    BY <2>1, <2>3 DEF IsTomb
  <2>4. CASE a # c
    <3>1. Guard(u, G, c, a)
      BY <1>2, <2>2, <2>4 DEF Guard
    <3>2. Buried(m, E, u, G, a)
      BY <1>7, <2>1, <2>2, <3>1 DEF Buried
    <3>3. QED
      BY <3>2
  <2>5. QED
    BY <2>3, <2>4
<1>9. DataOk(m, E, u, G, v, r, f)
  <2>1. SUFFICES ASSUME w.dir = "root",
                        NEW j \in 1 .. FileChunks, NEW e \in Of(m, E, f, j)
      PROVE  /\ e = v.tnode[j] => \A h \in E : At(m, h).file = f /\ Later(u, h, e) => ~Cutter(At(m, h), j)
             /\ e # v.tnode[j] /\ (\E h \in Of(m, E, f, 0) : At(m, h).dir # "root" /\ Later(u, h, e))
                  => Barred(m, E, u, G, e)
             /\ v.tnode[j] # None /\ e # v.tnode[j] => Later(u, v.tnode[j], e)
             /\ v.tnode[j] = None =>
                  Barred(m, E, u, G, e) \/ (CutPending(r) /\ v.dir = "root" /\ j > v.size)
             /\ v.dir = "root" /\ ~HeaderPending(r) /\ Later(u, e, v.hdr) => j <= v.size
    BY DEF DataOk
  <2>2. e \in C /\ e \in Of(n, C, f, j) /\ At(m, e) = At(n, e) /\ At(n, e).file = f /\ At(n, e).chunk = j
    <3>1. e # c
      BY <2>1 DEF Of
    <3>2. QED
      BY <1>2, <2>1, <3>1 DEF Of
  <2>3. ~Later(u, e, v.hdr)
    BY <2>2, <1>2, AppendedLast
  <2>4. CASE w.hdr = None
    <3>1. Buried(n, C, s, F, e)
      <4>1. ~IsTomb(At(n, e))
        BY <2>1, <2>2 DEF IsTomb
      <4>2. QED
        BY <1>1, <2>2, <2>4, <4>1 DEF GoneOk
    <3>2. Barred(n, C, s, F, e)
      <4>1. j > 0
        BY <2>1
      <4>2. QED
        BY <2>2, <3>1, <4>1 DEF Buried, Barred, SizeLeft
    <3>3. w.tnode[j] = None /\ e # None
      BY <1>1, <2>1, <2>2, <2>4 DEF ObjectOk
    <3>4. QED
      BY <1>3, <2>2, <2>3, <3>2, <3>3
  <2>5. CASE w.hdr # None
    <3>1. At(n, w.hdr).dir = "root"
      BY <1>1, <2>1, <2>5 DEF HeaderOk
    <3>2. /\ e = w.tnode[j] => \A h \in C : At(n, h).file = f /\ Later(s, h, e) => ~Cutter(At(n, h), j)
          /\ e # w.tnode[j] /\ (\E h \in Of(n, C, f, 0) : At(n, h).dir # "root" /\ Later(s, h, e))
               => Barred(n, C, s, F, e)
          /\ w.tnode[j] # None /\ e # w.tnode[j] => Later(s, w.tnode[j], e)
          /\ w.tnode[j] = None =>
               Barred(n, C, s, F, e) \/ (CutPending(r \cup {y}) /\ w.dir = "root" /\ j > w.size)
      BY <1>1, <2>1, <2>2, <2>5, <3>1 DEF DataOk
    <3>3. e = v.tnode[j] => \A h \in E : At(m, h).file = f /\ Later(u, h, e) => ~Cutter(At(m, h), j)
      <4>1. SUFFICES ASSUME e = v.tnode[j] PROVE ~Cutter(At(m, c), j)
        BY <1>2, <2>2, <3>2
      <4>2. j <= w.size
        BY <1>1, <1>4, <2>1, <2>2, <4>1 DEF ObjectOk
      <4>3. QED
        BY <2>1, <4>2 DEF Cutter, SizeLeft
    <3>4. e # v.tnode[j] /\ (\E h \in Of(m, E, f, 0) : At(m, h).dir # "root" /\ Later(u, h, e))
            => Barred(m, E, u, G, e)
      <4>1. SUFFICES ASSUME e # v.tnode[j], NEW h \in Of(m, E, f, 0), At(m, h).dir # "root", Later(u, h, e)
                     PROVE  Barred(m, E, u, G, e)
        OBVIOUS
      <4>2. h # c
        BY <2>1, <4>1
      <4>3. h \in Of(n, C, f, 0) /\ h \in C /\ At(n, h) = At(m, h)
        BY <1>2, <4>1, <4>2 DEF Of
      <4>4. QED
        BY <1>2, <1>3, <2>2, <3>2, <4>1, <4>3
    <3>5. v.tnode[j] # None /\ e # v.tnode[j] => Later(u, v.tnode[j], e)
      BY <1>2, <2>2, <3>2, OwnInParts
    <3>6. v.tnode[j] = None => Barred(m, E, u, G, e)
      <4>1. SUFFICES ASSUME v.tnode[j] = None, y.shrink, j > w.size PROVE Barred(m, E, u, G, e)
        BY <1>3, <1>4, <2>2, <3>2
      <4>2. Guard(u, G, c, e)
        BY <1>2, <2>2, <4>1 DEF Guard
      <4>3. At(m, e).chunk > SizeLeft(At(m, c))
        BY <2>1, <2>2, <4>1 DEF SizeLeft
      <4>4. QED
        BY <1>7, <2>2, <4>1, <4>2, <4>3 DEF Barred
    <3>7. QED
      BY <2>3, <3>3, <3>4, <3>5, <3>6
  <2>6. QED
    BY <2>4, <2>5
<1>10. ObjectOk(v, r)
  <2>1. ASSUME v.dir = "root", NEW j \in 1 .. FileChunks, v.tnode[j] # None PROVE j <= v.size
    BY <1>1, <1>4, <2>1 DEF ObjectOk
  <2>2. \A j \in 1 .. FileChunks : w.hdr = None => w.tnode[j] = None
    BY <1>1 DEF ObjectOk
  <2>3. v.hdr # None
    OBVIOUS
  <2>4. QED
    BY <1>1, <2>1, <2>3 DEF ObjectOk
<1>11. CallOk(v, r)
  BY <1>1 DEF CallOk
<1>12. QED
  BY <1>5, <1>6, <1>8, <1>9, <1>10, <1>11 DEF FileOk
=============================================================================
