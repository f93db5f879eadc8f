------------------------------ MODULE YaffsEcc ------------------------------
(***************************************************************************)
(* The error correction that YAFFS2 puts over the tags in a page's spare   *)
(* area (yaffs_ecc.c, the functions ...Other): parities of the columns and *)
(* of the lines of a small block of bytes, each kept for a bit of the      *)
(* index being set and, as the "prime", for it being clear.                *)
(*                                                                         *)
(* A byte is the set of its one bits, a word of parities the set of the    *)
(* ones in it. The block is written with its code, up to two bits of block *)
(* and code are flipped by the flash, and it is read back.                 *)
(***************************************************************************)
EXTENDS Integers, FiniteSets

CONSTANTS
  NBytes,   \* nBytes: the length of the block
  Width,    \* bits of lineParity, an unsigned (bound)
  Blocks    \* contents the block is written with (bound)

BytesOf == 0 .. NBytes - 1
Lines   == 0 .. Width - 1
Columns == {0, 1, 2} \X {TRUE, FALSE}    \* colParity >> 2, pair by pair

Set(i, j) == (i \div 2 ^ j) % 2 = 1     \* bit j of i

LineBits == [i \in BytesOf |-> {j \in Lines : Set(i, j)}]

(* lineParity is wide enough to tell the bytes apart, as an unsigned is    *)
(* for any block (with 2 ^ Width >= NBytes, said without powers of two).   *)
ASSUME EccAssumption ==
  /\ NBytes \in Nat /\ Width \in Nat
  /\ \A i, k \in BytesOf : LineBits[i] = LineBits[k] => i = k
  /\ Blocks \subseteq [BytesOf -> SUBSET (0 .. 7)]

Xor(a, b) == (a \ b) \cup (b \ a)
Odd(S)    == Cardinality(S) % 2 = 1

-----------------------------------------------------------------------------
(* column_parity_table: of each pair of columns, the parity of the bits    *)
(* whose index has, and has not, the bit that the pair stands for.         *)
ColumnParity == [b \in SUBSET (0 .. 7) |->
  {c \in Columns : Odd({j \in b : Set(j, c[1]) = c[2]})}]

(* yaffs_ECCCalculateOther: all bytes count for the columns, those with an *)
(* odd number of ones for the lines.                                       *)
ECCCalculateOther(data) ==
  LET odd == {i \in BytesOf : Odd(data[i])} IN
  [col   |-> {c \in Columns :
                Odd({i \in BytesOf : c \in ColumnParity[data[i]]})},
   line  |-> {j \in Lines : Odd({i \in odd : j \in LineBits[i]})},
   prime |-> {j \in Lines : Odd({i \in odd : j \notin LineBits[i]})}]

(* What yaffs_ECCCorrectOther leaves: its answer, the block, the code.     *)
Answer(ret, data, ecc) == [ret |-> ret, data |-> data, ecc |-> ecc]

Flipped(data, i, b) == [data EXCEPT ![i] = Xor(@, {b})]

\* Mutant of LooksSingle: the columns are not looked at.
LinesLookSingle(c, l, p) == l = Lines \ p

(* lDelta == ~lDeltaPrime, and one column of every pair.                   *)
LooksSingle(c, l, p) ==
  /\ l = Lines \ p
  /\ \A k \in {0, 1, 2} : (<<k, TRUE>> \in c) # (<<k, FALSE>> \in c)

ByteAt(l) == {i \in BytesOf : LineBits[i] = l}
BitAt(c)  ==
  {b \in 0 .. 7 : \A k \in {0, 1, 2} : Set(b, k) = (<<k, TRUE>> \in c)}

\* Mutant of ECCCorrectOther: a pattern of one data bit is all it looks for.
ECCCorrectDataOnly(data, read, test) ==
  LET c == Xor(read.col, test.col)
      l == Xor(read.line, test.line)
      p == Xor(read.prime, test.prime)
  IN
  CASE c = {} /\ l = {} /\ p = {}              -> {Answer(0, data, read)}
    [] LooksSingle(c, l, p) /\ ByteAt(l) # {}    ->
         {Answer(1, Flipped(data, i, b), read) : i \in ByteAt(l), b \in BitAt(c)}
    [] OTHER                                     -> {Answer(-1, data, read)}

(* yaffs_ECCCorrectOther: one bit of the block is wrong if of every pair   *)
(* of parities exactly one is; one bit of the code if only one parity is;  *)
(* anything else cannot be mended.                                         *)
ECCCorrectOther(data, read, test) ==
  LET c == Xor(read.col, test.col)
      l == Xor(read.line, test.line)
      p == Xor(read.prime, test.prime)
  IN
  CASE c = {} /\ l = {} /\ p = {} -> {Answer(0, data, read)}
    [] LooksSingle(c, l, p) ->
         IF ByteAt(l) = {} THEN {Answer(-1, data, read)}
         ELSE {Answer(1, Flipped(data, i, b), read) :
                 i \in ByteAt(l), b \in BitAt(c)}
    [] ~LooksSingle(c, l, p)
       /\ Cardinality(c) + Cardinality(l) + Cardinality(p) = 1 ->
         {Answer(1, data, test)}
    [] OTHER -> {Answer(-1, data, read)}

-----------------------------------------------------------------------------
VARIABLES
  written,   \* the block as it was written
  page,      \* the block and its code as they are in the flash
  flips,     \* the bits that have flipped
  read       \* what the reader has got

eccVars == <<written, page, flips, read>>

Unread == Answer(2, <<>>, <<>>)

EccInit ==
  /\ written \in Blocks
  /\ page = [data |-> written, ecc |-> ECCCalculateOther(written)]
  /\ flips = {} /\ read = Unread

(* The flash loses a bit of the block or of the code.                      *)
FlipData ==
  \E i \in BytesOf, b \in 0 .. 7 :
    /\ flips' = flips \cup {<<"data", i, b>>}
    /\ page' = [page EXCEPT !.data = Flipped(@, i, b)]

FlipCode ==
  \/ \E c \in Columns :
       /\ flips' = flips \cup {<<"col", c[1], IF c[2] THEN 1 ELSE 0>>}
       /\ page' = [page EXCEPT !.ecc.col = Xor(@, {c})]
  \/ \E j \in Lines : /\ flips' = flips \cup {<<"line", j, 0>>}
                      /\ page' = [page EXCEPT !.ecc.line = Xor(@, {j})]
  \/ \E j \in Lines : /\ flips' = flips \cup {<<"prime", j, 0>>}
                      /\ page' = [page EXCEPT !.ecc.prime = Xor(@, {j})]

Flip ==
  /\ read = Unread /\ Cardinality(flips) < 2
  /\ FlipData \/ FlipCode
  /\ flips' # flips
  /\ UNCHANGED <<written, read>>

(* yaffs_UnpackTags2: the code of what is there against the stored one.    *)
Read ==
  /\ read = Unread
  /\ read' \in ECCCorrectOther(page.data, page.ecc,
                               ECCCalculateOther(page.data))
  /\ UNCHANGED <<written, page, flips>>

EccNext == Flip \/ Read

-----------------------------------------------------------------------------
(* One flipped bit, of the tags or of their code, is mended, and the block *)
(* that comes back is the one written. Two are noticed: the answer is -1   *)
(* and a tag is never made into a third thing, which a scan would believe. *)
EccSound ==
  read # Unread =>
    CASE flips = {}             -> read = Answer(0, written, page.ecc)
      [] Cardinality(flips) = 1 ->
           /\ read.ret = 1 /\ read.data = written
           /\ read.ecc = IF \E f \in flips : f[1] = "data"
                         THEN page.ecc ELSE ECCCalculateOther(written)
      [] OTHER                  -> read = Answer(-1, page.data, page.ecc)
=============================================================================
