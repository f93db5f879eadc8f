--------------------------- MODULE YaffsScanProofs ---------------------------
(***************************************************************************)
(* Proofs about the scan of YaffsGuts: between two calls a backward scan   *)
(* of the flash would find every file as memory has it, for any number of  *)
(* blocks, pages, files, chunks, calls, power cuts and failing erasures.   *)
(*                                                                         *)
(* The log is the set of readable pages with the order in which they were  *)
(* written (Later).  A scan goes wrong when it finds a page that memory    *)
(* has no more: the chunk of a file cut or deleted, brought back because   *)
(* the header that says so has gone.  So ScanInv says of every such page   *)
(* which header still stands against it (Buried, Barred), and why the      *)
(* collector cannot take that header first: its block is flagged           *)
(* (Flagged), and yaffs_BlockNotDisqualifiedFromGC collects no flagged     *)
(* block while an older block has a page to drop.                          *)
(*                                                                         *)
(* The second half shows that YaffsGuts implements YaffsStore.  In between *)
(* the steps of a call memory and log differ by what is left of the call;  *)
(* Shown, HeldName and Due say in terms of both what a scan would find and *)
(* which call has still to take effect (View), file by file; StoreInv says *)
(* that at most one file has one.  QuietStep and DecideStep then turn what *)
(* a step does to each file into a step of the store or a stutter.         *)
(***************************************************************************)
EXTENDS YaffsGutsProofs

(* The inductive invariant.                                                *)
ScanInv ==
  /\ FirstOk(nand) /\ Apart(nand, nseq, bad)
  /\ IF mounted
     THEN /\ SideOk(nand, nseq, bad, dev)
          /\ \A f \in Files :
               FileOk(nand, LogOf(nand, bad), nseq, Bits(dev), Flagged(dev), Soft(dev),
                      obj[f], Left(todo, f), f)
     ELSE LogInv(nand, LogOf(nand, bad), nseq) /\ ~Stray

-----------------------------------------------------------------------------
(* The invariant of a mounted partition, step by step.                     *)
MountedScan(n, s, x, d, o, t) ==
  /\ FirstOk(n) /\ Apart(n, s, x) /\ SideOk(n, s, x, d)
  /\ \A f \in Files :
       FileOk(n, LogOf(n, x), s, Bits(d), Flagged(d), Soft(d), o[f], Left(t, f), f)

LEMMA MountedAgain ==
  ASSUME mounted', NEW n, NEW s, NEW x, NEW d, NEW o, NEW t, MountedScan(n, s, x, d, o, t),
         nand' = n, nseq' = s, bad' = x, dev' = d, obj' = o, todo' = t
  PROVE  ScanInv'
BY DEF ScanInv, MountedScan

LEMMA LogShape ==
  ASSUME NEW n \in Flash, NEW x
  PROVE  /\ IsFiniteSet(LogOf(n, x)) /\ LogOf(n, x) \subseteq Addr /\ None \notin LogOf(n, x)
         /\ \A c \in LogOf(n, x) : /\ At(n, c).chunk \in 0 .. FileChunks /\ At(n, c).size \in Nat
                                   /\ At(n, c) \in PagesOfLog
<1>1. \A i \in 0 .. FileChunks : i \in Nat
  BY Geometry
<1>2. QED
  BY <1>1, LogAddr, Distinct

LEMMA ScanFacts ==
  ASSUME GutsInv, ScanInv, mounted
  PROVE  /\ nand \in Flash /\ nseq \in [Blocks -> Nat]
         /\ obj \in [Files -> Objects] /\ todo \in Seq(Ops) /\ gcBlock \in Blocks \cup {None}
         /\ DevOk(dev, obj, nand, gcBlock) /\ DeletedOk(obj) /\ TodoOk(todo, obj, gcBlock)
         /\ MountedScan(nand, nseq, bad, dev, obj, todo)
         /\ \A f \in Files : /\ OwnIn(nand, LogOf(nand, bad), Bits(dev), obj[f], f)
                             /\ obj[f].nData \in Int /\ obj[f].size \in Nat
<1>1. /\ nand \in Flash /\ nseq \in [Blocks -> Nat]
      /\ obj \in [Files -> Objects] /\ todo \in Seq(Ops) /\ gcBlock \in Blocks \cup {None}
      /\ DevOk(dev, obj, nand, gcBlock) /\ DeletedOk(obj) /\ TodoOk(todo, obj, gcBlock)
  BY InMemory
<1>2. MountedScan(nand, nseq, bad, dev, obj, todo)
  BY DEF ScanInv, MountedScan
<1>3. SideOk(nand, nseq, bad, dev)
  BY <1>2 DEF MountedScan
<1>4. \A f \in Files : OwnIn(nand, LogOf(nand, bad), Bits(dev), obj[f], f)
  BY <1>1, <1>3, HeldInLog
<1>5. \A f \in Files : obj[f].nData \in Int /\ obj[f].size \in Nat
  <2>1. ASSUME NEW f \in Files PROVE obj[f].nData \in Int /\ obj[f].size \in Nat
    <3>1. obj[f] \in Objects
      BY <1>1
    <3>2. obj[f].nData \in Int /\ obj[f].size \in 0 .. FileChunks
      BY <3>1, ObjectFields
    <3>3. QED
      BY <3>2, Geometry
  <2>2. QED
    BY <2>1
<1>6. QED
  BY <1>1, <1>2, <1>4, <1>5

(* A step that programs no page: what is said of the files it leaves alone. *)
LEMMA StepKept ==
  ASSUME NEW d, NEW o \in [Files -> Objects], NEW n \in Flash, NEW g, DevOk(d, o, n, g),
         NEW s, NEW x, NEW t, MountedScan(n, s, x, d, o, t),
         NEW e, SideOk(n, s, x, e), \A c \in LogOf(n, x) : c \in Bits(e) => c \in Bits(d), Tracks(d, e),
         NEW p, NEW r,
         \A h \in Files :
           \/ p[h] = o[h] /\ Left(r, h) = Left(t, h)
           \/ FileOk(n, LogOf(n, x), s, Bits(e), Flagged(e), Soft(e), p[h], Left(r, h), h)
  PROVE  MountedScan(n, s, x, e, p, r)
<1>1. FirstOk(n) /\ Apart(n, s, x) /\ SideOk(n, s, x, d)
  BY DEF MountedScan
<1>2. ASSUME NEW h \in Files, p[h] = o[h] /\ Left(r, h) = Left(t, h)
      PROVE  FileOk(n, LogOf(n, x), s, Bits(e), Flagged(e), Soft(e), p[h], Left(r, h), h)
  <2>1. FileOk(n, LogOf(n, x), s, Bits(d), Flagged(d), Soft(d), o[h], Left(t, h), h)
    BY DEF MountedScan
  <2>2. FileOk(n, LogOf(n, x), s, Bits(e), Flagged(e), Soft(e), o[h], Left(t, h), h)
    BY <1>1, <2>1, DeviceKept
  <2>3. QED
    BY <1>2, <2>2
<1>3. QED
  BY <1>1, <1>2 DEF MountedScan

(* A step that programs one.                                               *)
LEMMA StepGrown ==
  ASSUME NEW d, NEW o \in [Files -> Objects], NEW n \in Flash, NEW g, DevOk(d, o, n, g),
         NEW s, NEW x, NEW t, MountedScan(n, s, x, d, o, t),
         NEW m, NEW u, NEW e, SideOk(m, u, x, e), FirstOk(m), Apart(m, u, x),
         \A c \in LogOf(n, x) : c \in Bits(e) => c \in Bits(d), Tracks(d, e),
         NEW c, NEW page, Behind(n, s, x, m, u, c, page), NEW p, NEW r,
         \A h \in Files :
           \/ p[h] = o[h] /\ Left(r, h) = Left(t, h) /\ page.file # h
           \/ FileOk(m, LogOf(m, x), u, Bits(e), Flagged(e), Soft(e), p[h], Left(r, h), h)
  PROVE  MountedScan(m, u, x, e, p, r)
<1>1. SideOk(n, s, x, d)
  BY DEF MountedScan
<1>2. ASSUME NEW h \in Files, p[h] = o[h] /\ Left(r, h) = Left(t, h) /\ page.file # h
      PROVE  FileOk(m, LogOf(m, x), u, Bits(e), Flagged(e), Soft(e), p[h], Left(r, h), h)
  <2>1. FileOk(n, LogOf(n, x), s, Bits(d), Flagged(d), Soft(d), o[h], Left(t, h), h)
    BY DEF MountedScan
  <2>2. page.file # h
    BY <1>2
  <2>3. FileOk(m, LogOf(m, x), u, Bits(e), Flagged(e), Soft(e), o[h], Left(t, h), h)
    BY <1>1, <2>1, <2>2, DeviceGrown
  <2>4. QED
    BY <1>2, <2>3
<1>3. QED
  BY <1>2 DEF MountedScan

-----------------------------------------------------------------------------
(* The calls of the user.                                                  *)
LEMMA HeaderOps ==
  \A f \in Files, x \in BOOLEAN : UpdateObjectHeader(f, x).shrink = x
BY DEF UpdateObjectHeader, Op

LEMMA CallScan ==
  ASSUME GutsInv, ScanInv, NEW t \in Seq(Ops), UserCall(t), NEW o, obj' = o, NEW f \in Files,
         \A h \in Files \ {f} : o[h] = obj[h] /\ Left(t, h) = {},
         NEW q, q = Left(t, f),
         FileOk(nand, LogOf(nand, bad), nseq, Bits(dev), Flagged(dev), Soft(dev), obj[f], {}, f) =>
           FileOk(nand, LogOf(nand, bad), nseq, Bits(dev), Flagged(dev), Soft(dev), o[f], q, f)
  PROVE  ScanInv'
<1>1. /\ mounted /\ mounted' /\ todo = <<>> /\ todo' = t /\ nand' = nand /\ nseq' = nseq
      /\ bad' = bad /\ dev' = dev
  BY DEF UserCall, Idle, Quiet
<1>2. MountedScan(nand, nseq, bad, dev, obj, todo)
  BY <1>1, ScanFacts
<1>3. ASSUME NEW h \in Files
      PROVE  FileOk(nand, LogOf(nand, bad), nseq, Bits(dev), Flagged(dev), Soft(dev), o[h], Left(t, h), h)
  <2>1. Left(todo, h) = {}
    BY <1>1 DEF Left
  <2>2. FileOk(nand, LogOf(nand, bad), nseq, Bits(dev), Flagged(dev), Soft(dev), obj[h], {}, h)
    BY <1>2, <2>1 DEF MountedScan
  <2>3. CASE h = f
    BY <2>2, <2>3
  <2>4. CASE h # f
    BY <2>2, <2>4
  <2>5. QED
    BY <2>3, <2>4
<1>4. MountedScan(nand, nseq, bad, dev, o, t)
  BY <1>2, <1>3 DEF MountedScan
<1>5. QED
  BY <1>1, <1>4, MountedAgain

LEMMA LeftAfterGc ==
  ASSUME NEW x \in Ops, x.op # "gc"
  PROVE  /\ AfterGc(x) \in Seq(Ops)
         /\ Left(AfterGc(x), x.file) = {x}
         /\ \A h : h # x.file => Left(AfterGc(x), h) = {}
<1>1. PICK y : y = Gc(1) /\ y \in Ops /\ y.op = "gc"
  BY GcType
<1>2. \A h : Left(<<y, x>>, h) = {z \in {y, x} : z.op # "gc" /\ z.file = h}
  BY <1>1, LeftTwo
<1>3. AfterGc(x) = <<y, x>>
  BY <1>1 DEF AfterGc
<1>4. QED
  BY <1>1, <1>2, <1>3

LEMMA CreateScan ==
  ASSUME GutsInv, ScanInv, NEW f \in Files, Create(f)
  PROVE  ScanInv'
<1>1. mounted /\ ~obj[f].here
  BY DEF Create, UserCall, Idle, Quiet
<1>2. PICK t, x : x = UpdateObjectHeader(f, FALSE) /\ t = AfterGc(x)
  OBVIOUS
<1>3. x \in Ops /\ x.op = "header" /\ x.file = f
  BY <1>2, OpType
<1>4. t \in Seq(Ops) /\ Left(t, f) = {x} /\ \A h : h # f => Left(t, h) = {}
  BY <1>2, <1>3, LeftAfterGc
<1>5. PICK w : w = [NoObject EXCEPT !.here = TRUE]
  OBVIOUS
<1>6. PICK o : o = [obj EXCEPT ![f] = w]
  OBVIOUS
<1>7. UserCall(t) /\ obj' = o
  BY <1>2, <1>5, <1>6 DEF Create, AfterGc
<1>8. obj \in [Files -> Objects] /\ nand \in Flash
      /\ OwnIn(nand, LogOf(nand, bad), Bits(dev), obj[f], f)
  BY <1>1, ScanFacts
<1>9. o[f] = w /\ \A h \in Files \ {f} : o[h] = obj[h]
  BY <1>6, <1>8
<1>10. /\ w.here /\ w.hdr = None /\ \A k \in 1 .. FileChunks : w.tnode[k] = None
       /\ w.nData = 0 /\ ~w.deleted /\ w.dir = "root"
  BY <1>5 DEF NoObject
<1>11. ASSUME FileOk(nand, LogOf(nand, bad), nseq, Bits(dev), Flagged(dev), Soft(dev), obj[f], {}, f)
       PROVE  FileOk(nand, LogOf(nand, bad), nseq, Bits(dev), Flagged(dev), Soft(dev), o[f], {x}, f)
  <2>1. PICK C : C = LogOf(nand, bad)
    OBVIOUS
  <2>2. IsFiniteSet(C) /\ None \notin C /\ \A c \in C : At(nand, c).file = f => At(nand, c).chunk \in 0 .. FileChunks
    BY <1>8, <2>1, LogShape
  <2>3. PICK q : q = {x}
    OBVIOUS
  <2>4. FileOk(nand, C, nseq, Bits(dev), Flagged(dev), Soft(dev), w, q, f)
    BY <1>1, <1>3, <1>8, <1>10, <1>11, <2>1, <2>2, <2>3, FileCreated
  <2>5. QED
    BY <1>9, <2>1, <2>3, <2>4
<1>12. QED
  BY <1>4, <1>7, <1>9, <1>11, CallScan

LEMMA SameScan ==
  ASSUME GutsInv, ScanInv, NEW f \in Files, Open(f), mounted, NEW x,
         x.op = "header" \/ x.op = "put" \/ (x.op = "destroy" /\ obj[f].dir # "root"),
         NEW w, w = obj[f],
         FileOk(nand, LogOf(nand, bad), nseq, Bits(dev), Flagged(dev), Soft(dev), w, {}, f)
  PROVE  FileOk(nand, LogOf(nand, bad), nseq, Bits(dev), Flagged(dev), Soft(dev), w, {x}, f)
<1>1. w.here /\ w.dir # "deleted" /\ w.size \in Nat
  BY ScanFacts DEF Open
<1>2. SameUse(w, w)
  BY DEF SameUse
<1>3. PICK q : q = {x}
  OBVIOUS
<1>4. \A y \in q : /\ y.op # "remove"
                   /\ y.op = "prune" => IF w.dir = "root" THEN y.chunk > w.size /\ CutPending(q)
                                        ELSE ~HeaderPending(q)
                   /\ y.op = "destroy" => w.dir # "root"
  BY <1>3
<1>5. FileOk(nand, LogOf(nand, bad), nseq, Bits(dev), Flagged(dev), Soft(dev), w, q, f)
  BY <1>1, <1>2, <1>4, FileCalled
<1>6. QED
  BY <1>3, <1>5

LEMMA FlushFileScan ==
  ASSUME GutsInv, ScanInv, NEW f \in Files, FlushFile(f)
  PROVE  ScanInv'
<1>1. mounted /\ Open(f) /\ obj' = obj
  BY DEF FlushFile, UserCall, Idle, Quiet
<1>2. PICK t, x : x = UpdateObjectHeader(f, FALSE) /\ t = AfterGc(x)
  OBVIOUS
<1>3. x \in Ops /\ x.op = "header" /\ x.file = f
  BY <1>2, OpType
<1>4. t \in Seq(Ops) /\ Left(t, f) = {x} /\ \A h : h # f => Left(t, h) = {}
  BY <1>2, <1>3, LeftAfterGc
<1>5. UserCall(t)
  BY <1>2 DEF FlushFile, AfterGc
<1>6. PICK o : o = obj
  OBVIOUS
<1>7. FileOk(nand, LogOf(nand, bad), nseq, Bits(dev), Flagged(dev), Soft(dev), obj[f], {}, f) =>
      FileOk(nand, LogOf(nand, bad), nseq, Bits(dev), Flagged(dev), Soft(dev), o[f], {x}, f)
  BY <1>1, <1>3, <1>6, SameScan
<1>8. QED
  BY <1>1, <1>4, <1>5, <1>6, <1>7, CallScan

LEMMA WriteFileScan ==
  ASSUME GutsInv, ScanInv, NEW f \in Files, NEW k \in 1 .. FileChunks, NEW v \in Values, WriteFile(f, k, v)
  PROVE  ScanInv'
<1>1. mounted /\ Open(f) /\ obj' = obj
  BY DEF WriteFile, UserCall, Idle, Quiet
<1>2. PICK t, x : x = PutOp(f, k, v) /\ t = AfterGc(x)
  OBVIOUS
<1>3. x \in Ops /\ x.op = "put" /\ x.file = f
  BY <1>2, PutType
<1>4. t \in Seq(Ops) /\ Left(t, f) = {x} /\ \A h : h # f => Left(t, h) = {}
  BY <1>2, <1>3, LeftAfterGc
<1>5. UserCall(t)
  BY <1>2 DEF WriteFile, AfterGc, PutOp
<1>6. PICK o : o = obj
  OBVIOUS
<1>7. FileOk(nand, LogOf(nand, bad), nseq, Bits(dev), Flagged(dev), Soft(dev), obj[f], {}, f) =>
      FileOk(nand, LogOf(nand, bad), nseq, Bits(dev), Flagged(dev), Soft(dev), o[f], {x}, f)
  BY <1>1, <1>3, <1>6, SameScan
<1>8. QED
  BY <1>1, <1>4, <1>5, <1>6, <1>7, CallScan

LEMMA DeleteInodeScan ==
  ASSUME GutsInv, ScanInv, NEW f \in Files, DeleteInode(f)
  PROVE  ScanInv'
<1>1. mounted /\ Open(f) /\ obj' = obj /\ obj[f].dir = "unlinked"
  BY DEF DeleteInode, UserCall, Idle, Quiet
<1>2. PICK t, x : x = Op("destroy", f) /\ t = <<x>>
  OBVIOUS
<1>3. x \in Ops /\ x.op = "destroy" /\ x.file = f
  BY <1>2, OpType DEF Steps
<1>4. t \in Seq(Ops) /\ Left(t, f) = {x} /\ \A h : h # f => Left(t, h) = {}
  <2>1. \A h : Left(<<x>>, h) = IF x.op # "gc" /\ x.file = h THEN {x} ELSE {}
    BY <1>3, LeftOne
  <2>2. QED
    BY <1>2, <1>3, <2>1
<1>5. UserCall(t)
  BY <1>2 DEF DeleteInode
<1>6. PICK o : o = obj
  OBVIOUS
<1>7. FileOk(nand, LogOf(nand, bad), nseq, Bits(dev), Flagged(dev), Soft(dev), obj[f], {}, f) =>
      FileOk(nand, LogOf(nand, bad), nseq, Bits(dev), Flagged(dev), Soft(dev), o[f], {x}, f)
  BY <1>1, <1>3, <1>6, SameScan
<1>8. QED
  BY <1>1, <1>4, <1>5, <1>6, <1>7, CallScan

LEMMA UnlinkScan ==
  ASSUME GutsInv, ScanInv, NEW f \in Files, Unlink(f)
  PROVE  ScanInv'
<1>1. mounted /\ Open(f) /\ obj[f].dir = "root" /\ obj[f].here
  BY DEF Unlink, UserCall, Idle, Quiet, Open
<1>2. PICK t, x : x = UpdateObjectHeader(f, FALSE) /\ t = AfterGc(x)
  OBVIOUS
<1>3. x \in Ops /\ x.op = "header" /\ x.file = f /\ ~x.shrink
  BY <1>2, OpType, HeaderOps
<1>4. t \in Seq(Ops) /\ Left(t, f) = {x} /\ \A h : h # f => Left(t, h) = {}
  BY <1>2, <1>3, LeftAfterGc
<1>5. obj \in [Files -> Objects]
  BY <1>1, ScanFacts
<1>6. PICK w : w = [obj[f] EXCEPT !.dir = "unlinked", !.dirty = TRUE]
  OBVIOUS
<1>7. PICK o : o = [obj EXCEPT ![f] = w]
  OBVIOUS
<1>8. UserCall(t) /\ obj' = o
  BY <1>2, <1>5, <1>6, <1>7 DEF Unlink, AfterGc
<1>9. SameUse(obj[f], w) /\ w.dir = "unlinked"
  BY <1>5, <1>6 DEF SameUse, Objects
<1>10. o[f] = w /\ \A h \in Files \ {f} : o[h] = obj[h]
  BY <1>5, <1>7
<1>11. PICK q : q = {x}
  OBVIOUS
<1>12. FileOk(nand, LogOf(nand, bad), nseq, Bits(dev), Flagged(dev), Soft(dev), obj[f], {}, f) =>
       FileOk(nand, LogOf(nand, bad), nseq, Bits(dev), Flagged(dev), Soft(dev), o[f], q, f)
  BY <1>1, <1>3, <1>9, <1>10, <1>11, FileUnlinked
<1>13. QED
  BY <1>4, <1>8, <1>10, <1>11, <1>12, CallScan

(* yaffs_ResizeFile                                                        *)
Resized(f, n, t, x, o, w, P) ==
  /\ UserCall(t) /\ obj' = o
  /\ w = [obj[f] EXCEPT !.size = n] /\ o[f] = w
  /\ \A h \in Files \ {f} : o[h] = obj[h] /\ Left(t, h) = {}
  /\ x = UpdateObjectHeader(f, n < obj[f].size) /\ x.op = "header" /\ x.file = f
  /\ x.shrink <=> n < obj[f].size
  /\ Left(t, f) = P \cup (IF obj[f].dir = "root" THEN {x} ELSE {})
  /\ \A z \in P : z.op = "prune" /\ z.chunk > n /\ n < obj[f].size
  /\ \A k \in 1 .. FileChunks : k > n /\ k <= obj[f].size => \E z \in P : z.op = "prune" /\ z.chunk = k

LEMMA ResizeSteps ==
  ASSUME GutsInv, ScanInv, NEW f \in Files, NEW n \in 0 .. FileChunks, ResizeFile(f, n)
  PROVE  \E t \in Seq(Ops), x \in Ops : \E o, w, P : Resized(f, n, t, x, o, w, P)
<1>1. mounted /\ Open(f) /\ obj[f].here /\ obj[f].dir \in {"root", "unlinked"} /\ n # obj[f].size
  BY DEF ResizeFile, UserCall, Idle, Quiet, Open
<1>2. obj \in [Files -> Objects] /\ obj[f] \in Objects
  BY <1>1, ScanFacts
<1>3. PICK size \in 0 .. FileChunks : size = obj[f].size
  BY <1>2, ObjectFields
<1>4. n \in Nat /\ size \in Nat /\ FileChunks \in Nat /\ size <= FileChunks
  BY <1>3, Geometry
<1>5. PICK p : p = [i \in 1 .. (size - n) |-> [Op("prune", f) EXCEPT !.chunk = size + 1 - i]]
  OBVIOUS
<1>6. PICK x \in Ops : /\ x = UpdateObjectHeader(f, n < size) /\ x.op = "header" /\ x.file = f
                       /\ x.shrink = (n < size)
  <2>1. PICK z : z = (n < size)
    OBVIOUS
  <2>4. z \in BOOLEAN
    BY <2>1
  <2>2. /\ UpdateObjectHeader(f, z) \in Ops /\ UpdateObjectHeader(f, z).op = "header"
        /\ UpdateObjectHeader(f, z).file = f /\ UpdateObjectHeader(f, z).shrink = z
    BY <2>4, OpType, HeaderOps
  <2>3. QED
    BY <2>1, <2>2, Zenon
<1>7. PICK c : c = IF obj[f].dir = "root" THEN AfterGc(x) ELSE <<>>
  OBVIOUS
<1>8. PICK y : y = Gc(1) /\ y \in Ops /\ y.op = "gc"
  BY GcType
<1>9. PICK t : t = (<<y>> \o p) \o c
  OBVIOUS
<1>10. PICK w : w = [obj[f] EXCEPT !.size = n]
  OBVIOUS
<1>11. PICK o : o = [obj EXCEPT ![f] = w]
  OBVIOUS
<1>12. UserCall(t) /\ obj' = o
  BY <1>2, <1>3, <1>5, <1>6, <1>7, <1>8, <1>9, <1>10, <1>11 DEF ResizeFile, AfterGc
<1>13. o[f] = w /\ \A h \in Files \ {f} : o[h] = obj[h]
  BY <1>2, <1>11
<1>14. SameUse(obj[f], w) /\ w.dir = obj[f].dir /\ w.size = n
  BY <1>2, <1>10 DEF SameUse, Objects
<1>15. PICK m \in Nat : m = (IF size >= n THEN size - n ELSE 0) /\ 1 .. (size - n) = 1 .. m
  <2>1. PICK m \in Nat : m = IF size >= n THEN size - n ELSE 0
    <3>1. CASE size >= n
      <4>1. size - n \in Nat
        BY <1>4, <3>1
      <4>2. QED
        BY <3>1, <4>1
    <3>2. CASE ~(size >= n)
      BY <3>2
    <3>3. QED
      BY <3>1, <3>2
  <2>2. 1 .. (size - n) = 1 .. m
    BY <1>4, <2>1
  <2>3. QED
    BY <2>1, <2>2
<1>16. ASSUME NEW i \in 1 .. m
       PROVE  /\ p[i] \in Ops /\ p[i].op = "prune" /\ p[i].file = f /\ p[i].chunk = size + 1 - i
              /\ p[i].chunk > n /\ n < size
  <2>1. PICK k \in 1 .. FileChunks : k = size + 1 - i /\ k > n /\ n < size
    <3>1. i \in Nat /\ 1 <= i /\ i <= size - n
      BY <1>4, <1>15
    <3>2. QED
      BY <1>4, <3>1
  <2>2. PICK z : z = [Op("prune", f) EXCEPT !.chunk = k]
    OBVIOUS
  <2>3. f \in Files \cup {None} /\ "prune" \in Steps /\ k \in 0 .. FileChunks \cup {1, 2}
    BY Geometry DEF Steps
  <2>4. z \in Ops /\ z.op = "prune" /\ z.file = f /\ z.chunk = k
    BY <2>2, <2>3, WithChunk
  <2>5. p[i] = z
    BY <1>5, <1>15, <2>1, <2>2
  <2>6. QED
    BY <2>1, <2>4, <2>5
<1>17. p \in Seq(Ops) /\ DOMAIN p = 1 .. m
  <2>1. p \in [1 .. m -> Ops]
    <3>1. DOMAIN p = 1 .. m /\ p = [i \in 1 .. m |-> p[i]]
      BY <1>5, <1>15
    <3>2. QED
      BY <1>16, <3>1
  <2>2. QED
    BY <2>1, SeqDef
<1>18. c \in Seq(Ops) /\ Left(c, f) = (IF obj[f].dir = "root" THEN {x} ELSE {})
       /\ \A h : h # f => Left(c, h) = {}
  <2>1. AfterGc(x) \in Seq(Ops) /\ Left(AfterGc(x), f) = {x} /\ \A h : h # f => Left(AfterGc(x), h) = {}
    BY <1>6, LeftAfterGc
  <2>2. <<>> \in Seq(Ops) /\ \A h : Left(<<>>, h) = {}
    <3>1. <<>> \in Seq(Ops)
      OBVIOUS
    <3>2. \A h : Left(<<>>, h) = {}
      BY DEF Left
    <3>3. QED
      BY <3>1, <3>2
  <2>3. QED
    BY <1>7, <2>1, <2>2
<1>19. PICK P : P = {p[i] : i \in 1 .. m}
  OBVIOUS
<1>20. /\ t \in Seq(Ops) /\ Left(t, f) = P \cup Left(c, f)
       /\ \A h : h # f => Left(t, h) = {}
  <2>1. <<y>> \in Seq(Ops) /\ \A h : Left(<<y>>, h) = {}
    <3>1. \A h : Left(<<y>>, h) = IF y.op # "gc" /\ y.file = h THEN {y} ELSE {}
      BY <1>8, LeftOne
    <3>2. QED
      BY <1>8, <3>1
  <2>2. Left(p, f) = P /\ \A h : h # f => Left(p, h) = {}
    BY <1>16, <1>17, <1>19 DEF Left
  <2>3. PICK u : u = <<y>> \o p
    OBVIOUS
  <2>4. u \in Seq(Ops) /\ \A h : Left(u, h) = Left(<<y>>, h) \cup Left(p, h)
    BY <1>17, <2>1, <2>3, LeftConcat, ConcatProperties, Zenon
  <2>5. t \in Seq(Ops) /\ \A h : Left(t, h) = Left(u, h) \cup Left(c, h)
    <3>1. t = u \o c
      BY <1>9, <2>3
    <3>2. c \in Seq(Ops) /\ u \in Seq(Ops)
      BY <1>18, <2>4
    <3>3. t \in Seq(Ops)
      BY ONLY <3>1, <3>2, ConcatProperties
    <3>4. \A h : Left(u \o c, h) = Left(u, h) \cup Left(c, h)
      BY ONLY <3>2, LeftConcat
    <3>5. QED
      BY <3>1, <3>3, <3>4
  <2>6. QED
    BY <1>18, <2>1, <2>2, <2>4, <2>5
<1>21. \A z \in P : z.op = "prune" /\ z.chunk > n /\ n < size
  BY <1>16, <1>19
<1>22. ASSUME NEW k \in 1 .. FileChunks, k > n, k <= size PROVE \E z \in P : z.op = "prune" /\ z.chunk = k
  <2>1. PICK i \in 1 .. m : i = size + 1 - k
    <3>1. k \in Nat /\ 1 <= k
      BY <1>4
    <3>2. QED
      BY <1>4, <1>15, <1>22, <3>1
  <2>2. p[i].chunk = k
    BY <1>4, <1>16, <2>1
  <2>3. p[i] \in P /\ p[i].op = "prune"
    BY <1>16, <1>19
  <2>4. QED
    BY <2>2, <2>3
<1>23. x = UpdateObjectHeader(f, n < obj[f].size) /\ x.op = "header" /\ x.file = f /\ (x.shrink <=> n < obj[f].size)
  BY <1>3, <1>6
<1>24. Left(t, f) = P \cup (IF obj[f].dir = "root" THEN {x} ELSE {})
  BY <1>18, <1>20
<1>25. w = [obj[f] EXCEPT !.size = n]
  BY <1>10
<1>26. \A h \in Files \ {f} : o[h] = obj[h] /\ Left(t, h) = {}
  BY <1>13, <1>20
<1>27. Resized(f, n, t, x, o, w, P)
  BY <1>3, <1>12, <1>13, <1>21, <1>22, <1>23, <1>24, <1>25, <1>26 DEF Resized
<1>28. QED
  BY <1>20, <1>27

LEMMA ResizeFileScan ==
  ASSUME GutsInv, ScanInv, NEW f \in Files, NEW n \in 0 .. FileChunks, ResizeFile(f, n)
  PROVE  ScanInv'
<1>1. mounted /\ Open(f) /\ obj[f].here /\ obj[f].dir \in {"root", "unlinked"} /\ n # obj[f].size
  BY DEF ResizeFile, UserCall, Idle, Quiet, Open
<1>2. obj[f] \in Objects
  BY <1>1, ScanFacts
<1>3. PICK size \in 0 .. FileChunks : size = obj[f].size
  BY <1>2, ObjectFields
<1>4. n \in Nat /\ size \in Nat
  BY <1>3, Geometry
<1>5. PICK t \in Seq(Ops), x \in Ops : \E o, w, P : Resized(f, n, t, x, o, w, P)
  BY ResizeSteps
<1>6. PICK o, w, P : Resized(f, n, t, x, o, w, P)
  BY <1>5
<1>7. UserCall(t) /\ obj' = o /\ o[f] = w /\ \A h \in Files \ {f} : o[h] = obj[h] /\ Left(t, h) = {}
  BY <1>6 DEF Resized
<1>8. SameUse(obj[f], w) /\ w.dir = obj[f].dir /\ w.size = n
  BY <1>2, <1>6 DEF SameUse, Objects, Resized
<1>9. PICK q : q = Left(t, f)
  OBVIOUS
<1>10. x.op = "header" /\ (x.shrink <=> n < size) /\ q = P \cup (IF obj[f].dir = "root" THEN {x} ELSE {})
       /\ \A z \in P : z.op = "prune" /\ z.chunk > n /\ n < size
  BY <1>3, <1>6, <1>9 DEF Resized
<1>11. obj[f].dir # "root" => ~HeaderPending(q)
  BY <1>10 DEF HeaderPending
<1>12. obj[f].dir = "root" => HeaderPending(q) /\ (n < size => CutPending(q))
  BY <1>10 DEF HeaderPending, CutPending
<1>13. ASSUME NEW k \in 1 .. FileChunks, k <= size PROVE k <= n \/ PrunePending(q, k)
  <2>1. CASE k > n
    <3>1. PICK z \in P : z.op = "prune" /\ z.chunk = k
      BY <1>3, <1>6, <1>13, <2>1 DEF Resized
    <3>2. QED
      BY <1>10, <3>1 DEF PrunePending
  <2>2. QED
    BY <1>4, <2>1
<1>14. \A z \in q :
         /\ z.op # "remove"
         /\ z.op = "prune" => IF obj[f].dir = "root" THEN z.chunk > n /\ CutPending(q) ELSE ~HeaderPending(q)
         /\ z.op = "destroy" => obj[f].dir # "root"
  BY <1>10, <1>11, <1>12
<1>15. PICK v : v = obj[f]
  OBVIOUS
<1>16. ASSUME FileOk(nand, LogOf(nand, bad), nseq, Bits(dev), Flagged(dev), Soft(dev), v, {}, f)
       PROVE  FileOk(nand, LogOf(nand, bad), nseq, Bits(dev), Flagged(dev), Soft(dev), w, q, f)
  <2>1. v.here /\ v.size \in Nat /\ SameUse(v, w) /\ w.dir = v.dir /\ v.dir # "deleted"
    BY <1>1, <1>3, <1>4, <1>8, <1>15
  <2>2. w.size = v.size \/ HeaderPending(q) \/ v.dir # "root"
    BY <1>12, <1>15
  <2>3. v.dir # "root" /\ w.size # v.size => ~HeaderPending(q)
    BY <1>11, <1>15
  <2>4. v.dir = "root" /\ w.size # v.size =>
          \A k \in 1 .. FileChunks : k <= v.size => k <= w.size \/ PrunePending(q, k)
    BY <1>3, <1>8, <1>13, <1>15
  <2>5. \A z \in q :
          /\ z.op # "remove"
          /\ z.op = "prune" => IF v.dir = "root" THEN z.chunk > w.size /\ CutPending(q) ELSE ~HeaderPending(q)
          /\ z.op = "destroy" => v.dir # "root"
    BY <1>8, <1>14, <1>15
  <2>6. QED
    BY ONLY <1>16, <2>1, <2>2, <2>3, <2>4, <2>5, f \in Files, FileCalled
<1>17. FileOk(nand, LogOf(nand, bad), nseq, Bits(dev), Flagged(dev), Soft(dev), obj[f], {}, f) =>
       FileOk(nand, LogOf(nand, bad), nseq, Bits(dev), Flagged(dev), Soft(dev), o[f], q, f)
  BY <1>7, <1>15, <1>16
<1>18. QED
  BY <1>7, <1>9, <1>17, CallScan

-----------------------------------------------------------------------------
(* The steps of a call.                                                    *)
LEMMA FileSofter ==
  ASSUME NEW n, NEW C, NEW s, NEW K, NEW F, NEW S, NEW w, NEW q, NEW f,
         FileOk(n, C, s, K, F, S, w, q, f),
         NEW T, \A c \in C : c \in K /\ c[1] \in S => c[1] \in T
  PROVE  FileOk(n, C, s, K, F, T, w, q, f)
<1>1. UseOk(n, C, K, T, w, f)
  BY DEF FileOk, UseOk
<1>2. QED
  BY <1>1 DEF FileOk

(* A page that is not erased is passed over.                               *)
LEMMA SkipUnerasedScan ==
  ASSUME GutsInv, ScanInv, SkipUnerased
  PROVE  ScanInv'
<1>1. /\ mounted /\ mounted' /\ nand' = nand /\ nseq' = nseq /\ bad' = bad /\ obj' = obj /\ todo' = todo
  BY DEF SkipUnerased, NextIsWrite, Doing, Collecting, Quiet
<1>2. /\ nand \in Flash /\ nseq \in [Blocks -> Nat] /\ obj \in [Files -> Objects]
      /\ DevOk(dev, obj, nand, gcBlock) /\ MountedScan(nand, nseq, bad, dev, obj, todo)
  BY <1>1, ScanFacts
<1>3. PICK d : d = Ready(dev)
  OBVIOUS
<1>4. d.alloc # None /\ ~ Erased(d) /\ dev' = Allocated(d)
  BY <1>3 DEF SkipUnerased, NextIsWrite, Fits
<1>5. DevOk(d, obj, nand, gcBlock) /\ d \in Devices
  BY <1>2, <1>3, ReadyOk DEF DevOk
<1>6. d.page <= Len(nand[d.alloc]) /\ d.alloc \in Blocks
  <2>1. d.page \in Nat /\ d.alloc \in Blocks
    BY <1>4, <1>5, DeviceFields
  <2>2. nand[d.alloc] \in Seq(PagesOfLog \cup {Torn})
    BY <1>2, <2>1 DEF Flash
  <2>3. Len(nand[d.alloc]) \in Nat
    BY <2>2, LenProperties
  <2>4. QED
    BY <1>4, <2>1, <2>3 DEF Erased
<1>7. SideOk(nand, nseq, bad, dev)
  BY <1>2 DEF MountedScan
<1>8. SideOk(nand, nseq, bad, d) /\ Bits(d) = Bits(dev) /\ Flagged(d) = Flagged(dev) /\ Tracks(dev, d)
  BY <1>2, <1>3, <1>7, ReadySide
<1>9. PICK e, b : e = Allocated(d) /\ b = d.alloc
  OBVIOUS
<1>10. SideOk(nand, nseq, bad, e) /\ NextChunk(d) \notin LogOf(nand, bad)
  BY <1>2, <1>5, <1>6, <1>8, <1>9, SkippedSide
<1>11. Bits(e) = Bits(d) \cup {NextChunk(d)} /\ Tracks(d, e)
  BY <1>2, <1>5, <1>6, <1>9, AllocatedBits
<1>12. Tracks(dev, e)
  BY <1>8, <1>11, TracksOn
<1>13. \A c \in LogOf(nand, bad) : c \in Bits(e) => c \in Bits(dev)
  BY <1>8, <1>10, <1>11
<1>14. MountedScan(nand, nseq, bad, e, obj, todo)
  BY <1>2, <1>10, <1>12, <1>13, StepKept
<1>15. QED
  BY <1>1, <1>4, <1>9, <1>14, MountedAgain

(* A chunk behind the new end of a file.                                   *)
LEMMA PruneResizedChunkScan ==
  ASSUME GutsInv, ScanInv, PruneResizedChunk
  PROVE  ScanInv'
<1>1. Doing("prune")
  BY DEF PruneResizedChunk
<1>2. mounted /\ todo # <<>> /\ Head(todo).op = "prune" /\ gcBlock = None
  BY <1>1, DoingFacts
<1>3. /\ nand \in Flash /\ nseq \in [Blocks -> Nat] /\ obj \in [Files -> Objects] /\ todo \in Seq(Ops)
      /\ DevOk(dev, obj, nand, None) /\ TodoOk(todo, obj, None)
      /\ MountedScan(nand, nseq, bad, dev, obj, todo)
      /\ \A f \in Files : /\ OwnIn(nand, LogOf(nand, bad), Bits(dev), obj[f], f)
                          /\ obj[f].nData \in Int /\ obj[f].size \in Nat
  BY <1>2, ScanFacts
<1>4. PICK y, f, k : y = Head(todo) /\ f = y.file /\ k = y.chunk
  OBVIOUS
<1>5. f \in Files /\ obj[f].here /\ k \in 1 .. FileChunks
  BY <1>2, <1>3, <1>4, HeadOk
<1>6. PICK old, w : old = w.tnode[k] /\ w = obj[f]
  OBVIOUS
<1>7. PICK v : v = IF old = None THEN w ELSE [w EXCEPT !.tnode[k] = None, !.nData = @ - 1]
  OBVIOUS
<1>8. PICK o : o = IF old = None THEN obj ELSE [obj EXCEPT ![f] = v]
  OBVIOUS
<1>9. PICK e : e = DeleteChunk(dev, old)
  OBVIOUS
<1>10. PICK t : t = Tail(todo)
  OBVIOUS
<1>11. /\ mounted' /\ nand' = nand /\ nseq' = nseq /\ bad' = bad /\ dev' = e /\ todo' = t
  BY <1>2, <1>4, <1>6, <1>9, <1>10, Zenon DEF PruneResizedChunk, Rest
<1>12. obj' = o
  <2>1. obj' = IF old = None THEN obj ELSE [obj EXCEPT ![f].tnode[k] = None, ![f].nData = @ - 1]
    BY <1>4, <1>6 DEF PruneResizedChunk
  <2>2. QED
    BY <1>3, <1>5, <1>6, <1>7, <1>8, <2>1
<1>13. o[f] = v /\ \A h \in Files \ {f} : o[h] = obj[h]
  BY <1>3, <1>5, <1>6, <1>7, <1>8
<1>14. /\ v.here = w.here /\ v.hdr = w.hdr /\ v.deleted = w.deleted /\ v.dir = w.dir /\ v.size = w.size
       /\ v.tnode[k] = None /\ \A j \in 1 .. FileChunks \ {k} : v.tnode[j] = w.tnode[j]
       /\ v.nData = IF old = None THEN w.nData ELSE w.nData - 1
  <2>1. w \in Objects
    BY <1>3, <1>5, <1>6
  <2>2. CASE old = None
    BY <1>6, <1>7, <2>2
  <2>3. CASE old # None
    <3>1. v = [w EXCEPT !.tnode[k] = None, !.nData = @ - 1]
      BY <1>7, <2>3
    <3>2. /\ v.here = w.here /\ v.dir = w.dir /\ v.hdr = w.hdr /\ v.size = w.size
          /\ v.tnode = [w.tnode EXCEPT ![k] = None]
          /\ v.nData = w.nData - 1 /\ v.deleted = w.deleted
      BY <2>1, <3>1 DEF Objects
    <3>3. w.tnode \in [1 .. FileChunks -> Addr \cup {None}]
      BY <2>1, ObjectFields
    <3>4. QED
      BY <1>5, <2>3, <3>2, <3>3
  <2>4. QED
    BY <2>2, <2>3
<1>15. PICK C, K, F, S : C = LogOf(nand, bad) /\ K = Bits(dev) /\ F = Flagged(dev) /\ S = Soft(dev)
  OBVIOUS
<1>16. IsFiniteSet(C) /\ None \notin C /\ \A c \in C : At(nand, c).file = f => At(nand, c).chunk \in 0 .. FileChunks
  BY <1>3, <1>15, LogShape
<1>17. PICK r : r = Left(t, f)
  OBVIOUS
<1>18. Left(todo, f) = r \cup {y} /\ \A h : h # f => Left(todo, h) = Left(t, h)
  BY <1>2, <1>3, <1>4, <1>10, <1>17, LeftRest
<1>19. FileOk(nand, C, nseq, K, F, S, w, r \cup {y}, f)
  BY <1>3, <1>5, <1>6, <1>15, <1>18 DEF MountedScan
<1>20. OwnIn(nand, C, K, w, f) /\ w.here /\ w.nData \in Int
  BY <1>3, <1>5, <1>6, <1>15
<1>21. old = None \/ old \in Bits(dev)
  BY <1>5, <1>6, <1>15, <1>20, OwnInParts
<1>22. SideOk(nand, nseq, bad, dev) /\ FirstOk(nand) /\ Apart(nand, nseq, bad)
  BY <1>3 DEF MountedScan
<1>23. SideOk(nand, nseq, bad, e) /\ Bits(e) = K \ {old} /\ Flagged(e) = F /\ Tracks(dev, e)
  BY <1>3, <1>9, <1>15, <1>21, <1>22, DeleteSide
<1>24. Ordered(C, nseq)
  BY <1>3, <1>15, <1>22, LogOrdered
<1>25. FileOk(nand, C, nseq, K \ {old}, F, S, v, r, f)
  <2>1. y.op = "prune" /\ y.chunk = k
    BY <1>2, <1>4
  <2>2. PICK L : L = K \ {old}
    OBVIOUS
  <2>3. FileOk(nand, C, nseq, L, F, S, v, r, f)
    <3>1. k \in 1 .. FileChunks /\ old = w.tnode[k]
      BY <1>5, <1>6
    <3>2. IsFiniteSet(C) /\ None \notin C
      BY <1>16
    <3>3. \A c \in C : At(nand, c).file = f => At(nand, c).chunk \in 0 .. FileChunks
      BY <1>16
    <3>4. v.here = w.here /\ v.hdr = w.hdr /\ v.deleted = w.deleted /\ v.dir = w.dir /\ v.size = w.size
      BY <1>14
    <3>5. v.tnode[k] = None /\ \A j \in 1 .. FileChunks \ {k} : v.tnode[j] = w.tnode[j]
      BY <1>14
    <3>6. v.nData = IF old = None THEN w.nData ELSE w.nData - 1
      BY <1>14
    <3>7. QED
      BY ONLY <1>19, <1>20, <1>24, <2>1, <2>2, <3>1, <3>2, <3>3, <3>4, <3>5, <3>6, FilePruned
  <2>4. QED
    BY <2>2, <2>3
<1>26. FileOk(nand, C, nseq, Bits(e), Flagged(e), Soft(e), v, r, f)
  <2>1. \A c \in C : c \in Bits(e) /\ c[1] \in S => c[1] \in Soft(e)
    BY <1>15, <1>23 DEF Tracks
  <2>2. FileOk(nand, C, nseq, Bits(e), Flagged(e), S, v, r, f)
    BY <1>23, <1>25
  <2>3. QED
    BY <2>1, <2>2, FileSofter
<1>27. \A h \in Files :
         \/ o[h] = obj[h] /\ Left(t, h) = Left(todo, h)
         \/ FileOk(nand, LogOf(nand, bad), nseq, Bits(e), Flagged(e), Soft(e), o[h], Left(t, h), h)
  BY <1>13, <1>15, <1>17, <1>18, <1>26
<1>28. \A c \in LogOf(nand, bad) : c \in Bits(e) => c \in Bits(dev)
  BY <1>15, <1>23
<1>29. MountedScan(nand, nseq, bad, e, o, t)
  BY ONLY <1>3, <1>23, <1>27, <1>28, StepKept
<1>30. QED
  BY <1>11, <1>12, <1>29, MountedAgain

(* An object goes, and its header with it.                                 *)
LEMMA RemoveObjectScan ==
  ASSUME GutsInv, ScanInv, RemoveObject
  PROVE  ScanInv'
<1>1. Doing("remove")
  BY DEF RemoveObject
<1>2. mounted /\ todo # <<>> /\ Head(todo).op = "remove" /\ gcBlock = None
  BY <1>1, DoingFacts
<1>3. /\ nand \in Flash /\ nseq \in [Blocks -> Nat] /\ obj \in [Files -> Objects] /\ todo \in Seq(Ops)
      /\ DevOk(dev, obj, nand, None) /\ TodoOk(todo, obj, None)
      /\ MountedScan(nand, nseq, bad, dev, obj, todo)
      /\ \A f \in Files : /\ OwnIn(nand, LogOf(nand, bad), Bits(dev), obj[f], f)
                          /\ obj[f].nData \in Int /\ obj[f].size \in Nat
  BY <1>2, ScanFacts
<1>4. PICK y, f, w, t : y = Head(todo) /\ f = y.file /\ w = obj[f] /\ t = Tail(todo)
  OBVIOUS
<1>5. f \in Files /\ w.here
  BY <1>2, <1>3, <1>4, HeadOk
<1>6. PICK v, o, e : v = NoObject /\ o = [obj EXCEPT ![f] = v] /\ e = DeleteChunk(dev, w.hdr)
  OBVIOUS
<1>7. /\ mounted' /\ nand' = nand /\ nseq' = nseq /\ bad' = bad /\ dev' = e /\ obj' = o /\ todo' = t
  BY <1>2, <1>4, <1>6 DEF RemoveObject, Rest
<1>8. o[f] = v /\ \A h \in Files \ {f} : o[h] = obj[h]
  BY <1>3, <1>5, <1>6
<1>9. PICK C, K, F, S : C = LogOf(nand, bad) /\ K = Bits(dev) /\ F = Flagged(dev) /\ S = Soft(dev)
  OBVIOUS
<1>10. IsFiniteSet(C) /\ None \notin C
  BY <1>3, <1>9, LogShape
<1>11. \A c \in C : At(nand, c).file = f => At(nand, c).chunk \in 0 .. FileChunks
  BY <1>3, <1>9, LogShape
<1>12. Left(t, f) = {} /\ Left(todo, f) = {y} /\ \A h : h # f => Left(todo, h) = Left(t, h)
  <2>1. /\ Left(todo, f) = Left(t, f) \cup {y} /\ \A h : h # f => Left(todo, h) = Left(t, h)
        /\ Left(t, f) = {}
    BY <1>2, <1>3, <1>4, LeftRest
  <2>2. QED
    BY <2>1
<1>13. PICK p : p = {y}
  OBVIOUS
<1>14. FileOk(nand, C, nseq, K, F, S, w, p, f)
  BY <1>3, <1>4, <1>5, <1>9, <1>12, <1>13 DEF MountedScan
<1>15. ~HeaderPending(p)
  BY <1>2, <1>4, <1>13 DEF HeaderPending
<1>16. w.dir = "deleted"
  BY <1>2, <1>4, <1>13, <1>14 DEF FileOk, CallOk
<1>17. OwnIn(nand, C, K, w, f) /\ w.nData \in Int
  BY <1>3, <1>4, <1>5, <1>9
<1>18. w.hdr = None \/ w.hdr \in Bits(dev)
  BY <1>9, <1>17, OwnInParts
<1>19. SideOk(nand, nseq, bad, dev)
  BY <1>3 DEF MountedScan
<1>20. SideOk(nand, nseq, bad, e) /\ Bits(e) = K \ {w.hdr} /\ Flagged(e) = F /\ Tracks(dev, e)
  BY <1>3, <1>6, <1>9, <1>18, <1>19, DeleteSide
<1>21. /\ ~v.here /\ v.hdr = None /\ (\A k \in 1 .. FileChunks : v.tnode[k] = None)
       /\ v.nData = 0 /\ ~v.deleted /\ v.dir = "root"
  BY <1>6 DEF NoObject
<1>22. PICK q : q = {}
  OBVIOUS
<1>23. FileOk(nand, C, nseq, Bits(e), F, S, v, {}, f)
  BY ONLY <1>5, <1>10, <1>11, <1>14, <1>15, <1>16, <1>17, <1>20, <1>21, FileRemoved
<1>24. FileOk(nand, C, nseq, Bits(e), Flagged(e), Soft(e), v, {}, f)
  <2>1. \A c \in C : c \in Bits(e) /\ c[1] \in S => c[1] \in Soft(e)
    BY <1>9, <1>20 DEF Tracks
  <2>2. FileOk(nand, C, nseq, Bits(e), Flagged(e), S, v, {}, f)
    BY <1>20, <1>23
  <2>3. QED
    BY <2>1, <2>2, FileSofter
<1>25. \A h \in Files :
         \/ o[h] = obj[h] /\ Left(t, h) = Left(todo, h)
         \/ FileOk(nand, LogOf(nand, bad), nseq, Bits(e), Flagged(e), Soft(e), o[h], Left(t, h), h)
  BY <1>8, <1>9, <1>12, <1>24
<1>26. \A c \in LogOf(nand, bad) : c \in Bits(e) => c \in Bits(dev)
  BY <1>9, <1>20
<1>27. MountedScan(nand, nseq, bad, e, o, t)
  BY ONLY <1>3, <1>20, <1>25, <1>26, StepKept
<1>28. QED
  BY <1>7, <1>27, MountedAgain

(* The collector gives up a chunk.                                         *)
LEMMA GcDropScan ==
  ASSUME GutsInv, ScanInv, GcDrop
  PROVE  ScanInv'
<1>1. Collecting /\ (OldOwned => OldSoftDeleted)
  BY DEF GcDrop
<1>2. /\ mounted /\ gcBlock \in Blocks /\ dev.blk[gcBlock].state = "collecting"
      /\ OldChunk \in Addr /\ OldChunk[1] = gcBlock /\ OldChunk[2] \in dev.blk[gcBlock].bits
  BY <1>1, CollectingFacts
<1>3. /\ nand \in Flash /\ nseq \in [Blocks -> Nat] /\ obj \in [Files -> Objects]
      /\ DevOk(dev, obj, nand, gcBlock)
      /\ MountedScan(nand, nseq, bad, dev, obj, todo)
      /\ \A f \in Files : /\ OwnIn(nand, LogOf(nand, bad), Bits(dev), obj[f], f)
                          /\ obj[f].nData \in Int /\ obj[f].size \in Nat
  BY <1>2, ScanFacts
<1>4. PICK c, e : c = OldChunk /\ e = DeleteChunk(dev, c)
  OBVIOUS
<1>5. c \in Bits(dev)
  BY <1>2, <1>4 DEF Bits
<1>6. SideOk(nand, nseq, bad, dev)
  BY <1>3 DEF MountedScan
<1>7. SideOk(nand, nseq, bad, e) /\ Bits(e) = Bits(dev) \ {c} /\ Flagged(e) = Flagged(dev) /\ Tracks(dev, e)
  BY <1>3, <1>4, <1>5, <1>6, DeleteSide
<1>8. \A a \in LogOf(nand, bad) : a \in Bits(e) => a \in Bits(dev)
  BY <1>7
<1>9. mounted' /\ nand' = nand /\ nseq' = nseq /\ bad' = bad /\ dev' = e /\ todo' = todo
  BY <1>2, <1>4 DEF GcDrop
<1>10. CASE ~OldOwned
  <2>1. obj' = obj
    BY <1>10 DEF GcDrop
  <2>2. MountedScan(nand, nseq, bad, e, obj, todo)
    BY <1>3, <1>7, <1>8, StepKept
  <2>3. QED
    BY <1>9, <2>1, <2>2, MountedAgain
<1>11. CASE OldOwned
  <2>1. PICK f, w : f = Tag(c).file /\ w = obj[f]
    OBVIOUS
  <2>2. /\ c \in Readable /\ w.here /\ w.deleted /\ Tag(c).chunk # 0
    BY <1>1, <1>4, <1>11, <2>1 DEF OldOwned, OldSoftDeleted
  <2>3. f \in Files
    BY <1>3, <2>1, <2>2, TagType
  <2>4. PICK v : v = [w EXCEPT !.nData = @ - 1]
    OBVIOUS
  <2>5. PICK o : o = [obj EXCEPT ![f] = v]
    OBVIOUS
  <2>6. obj' = o
    BY <1>3, <1>4, <1>11, <2>1, <2>3, <2>4, <2>5 DEF GcDrop
  <2>7. o[f] = v /\ \A h \in Files \ {f} : o[h] = obj[h]
    BY <1>3, <2>3, <2>5
  <2>8. /\ v.here = w.here /\ v.hdr = w.hdr /\ v.tnode = w.tnode /\ v.deleted = w.deleted
        /\ v.dir = w.dir /\ v.size = w.size /\ v.nData = w.nData - 1
    BY <1>3, <2>1, <2>3, <2>4 DEF Objects
  <2>9. PICK C, K, F, S : C = LogOf(nand, bad) /\ K = Bits(dev) /\ F = Flagged(dev) /\ S = Soft(dev)
    OBVIOUS
  <2>10. c \in C /\ At(nand, c) = Tag(c)
    <3>1. c[1] \notin bad
      BY <1>2, <1>4, <1>6 DEF SideOk, BlockSide
    <3>2. QED
      BY <1>2, <1>4, <2>2, <2>9, <3>1 DEF LogOf, Readable, At, Tag
  <2>11. c \in InUse(nand, C, K, f)
    BY <1>5, <2>1, <2>2, <2>9, <2>10 DEF InUse
  <2>12. PICK q : q = Left(todo, f)
    OBVIOUS
  <2>13. FileOk(nand, C, nseq, K, F, S, w, q, f) /\ OwnIn(nand, C, K, w, f) /\ w.nData \in Int
    BY <1>3, <2>1, <2>3, <2>9, <2>12 DEF MountedScan
  <2>14. IsFiniteSet(C)
    BY <1>3, <2>9, LogShape
  <2>15. PICK L : L = K \ {c}
    OBVIOUS
  <2>16. FileOk(nand, C, nseq, L, F, S, v, q, f)
    BY ONLY <2>2, <2>8, <2>11, <2>13, <2>14, <2>15, FileDropped
  <2>17. FileOk(nand, C, nseq, Bits(e), Flagged(e), Soft(e), v, q, f)
    <3>1. \A a \in C : a \in Bits(e) /\ a[1] \in S => a[1] \in Soft(e)
      BY <1>7, <2>9 DEF Tracks
    <3>2. FileOk(nand, C, nseq, Bits(e), Flagged(e), S, v, q, f)
      BY <1>7, <2>9, <2>15, <2>16
    <3>3. QED
      BY <3>1, <3>2, FileSofter
  <2>18. \A h \in Files :
           \/ o[h] = obj[h] /\ Left(todo, h) = Left(todo, h)
           \/ FileOk(nand, LogOf(nand, bad), nseq, Bits(e), Flagged(e), Soft(e), o[h], Left(todo, h), h)
    BY <2>7, <2>9, <2>12, <2>17
  <2>19. MountedScan(nand, nseq, bad, e, o, todo)
    BY ONLY <1>3, <1>7, <1>8, <2>18, StepKept
  <2>20. QED
    BY <1>9, <2>6, <2>19, MountedAgain
<1>12. QED
  BY <1>10, <1>11

-----------------------------------------------------------------------------
(* What a write does to the device, and to the log.                        *)
LEMMA WriteScan ==
  ASSUME GutsInv, ScanInv, mounted, NEW r, r = Ready(dev), r.alloc # None, Erased(r),
         NEW page \in PagesOfLog, NEW old, old = None \/ old \in Bits(dev),
         NEW e, e = DeleteChunk(Allocated(r), old), NEW c, c = NextChunk(r),
         NEW m, m = Programmed(nand, r.alloc, page), NEW u, u = Numbered(nseq, r.alloc, r.seq)
  PROVE  /\ SideOk(m, u, bad, e) /\ FirstOk(m) /\ Apart(m, u, bad)
         /\ Behind(nand, nseq, bad, m, u, c, page)
         /\ Appended(nand, LogOf(nand, bad), nseq, m, LogOf(m, bad), u, c)
         /\ c # None /\ c[1] = r.alloc /\ r.alloc \in Blocks /\ At(m, c) = page
         /\ Bits(e) = (Bits(dev) \cup {c}) \ {old} /\ Flagged(e) = Flagged(dev) /\ Tracks(dev, e)
         /\ \A a \in LogOf(nand, bad) : a \in Bits(e) => a \in Bits(dev)
         /\ \A a \in LogOf(nand, bad) : a \in Bits(e) /\ a \in Bits(dev) /\ a[1] \in Soft(dev) => a[1] \in Soft(e)
<1>1. /\ nand \in Flash /\ nseq \in [Blocks -> Nat] /\ obj \in [Files -> Objects]
      /\ DevOk(dev, obj, nand, gcBlock) /\ MountedScan(nand, nseq, bad, dev, obj, todo)
  BY ScanFacts
<1>2. SideOk(nand, nseq, bad, dev) /\ FirstOk(nand) /\ Apart(nand, nseq, bad)
  BY <1>1 DEF MountedScan
<1>3. r.page > Len(nand[r.alloc])
  BY DEF Erased
<1>4. /\ m \in Flash /\ u \in [Blocks -> Nat] /\ SideOk(m, u, bad, e) /\ FirstOk(m) /\ Apart(m, u, bad)
      /\ Behind(nand, nseq, bad, m, u, c, page) /\ c \notin Bits(dev) /\ r.alloc \in Blocks /\ c[1] = r.alloc
      /\ Bits(e) = (Bits(dev) \cup {c}) \ {old} /\ Flagged(e) = Flagged(dev) /\ Tracks(dev, e)
  BY <1>1, <1>2, <1>3, WriteSide
<1>5. Appended(nand, LogOf(nand, bad), nseq, m, LogOf(m, bad), u, c)
  BY <1>4, AppendedIs
<1>6. c \in Addr /\ c \notin LogOf(nand, bad) /\ At(m, c) = page
  BY <1>4 DEF Behind
<1>7. c # None
  BY <1>6, Distinct
<1>8. \A a \in LogOf(nand, bad) : a \in Bits(e) => a \in Bits(dev)
  BY <1>4, <1>6
<1>9. \A a \in LogOf(nand, bad) : a \in Bits(e) /\ a \in Bits(dev) /\ a[1] \in Soft(dev) => a[1] \in Soft(e)
  BY <1>4 DEF Tracks
<1>10. QED
  BY <1>4, <1>5, <1>6, <1>7, <1>8, <1>9

(* A step that only finds a block to allocate from.                        *)
LEMMA ReadyScan ==
  ASSUME GutsInv, ScanInv, mounted, NEW d, d = Ready(dev)
  PROVE  /\ SideOk(nand, nseq, bad, d) /\ Tracks(dev, d)
         /\ Bits(d) = Bits(dev) /\ Flagged(d) = Flagged(dev)
         /\ \A a \in LogOf(nand, bad) : a \in Bits(d) => a \in Bits(dev)
         /\ \A a \in LogOf(nand, bad) : a \in Bits(dev) /\ a[1] \in Soft(dev) => a[1] \in Soft(d)
<1>1. /\ nand \in Flash /\ nseq \in [Blocks -> Nat] /\ obj \in [Files -> Objects]
      /\ DevOk(dev, obj, nand, gcBlock) /\ MountedScan(nand, nseq, bad, dev, obj, todo)
  BY ScanFacts
<1>2. SideOk(nand, nseq, bad, dev)
  BY <1>1 DEF MountedScan
<1>3. SideOk(nand, nseq, bad, d) /\ Bits(d) = Bits(dev) /\ Flagged(d) = Flagged(dev) /\ Tracks(dev, d)
  BY <1>1, <1>2, ReadySide
<1>4. QED
  BY <1>3 DEF Tracks

(* yaffs_WriteChunkDataToObject                                            *)
LEMMA WriteChunkDataScan ==
  ASSUME GutsInv, ScanInv, WriteChunkData
  PROVE  ScanInv'
<1>1. Doing("put")
  BY DEF WriteChunkData
<1>2. mounted /\ todo # <<>> /\ Head(todo).op = "put" /\ gcBlock = None
  BY <1>1, DoingFacts
<1>3. /\ nand \in Flash /\ nseq \in [Blocks -> Nat] /\ obj \in [Files -> Objects] /\ todo \in Seq(Ops)
      /\ DevOk(dev, obj, nand, None) /\ TodoOk(todo, obj, None)
      /\ MountedScan(nand, nseq, bad, dev, obj, todo)
      /\ \A f \in Files : /\ OwnIn(nand, LogOf(nand, bad), Bits(dev), obj[f], f)
                          /\ obj[f].nData \in Int /\ obj[f].size \in Nat
  BY <1>2, ScanFacts
<1>4. PICK y, f, k, z : y = Head(todo) /\ f = y.file /\ k = y.chunk /\ z = y.val
  OBVIOUS
<1>5. f \in Files /\ obj[f].here /\ k \in 1 .. FileChunks /\ z \in Values /\ y.op = "put"
  BY <1>2, <1>3, <1>4, HeadOk
<1>6. PICK w, t : w = obj[f] /\ t = Tail(todo)
  OBVIOUS
<1>7. PICK d, old : d = Ready(dev) /\ old = w.tnode[k]
  OBVIOUS
<1>8. PICK C, K, F, S : C = LogOf(nand, bad) /\ K = Bits(dev) /\ F = Flagged(dev) /\ S = Soft(dev)
  OBVIOUS
<1>9. PICK p : p = {y}
  OBVIOUS
<1>10. Left(t, f) = {} /\ Left(todo, f) = p /\ \A h : h # f => Left(todo, h) = Left(t, h)
  <2>1. /\ Left(todo, f) = Left(t, f) \cup {y} /\ \A h : h # f => Left(todo, h) = Left(t, h)
        /\ Left(t, f) = {}
    BY <1>2, <1>3, <1>4, <1>6, LeftRest
  <2>2. QED
    BY <1>9, <2>1
<1>11. /\ FileOk(nand, C, nseq, K, F, S, w, p, f) /\ OwnIn(nand, C, K, w, f)
       /\ w.here /\ w.nData \in Int /\ w.size \in Nat /\ w \in Objects
  BY <1>3, <1>5, <1>6, <1>8, <1>10 DEF MountedScan
<1>12. mounted' /\ bad' = bad /\ todo' = t
  BY <1>2, <1>6 DEF WriteChunkData, Rest
<1>13. CASE ~Fits(d, FALSE)
  <2>1. PICK v : v = [w EXCEPT !.dirty = TRUE]
    OBVIOUS
  <2>2. PICK o : o = [obj EXCEPT ![f] = v]
    OBVIOUS
  <2>3. dev' = d /\ nand' = nand /\ nseq' = nseq
    BY <1>4, <1>7, <1>13 DEF WriteChunkData
  <2>4. obj' = o
    <3>1. obj' = [obj EXCEPT ![f].dirty = TRUE]
      BY <1>4, <1>7, <1>13 DEF WriteChunkData
    <3>2. QED
      BY <1>3, <1>5, <1>6, <2>1, <2>2, <3>1
  <2>5. o[f] = v /\ \A h \in Files \ {f} : o[h] = obj[h]
    BY <1>3, <1>5, <2>2
  <2>6. SameUse(w, v) /\ v.dir = w.dir /\ v.size = w.size
    BY <1>11, <2>1 DEF SameUse, Objects
  <2>7. FileOk(nand, C, nseq, K, F, S, v, {}, f)
    <3>1. FileOk(nand, C, nseq, K, F, S, w, {y}, f)
      BY <1>9, <1>11
    <3>2. QED
      BY ONLY <1>5, <2>6, <3>1, FileOver
  <2>8. /\ SideOk(nand, nseq, bad, d) /\ Tracks(dev, d)
        /\ Bits(d) = K /\ Flagged(d) = F
        /\ \A a \in LogOf(nand, bad) : a \in Bits(d) => a \in Bits(dev)
        /\ \A a \in C : a \in K /\ a[1] \in S => a[1] \in Soft(d)
    BY <1>2, <1>7, <1>8, ReadyScan
  <2>9. FileOk(nand, C, nseq, Bits(d), Flagged(d), Soft(d), v, {}, f)
    <3>1. FileOk(nand, C, nseq, K, F, Soft(d), v, {}, f)
      BY <2>7, <2>8, FileSofter
    <3>2. QED
      BY <2>8, <3>1
  <2>10. \A h \in Files :
           \/ o[h] = obj[h] /\ Left(t, h) = Left(todo, h)
           \/ FileOk(nand, LogOf(nand, bad), nseq, Bits(d), Flagged(d), Soft(d), o[h], Left(t, h), h)
    BY <1>8, <1>10, <2>5, <2>9
  <2>11. MountedScan(nand, nseq, bad, d, o, t)
    BY ONLY <1>3, <2>8, <2>10, StepKept
  <2>12. QED
    BY <1>12, <2>3, <2>4, <2>11, MountedAgain
<1>14. CASE Fits(d, FALSE)
  <2>1. d.alloc # None /\ Erased(d)
    BY <1>4, <1>7, <1>14 DEF Fits, WriteChunkData
  <2>2. PICK page : page = Data(f, k, z)
    OBVIOUS
  <2>3. page \in PagesOfLog /\ page.file = f /\ page.chunk = k
    BY <1>5, <2>2, DataType, Geometry
  <2>4. old = None \/ old \in Bits(dev)
    BY <1>5, <1>7, <1>8, <1>11, OwnInParts
  <2>5. PICK e, c, m, u : /\ e = DeleteChunk(Allocated(d), old) /\ c = NextChunk(d)
                          /\ m = Programmed(nand, d.alloc, page) /\ u = Numbered(nseq, d.alloc, d.seq)
    OBVIOUS
  <2>6. /\ SideOk(m, u, bad, e) /\ FirstOk(m) /\ Apart(m, u, bad)
        /\ Behind(nand, nseq, bad, m, u, c, page)
        /\ Appended(nand, LogOf(nand, bad), nseq, m, LogOf(m, bad), u, c)
        /\ c # None /\ At(m, c) = page
        /\ Bits(e) = (Bits(dev) \cup {c}) \ {old} /\ Flagged(e) = Flagged(dev) /\ Tracks(dev, e)
        /\ \A a \in LogOf(nand, bad) : a \in Bits(e) => a \in Bits(dev)
        /\ \A a \in LogOf(nand, bad) : a \in Bits(e) /\ a \in Bits(dev) /\ a[1] \in Soft(dev) => a[1] \in Soft(e)
    BY ONLY GutsInv, ScanInv, <1>2, <1>7, <2>1, <2>3, <2>4, <2>5, WriteScan
  <2>7. PICK v : v = [w EXCEPT !.tnode[k] = c, !.nData = IF old = None THEN @ + 1 ELSE @,
                               !.size = Max({@, k}), !.dirty = TRUE]
    OBVIOUS
  <2>8. PICK o : o = [obj EXCEPT ![f] = v]
    OBVIOUS
  <2>9. nand' = m /\ nseq' = u /\ dev' = e
    BY <1>4, <1>6, <1>7, <1>14, <2>2, <2>5, Zenon DEF WriteChunkData, Program, Programmed, Numbered
  <2>10. obj' = o
    BY <1>4, <1>6, <1>7, <1>14, <2>5, <2>7, <2>8, Zenon DEF WriteChunkData
  <2>11. o[f] = v /\ \A h \in Files \ {f} : o[h] = obj[h]
    BY <1>3, <1>5, <2>8
  <2>12. /\ v.here = w.here /\ v.dir = w.dir /\ v.hdr = w.hdr
         /\ v.size = Max({w.size, k}) /\ v.tnode = [w.tnode EXCEPT ![k] = c]
         /\ v.nData = (IF old = None THEN w.nData + 1 ELSE w.nData) /\ v.deleted = w.deleted
    BY <1>11, <2>7 DEF Objects
  <2>13. v.tnode[k] = c /\ \A j \in 1 .. FileChunks \ {k} : v.tnode[j] = w.tnode[j]
    <3>1. w.tnode \in [1 .. FileChunks -> Addr \cup {None}]
      BY <1>11, ObjectFields
    <3>2. QED
      BY <1>5, <2>12, <3>1
  <2>14. v.size \in Nat /\ v.size >= w.size /\ v.size >= k
    <3>1. k \in Nat
      BY <1>5, Geometry
    <3>2. {w.size, k} \in SUBSET Int /\ IsFiniteSet({w.size, k}) /\ {w.size, k} # {}
      <4>1. IsFiniteSet({w.size}) /\ IsFiniteSet({w.size} \cup {k})
        BY FS_Singleton, FS_AddElement
      <4>2. {w.size} \cup {k} = {w.size, k}
        OBVIOUS
      <4>3. QED
        BY <1>11, <3>1, <4>1, <4>2
    <3>3. Max({w.size, k}) \in {w.size, k} /\ \A i \in {w.size, k} : Max({w.size, k}) >= i
      BY <3>2, MaxLemma
    <3>4. QED
      BY <1>11, <2>12, <3>1, <3>3
  <2>15. PICK E, L : E = LogOf(m, bad) /\ L = (K \cup {c}) \ {old}
    OBVIOUS
  <2>16. IsFiniteSet(C) /\ None \notin C
    BY <1>3, <1>8, LogShape
  <2>17. \A a \in C : At(nand, a).file = f => At(nand, a).chunk \in 0 .. FileChunks
    BY <1>3, <1>8, LogShape
  <2>18. \A a \in C : At(nand, a).size \in Nat
    BY <1>3, <1>8, LogShape
  <2>19. At(m, c).file = f /\ At(m, c).chunk = k
    BY <2>3, <2>6
  <2>20. Bits(e) = L /\ Flagged(e) = F /\ Appended(nand, C, nseq, m, E, u, c)
    BY <1>8, <2>6, <2>15
  <2>21. \A a \in C : a \in L /\ a \in K /\ a[1] \in S => a[1] \in Soft(e)
    BY <1>8, <2>6, <2>20
  <2>22. \E x : p = {x} /\ x.op = "put"
    BY <1>5, <1>9
  <2>23. PICK q : q = {}
    OBVIOUS
  <2>24. FileOk(m, E, u, L, F, Soft(e), v, q, f)
    <3>1. PICK T : T = Soft(e)
      OBVIOUS
    <3>2. PutOrCopied(p, q, w, v, old, k)
      BY <2>14, <2>22, <2>23 DEF PutOrCopied
    <3>3. MovedFile(nand, C, nseq, m, E, u, c, K, F, S, f, w, p, k, old, v, L, T, q)
      BY <1>5, <1>7, <1>11, <2>6, <2>12, <2>13, <2>14, <2>15, <2>16, <2>17, <2>18, <2>19, <2>20,
         <2>21, <3>1, <3>2 DEF MovedFile
    <3>4. FileOk(m, E, u, L, F, T, v, q, f)
      BY ONLY <3>3, FileMoved
    <3>5. QED
      BY <3>1, <3>4
  <2>25. \A h \in Files :
           \/ o[h] = obj[h] /\ Left(t, h) = Left(todo, h) /\ page.file # h
           \/ FileOk(m, LogOf(m, bad), u, Bits(e), Flagged(e), Soft(e), o[h], Left(t, h), h)
    BY <1>10, <2>3, <2>11, <2>15, <2>20, <2>23, <2>24
  <2>26. MountedScan(m, u, bad, e, o, t)
    <3>1. obj \in [Files -> Objects] /\ nand \in Flash /\ DevOk(dev, obj, nand, None)
      BY <1>3
    <3>2. MountedScan(nand, nseq, bad, dev, obj, todo)
      BY <1>3
    <3>3. SideOk(m, u, bad, e) /\ FirstOk(m) /\ Apart(m, u, bad)
      BY <2>6
    <3>4. (\A a \in LogOf(nand, bad) : a \in Bits(e) => a \in Bits(dev)) /\ Tracks(dev, e)
      BY <2>6
    <3>5. Behind(nand, nseq, bad, m, u, c, page)
      BY <2>6
    <3>6. QED
      BY ONLY <2>25, <3>1, <3>2, <3>3, <3>4, <3>5, StepGrown
  <2>27. QED
    BY <1>12, <2>9, <2>10, <2>26, MountedAgain
<1>15. QED
  BY <1>13, <1>14, Zenon


(* The collector copies a chunk: to its owner nothing happens.             *)
LEMMA GcCopyScan ==
  ASSUME GutsInv, ScanInv, GcCopy, ReserveSuffices
  PROVE  ScanInv'
<1>1. Collecting /\ OldOwned /\ ~OldSoftDeleted
  BY DEF GcCopy
<1>2. /\ mounted /\ gcBlock \in Blocks /\ dev.blk[gcBlock].state = "collecting"
      /\ OldChunk \in Addr /\ OldChunk[1] = gcBlock /\ OldChunk[2] \in dev.blk[gcBlock].bits
      /\ Tag(OldChunk) \in PagesOfLog /\ obj[Tag(OldChunk).file].here
  BY <1>1, CollectingFacts
<1>3. /\ nand \in Flash /\ nseq \in [Blocks -> Nat] /\ obj \in [Files -> Objects]
      /\ DevOk(dev, obj, nand, gcBlock)
      /\ MountedScan(nand, nseq, bad, dev, obj, todo)
      /\ \A f \in Files : /\ OwnIn(nand, LogOf(nand, bad), Bits(dev), obj[f], f)
                          /\ obj[f].nData \in Int /\ obj[f].size \in Nat
  BY <1>2, ScanFacts
<1>4. PICK old, t, f, k : old = OldChunk /\ t = Tag(old) /\ f = t.file /\ k = t.chunk
  OBVIOUS
<1>5. t \in PagesOfLog /\ f \in Files /\ k \in 0 .. FileChunks
  BY <1>2, <1>4, CopiedType
<1>6. PICK w, q : w = obj[f] /\ q = Left(todo, f)
  OBVIOUS
<1>7. w.here /\ ~(w.deleted /\ k # 0) /\ w \in Objects
  BY <1>1, <1>2, <1>3, <1>4, <1>5, <1>6 DEF OldSoftDeleted
<1>8. PICK C, K, F, S : C = LogOf(nand, bad) /\ K = Bits(dev) /\ F = Flagged(dev) /\ S = Soft(dev)
  OBVIOUS
<1>9. SideOk(nand, nseq, bad, dev)
  BY <1>3 DEF MountedScan
<1>10. old \in C /\ old \in K /\ At(nand, old) = t
  <2>1. old[1] \notin bad
    BY <1>2, <1>4, <1>9 DEF SideOk, BlockSide
  <2>2. QED
    BY <1>1, <1>2, <1>4, <1>8, <2>1 DEF OldOwned, LogOf, Readable, At, Tag, Bits
<1>11. /\ FileOk(nand, C, nseq, K, F, S, w, q, f) /\ OwnIn(nand, C, K, w, f)
       /\ w.nData \in Int /\ w.size \in Nat
  BY <1>3, <1>5, <1>6, <1>8 DEF MountedScan
<1>12. OwnOf(w, k) = old
  BY <1>4, <1>7, <1>10, <1>11 DEF FileOk, UseOk
<1>13. PICK d : d = Ready(dev)
  OBVIOUS
<1>14. Fits(d, TRUE) /\ d.alloc # None /\ Erased(d)
  BY <1>1, <1>13 DEF ReserveSuffices, Fits, GcCopy
<1>15. PICK page : page = Copied(t)
  OBVIOUS
<1>16. /\ page \in PagesOfLog /\ page.file = f /\ page.chunk = k
       /\ page.dir = t.dir /\ page.size = t.size /\ ~page.shrink
  BY <1>4, <1>5, <1>15 DEF PagesOfLog, Copied
<1>17. PICK e, c, m, u : /\ e = DeleteChunk(Allocated(d), old) /\ c = NextChunk(d)
                         /\ m = Programmed(nand, d.alloc, page) /\ u = Numbered(nseq, d.alloc, d.seq)
  OBVIOUS
<1>18. old = None \/ old \in Bits(dev)
  BY <1>8, <1>10
<1>19. /\ SideOk(m, u, bad, e) /\ FirstOk(m) /\ Apart(m, u, bad)
       /\ Behind(nand, nseq, bad, m, u, c, page)
       /\ Appended(nand, LogOf(nand, bad), nseq, m, LogOf(m, bad), u, c)
       /\ c # None /\ At(m, c) = page
       /\ Bits(e) = (Bits(dev) \cup {c}) \ {old} /\ Flagged(e) = Flagged(dev) /\ Tracks(dev, e)
       /\ \A a \in LogOf(nand, bad) : a \in Bits(e) => a \in Bits(dev)
       /\ \A a \in LogOf(nand, bad) : a \in Bits(e) /\ a \in Bits(dev) /\ a[1] \in Soft(dev) => a[1] \in Soft(e)
  BY ONLY GutsInv, ScanInv, <1>2, <1>13, <1>14, <1>16, <1>17, <1>18, WriteScan
<1>20. /\ mounted' /\ bad' = bad /\ todo' = todo
       /\ nand' = m /\ nseq' = u /\ dev' = e
  BY <1>2, <1>4, <1>13, <1>14, <1>15, <1>17 DEF GcCopy, Program, Programmed, Numbered
<1>21. obj' = IF k = 0 THEN [obj EXCEPT ![f].hdr = c] ELSE [obj EXCEPT ![f].tnode[k] = c]
  BY <1>4, <1>13, <1>14, <1>17 DEF GcCopy
<1>22. PICK E, L, T : E = LogOf(m, bad) /\ L = (K \cup {c}) \ {old} /\ T = Soft(e)
  OBVIOUS
<1>23. IsFiniteSet(C) /\ None \notin C
  BY <1>3, <1>8, LogShape
<1>24. old # None
  BY <1>10, <1>23
<1>25. \A a \in C : At(nand, a).file = f => At(nand, a).chunk \in 0 .. FileChunks
  BY <1>3, <1>8, LogShape
<1>26. \A a \in C : At(nand, a).size \in Nat
  BY <1>3, <1>8, LogShape
<1>27. At(m, c).file = f /\ At(m, c).chunk = k /\ ~At(m, c).shrink
       /\ At(m, c).dir = At(nand, old).dir /\ At(m, c).size = At(nand, old).size
  BY <1>10, <1>16, <1>19
<1>28. Bits(e) = L /\ Flagged(e) = F /\ Appended(nand, C, nseq, m, E, u, c)
  BY <1>8, <1>19, <1>22
<1>29. \A a \in C : a \in L /\ a \in K /\ a[1] \in S => a[1] \in T
  BY <1>8, <1>19, <1>22, <1>28
<1>30. ASSUME NEW v, FileOk(m, E, u, L, F, T, v, q, f), NEW o, obj' = o,
              o[f] = v, \A h \in Files \ {f} : o[h] = obj[h]
       PROVE  ScanInv'
  <2>1. \A h \in Files :
           \/ o[h] = obj[h] /\ Left(todo, h) = Left(todo, h) /\ page.file # h
           \/ FileOk(m, LogOf(m, bad), u, Bits(e), Flagged(e), Soft(e), o[h], Left(todo, h), h)
    BY <1>6, <1>16, <1>22, <1>28, <1>30
  <2>2. obj \in [Files -> Objects] /\ nand \in Flash /\ DevOk(dev, obj, nand, gcBlock)
    BY <1>3
  <2>3. MountedScan(nand, nseq, bad, dev, obj, todo)
    BY <1>3
  <2>4. SideOk(m, u, bad, e) /\ FirstOk(m) /\ Apart(m, u, bad)
    BY <1>19
  <2>5. (\A a \in LogOf(nand, bad) : a \in Bits(e) => a \in Bits(dev)) /\ Tracks(dev, e)
    BY <1>19
  <2>6. Behind(nand, nseq, bad, m, u, c, page)
    BY <1>19
  <2>7. MountedScan(m, u, bad, e, o, todo)
    BY ONLY <2>1, <2>2, <2>3, <2>4, <2>5, <2>6, StepGrown
  <2>8. QED
    BY <1>20, <1>30, <2>7, MountedAgain
<1>31. CASE k = 0
  <2>1. PICK v : v = [w EXCEPT !.hdr = c]
    OBVIOUS
  <2>2. PICK o : o = [obj EXCEPT ![f] = v]
    OBVIOUS
  <2>3. obj' = o
    BY <1>6, <1>21, <1>31, <2>1, <2>2
  <2>4. o[f] = v /\ \A h \in Files \ {f} : o[h] = obj[h]
    BY <1>3, <1>5, <2>2
  <2>5. /\ v.here = w.here /\ v.hdr = c /\ v.deleted = w.deleted /\ v.dir = w.dir
        /\ v.tnode = w.tnode /\ v.nData = w.nData /\ v.size = w.size
    BY <1>7, <2>1 DEF Objects
  <2>6. w.hdr = old
    BY <1>12, <1>31 DEF OwnOf
  <2>7. CopiedHeader(nand, C, nseq, m, E, u, c, K, F, S, f, w, q, v, L, T)
    BY <1>7, <1>11, <1>19, <1>22, <1>23, <1>24, <1>25, <1>27, <1>28, <1>29, <1>31, <2>5, <2>6 DEF CopiedHeader
  <2>8. FileOk(m, E, u, L, F, T, v, q, f)
    BY ONLY <2>7, FileHeaderMoved
  <2>9. QED
    BY <1>30, <2>3, <2>4, <2>8
<1>32. CASE k # 0
  <2>1. k \in 1 .. FileChunks /\ w.tnode[k] = old
    BY <1>5, <1>12, <1>32, Geometry DEF OwnOf
  <2>2. w.tnode \in [1 .. FileChunks -> Addr \cup {None}]
    BY <1>7, ObjectFields
  <2>3. PICK z : z = [w.tnode EXCEPT ![k] = c]
    OBVIOUS
  <2>4. z[k] = c /\ \A j \in 1 .. FileChunks \ {k} : z[j] = w.tnode[j]
    BY <2>1, <2>2, <2>3
  <2>5. PICK v : v = [w EXCEPT !.tnode = z]
    OBVIOUS
  <2>6. PICK o : o = [obj EXCEPT ![f] = v]
    OBVIOUS
  <2>7. v = [w EXCEPT !.tnode[k] = c]
    BY <1>7, <2>3, <2>5 DEF Objects
  <2>8. obj' = o
    BY <1>6, <1>21, <1>32, <2>6, <2>7
  <2>9. o[f] = v /\ \A h \in Files \ {f} : o[h] = obj[h]
    BY <1>3, <1>5, <2>6
  <2>10. /\ v.here = w.here /\ v.hdr = w.hdr /\ v.deleted = w.deleted /\ v.dir = w.dir
         /\ v.tnode = z /\ v.nData = w.nData /\ v.size = w.size
    BY <1>7, <2>5 DEF Objects
  <2>11. PutOrCopied(q, q, w, v, old, k)
    BY <1>24, <2>10 DEF PutOrCopied
  <2>12. MovedFile(nand, C, nseq, m, E, u, c, K, F, S, f, w, q, k, old, v, L, T, q)
    BY <1>7, <1>11, <1>19, <1>22, <1>23, <1>24, <1>25, <1>26, <1>27, <1>28, <1>29, <2>1, <2>4, <2>10, <2>11 DEF MovedFile
  <2>13. FileOk(m, E, u, L, F, T, v, q, f)
    BY ONLY <2>12, FileMoved
  <2>14. QED
    BY <1>30, <2>8, <2>9, <2>13
<1>33. QED
  BY <1>31, <1>32

(* yaffs_UpdateObjectHeader                                                *)
LEMMA MarkedSide ==
  ASSUME NEW d \in Devices, NEW b \in Blocks, NEW e, e = [d EXCEPT !.blk[b].shrink = TRUE],
         NEW n, NEW s, NEW x, SideOk(n, s, x, d), d.blk[b].state # "dirty"
  PROVE  /\ SideOk(n, s, x, e) /\ Bits(e) = Bits(d) /\ Flagged(e) = Flagged(d) \cup {b}
         /\ Soft(e) = Soft(d)
<1>1. PICK r : r = d.blk[b]
  OBVIOUS
<1>2. d.blk \in [Blocks -> BlockInfos] /\ r \in BlockInfos /\ d.alloc \in Blocks \cup {None}
  BY <1>1, DeviceFields
<1>3. PICK v : v = [r EXCEPT !.shrink = TRUE]
  OBVIOUS
<1>4. /\ v.state = r.state /\ v.seq = r.seq /\ v.bits = r.bits
      /\ v.softDel = r.softDel /\ v.shrink = TRUE
  BY <1>2, <1>3 DEF BlockInfos
<1>5. e.alloc = d.alloc /\ e.page = d.page /\ e.seq = d.seq /\ e.blk = [d.blk EXCEPT ![b] = v]
  BY <1>1, <1>3 DEF Devices
<1>6. e.blk[b] = v /\ \A y \in Blocks \ {b} : e.blk[y] = d.blk[y]
  BY <1>2, <1>5
<1>7. \A y \in Blocks : /\ e.blk[y].seq = d.blk[y].seq /\ e.blk[y].state = d.blk[y].state
                        /\ e.blk[y].bits = d.blk[y].bits /\ e.blk[y].softDel = d.blk[y].softDel
                        /\ d.blk[y].state = "dirty" => e.blk[y].shrink = d.blk[y].shrink
  BY <1>1, <1>4, <1>6
<1>8. SideOk(n, s, x, e)
  BY <1>2, <1>5, <1>7, SideKept, Zenon
<1>9. Bits(e) = Bits(d)
  BY <1>7, AddrPair DEF Bits
<1>10. Flagged(e) = Flagged(d) \cup {b}
  BY <1>4, <1>6 DEF Flagged
<1>11. Soft(e) = Soft(d)
  BY <1>7 DEF Soft
<1>12. QED
  BY <1>8, <1>9, <1>10, <1>11

LEMMA WriteHeaderScan ==
  ASSUME GutsInv, ScanInv, WriteHeader, ReserveSuffices
  PROVE  ScanInv'
<1>1. Doing("header")
  BY Zenon DEF WriteHeader
<1>2. mounted /\ todo # <<>> /\ Head(todo).op = "header" /\ gcBlock = None
  BY <1>1, DoingFacts
<1>3. /\ nand \in Flash /\ nseq \in [Blocks -> Nat] /\ obj \in [Files -> Objects] /\ todo \in Seq(Ops)
      /\ DevOk(dev, obj, nand, None) /\ TodoOk(todo, obj, None)
      /\ MountedScan(nand, nseq, bad, dev, obj, todo)
      /\ \A f \in Files : /\ OwnIn(nand, LogOf(nand, bad), Bits(dev), obj[f], f)
                          /\ obj[f].nData \in Int /\ obj[f].size \in Nat
  BY <1>2, ScanFacts
<1>4. PICK y, f, x : y = Head(todo) /\ f = y.file /\ x = y.shrink
  OBVIOUS
<1>5. f \in Files /\ obj[f].here /\ y.op = "header" /\ x \in BOOLEAN
  <2>1. y \in Ops
    BY <1>2, <1>3, <1>4
  <2>2. x \in BOOLEAN
    BY <1>4, <2>1 DEF Ops
  <2>3. QED
    BY <1>2, <1>3, <1>4, <2>2, HeadOk
<1>6. PICK w, t : w = obj[f] /\ t = Tail(todo)
  OBVIOUS
<1>7. t \in Seq(Ops)
  BY <1>2, <1>3, <1>6
<1>8. PICK d, old : d = Ready(dev) /\ old = w.hdr
  OBVIOUS
<1>9. PICK C, K, F, S : C = LogOf(nand, bad) /\ K = Bits(dev) /\ F = Flagged(dev) /\ S = Soft(dev)
  OBVIOUS
<1>10. PICK r, p : r = Left(t, f) /\ p = r \cup {y}
  OBVIOUS
<1>11. /\ Left(todo, f) = p /\ \A h : h # f => Left(todo, h) = Left(t, h)
       /\ \A z \in r : z.op = "remove" /\ w.dir = "deleted"
  BY <1>2, <1>3, <1>4, <1>6, <1>10, LeftRest
<1>12. /\ FileOk(nand, C, nseq, K, F, S, w, p, f) /\ OwnIn(nand, C, K, w, f)
       /\ w.here /\ w.nData \in Int /\ w.size \in Nat /\ w \in Objects
  BY <1>3, <1>5, <1>6, <1>9, <1>11 DEF MountedScan
<1>13. mounted' /\ bad' = bad
  BY <1>2, Zenon DEF WriteHeader
<1>14. CASE ~Fits(d, old # None)
  <2>1. old = None
    <3>1. old # None => Fits(d, TRUE)
      BY <1>1, <1>4, <1>6, <1>8 DEF ReserveSuffices
    <3>2. CASE old # None
      <4>1. (old # None) = TRUE
        BY <3>2
      <4>2. Fits(d, old # None)
        BY <3>1, <3>2, <4>1, Zenon
      <4>3. QED
        BY <1>14, <4>2
    <3>3. QED
      BY <3>2
  <2>2. dev' = d /\ nand' = nand /\ nseq' = nseq /\ obj' = obj
    BY <1>4, <1>6, <1>8, <1>14 DEF WriteHeader
  <2>3. /\ SideOk(nand, nseq, bad, d) /\ Tracks(dev, d)
        /\ Bits(d) = K /\ Flagged(d) = F
        /\ \A a \in LogOf(nand, bad) : a \in Bits(d) => a \in Bits(dev)
        /\ \A a \in C : a \in K /\ a[1] \in S => a[1] \in Soft(d)
    BY <1>2, <1>8, <1>9, ReadyScan
  <2>4. ASSUME NEW z, todo' = z, \A h \in Files \ {f} : Left(z, h) = Left(t, h),
               w.dir # "root" => Left(z, f) = r,
               w.dir = "root" => (\A a \in Left(z, f) : a.op = "destroy") /\ Left(z, f) # {}
        PROVE  ScanInv'
    <3>1. PICK q : q = Left(z, f)
      OBVIOUS
    <3>2. FileOk(nand, C, nseq, K, F, S, w, q, f)
      <4>1. FileOk(nand, C, nseq, K, F, S, w, r \cup {y}, f)
        BY <1>10, <1>12
      <4>2. w.dir # "root" => q = r
        BY <2>4, <3>1
      <4>3. w.dir = "root" => \A a \in q : a.op = "destroy"
        BY <2>4, <3>1
      <4>4. w.dir = "root" => q # {}
        BY <2>4, <3>1
      <4>5. w.hdr = None /\ w.here
        BY <1>8, <1>12, <2>1
      <4>6. \A a \in r : a.op = "remove" /\ w.dir = "deleted"
        BY <1>11
      <4>7. QED
        BY ONLY <1>5, <4>1, <4>2, <4>3, <4>4, <4>5, <4>6, FileNoRoom
    <3>3. FileOk(nand, C, nseq, Bits(d), Flagged(d), Soft(d), w, q, f)
      <4>1. FileOk(nand, C, nseq, K, F, Soft(d), w, q, f)
        BY <2>3, <3>2, FileSofter
      <4>2. QED
        BY <2>3, <4>1
    <3>4. \A h \in Files :
             \/ obj[h] = obj[h] /\ Left(z, h) = Left(todo, h)
             \/ FileOk(nand, LogOf(nand, bad), nseq, Bits(d), Flagged(d), Soft(d), obj[h], Left(z, h), h)
      BY <1>6, <1>9, <1>11, <2>4, <3>1, <3>3
    <3>5. MountedScan(nand, nseq, bad, d, obj, z)
      BY ONLY <1>3, <2>3, <3>4, StepKept
    <3>6. QED
      BY <1>13, <2>2, <2>4, <3>5, MountedAgain
  <2>5. CASE w.dir = "root"
    <3>1. PICK x1 : x1 = Op("destroy", f)
      OBVIOUS
    <3>2. x1 \in Ops /\ x1.op = "destroy" /\ x1.file = f
      BY <1>5, <3>1, OpType DEF Steps
    <3>3. PICK s1 : s1 = <<x1>>
      OBVIOUS
    <3>4. PICK z : z = s1 \o t
      OBVIOUS
    <3>5. todo' = z
      BY <1>4, <1>6, <1>8, <1>14, <2>1, <2>5, <3>1, <3>3, <3>4 DEF WriteHeader, Rest
    <3>6. \A h : Left(z, h) = Left(s1, h) \cup Left(t, h)
      <4>1. s1 \in Seq(Ops)
        BY <3>2, <3>3
      <4>2. QED
        BY <1>7, <3>4, <4>1, LeftConcat
    <3>7. Left(s1, f) = {x1} /\ \A h : h # f => Left(s1, h) = {}
      BY <3>2, <3>3, LeftOne
    <3>8. Left(t, f) = {}
      BY <1>10, <1>11, <2>5
    <3>9. Left(z, f) = {x1} /\ \A h \in Files \ {f} : Left(z, h) = Left(t, h)
      BY <3>6, <3>7, <3>8
    <3>10. QED
      BY <2>4, <2>5, <3>2, <3>5, <3>9
  <2>6. CASE w.dir # "root"
    <3>1. todo' = t
      BY <1>4, <1>6, <1>8, <1>14, <2>6 DEF WriteHeader, Rest
    <3>2. QED
      BY <1>10, <2>4, <2>6, <3>1
  <2>7. QED
    BY <2>5, <2>6
<1>15. CASE Fits(d, old # None)
  <2>1. d.alloc # None /\ Erased(d)
    BY <1>4, <1>6, <1>8, <1>15, Zenon DEF Fits, WriteHeader
  <2>2. PICK size : size = IF w.dir = "root" THEN w.size ELSE 0
    OBVIOUS
  <2>3. PICK page : page = Header(f, w.dir, size, x)
    OBVIOUS
  <2>4. /\ page \in PagesOfLog /\ page.file = f /\ page.chunk = 0
        /\ page.dir = w.dir /\ page.size = size /\ page.shrink = x
    <3>1. w.dir \in Dirs /\ w.size \in 0 .. FileChunks /\ 0 \in 0 .. FileChunks
      BY <1>12, ObjectFields, Geometry
    <3>2. size \in 0 .. FileChunks
      BY <2>2, <3>1
    <3>3. QED
      BY <1>5, <2>3, <3>1, <3>2, HeaderType DEF Header
  <2>5. old = None \/ old \in Bits(dev)
    BY <1>8, <1>9, <1>12, OwnInParts
  <2>6. PICK e1, c, m, u : /\ e1 = DeleteChunk(Allocated(d), old) /\ c = NextChunk(d)
                           /\ m = Programmed(nand, d.alloc, page) /\ u = Numbered(nseq, d.alloc, d.seq)
    OBVIOUS
  <2>7. /\ SideOk(m, u, bad, e1) /\ FirstOk(m) /\ Apart(m, u, bad)
        /\ Behind(nand, nseq, bad, m, u, c, page)
        /\ Appended(nand, LogOf(nand, bad), nseq, m, LogOf(m, bad), u, c)
        /\ c # None /\ At(m, c) = page /\ c[1] = d.alloc /\ d.alloc \in Blocks
        /\ Bits(e1) = (Bits(dev) \cup {c}) \ {old} /\ Flagged(e1) = Flagged(dev) /\ Tracks(dev, e1)
        /\ \A a \in LogOf(nand, bad) : a \in Bits(e1) => a \in Bits(dev)
        /\ \A a \in LogOf(nand, bad) : a \in Bits(e1) /\ a \in Bits(dev) /\ a[1] \in Soft(dev) => a[1] \in Soft(e1)
    BY ONLY GutsInv, ScanInv, <1>2, <1>8, <2>1, <2>4, <2>5, <2>6, WriteScan
  <2>8. PICK e : e = IF x THEN [e1 EXCEPT !.blk[d.alloc].shrink = TRUE] ELSE e1
    OBVIOUS
  <2>9. PICK o : o = HeadedOf(obj, f, c)
    OBVIOUS
  <2>10. /\ nand' = m /\ nseq' = u /\ obj' = o /\ todo' = t /\ dev' = e
    <3>1. nand' = m /\ nseq' = u
      BY <1>4, <1>6, <1>8, <1>15, <2>2, <2>3, <2>6, Zenon DEF WriteHeader, Program, Programmed, Numbered
    <3>2. obj' = o /\ todo' = t
      BY <1>4, <1>6, <1>8, <1>15, <2>6, <2>9, Zenon DEF WriteHeader, HeadedOf, Rest
    <3>3. dev' = e
      BY <1>4, <1>6, <1>8, <1>15, <2>6, <2>8, Zenon DEF WriteHeader
    <3>4. QED
      BY <3>1, <3>2, <3>3
  <2>11. c \in Addr
    BY <2>7 DEF Behind
  <2>12. o \in [Files -> Objects] /\ SameFiles(obj, o)
         /\ \A h \in Files, j \in 0 .. FileChunks :
               Own(o, h, j) = IF h = f /\ j = 0 THEN c ELSE Own(obj, h, j)
    BY <1>3, <1>5, <2>9, <2>11, HeadedObject
  <2>13. DevOk(d, obj, nand, None)
    BY <1>3, <1>8, ReadyOk
  <2>14. DevOk(e1, o, m, None)
    <3>1. Moved(obj, o, f, 0, NextChunk(d))
      BY <1>5, <2>6, <2>12 DEF Moved, SameFiles
    <3>2. d.page > Len(nand[d.alloc]) /\ 0 \in 0 .. FileChunks
      BY <2>1, Geometry DEF Erased
    <3>3. /\ m \in Flash /\ DevOk(Allocated(d), o, m, None)
          /\ Own(obj, f, 0) # None => Spare(Allocated(d), o, Own(obj, f, 0))
      BY <1>3, <1>5, <2>1, <2>4, <2>6, <2>12, <2>13, <3>1, <3>2, WrittenOk
    <3>4. Own(obj, f, 0) = old
      BY <1>6, <1>8 DEF Own
    <3>5. CASE old = None
      BY <2>6, <3>3, <3>5 DEF DeleteChunk
    <3>6. CASE old # None
      BY <2>6, <2>12, <3>3, <3>4, <3>6, DeleteOk
    <3>7. QED
      BY <3>5, <3>6
  <2>15. e1 \in Devices /\ e1.blk[d.alloc].state # "dirty"
    <3>1. c \in Bits(e1)
      <4>1. old # c
        BY <1>9, <2>5, <2>7, <1>8, <1>12, OwnInParts DEF Behind
      <4>2. QED
        BY <2>7, <4>1
    <3>2. c[2] \in e1.blk[d.alloc].bits
      BY <2>7, <3>1 DEF Bits
    <3>3. e1 \in Devices /\ BlockOk(e1, o, None, d.alloc)
      BY <2>7, <2>14 DEF DevOk
    <3>4. QED
      BY <3>2, <3>3 DEF BlockOk
  <2>16. PICK L, G, T : L = (K \cup {c}) \ {old} /\ G = Flagged(e) /\ T = Soft(e)
    OBVIOUS
  <2>17. /\ SideOk(m, u, bad, e) /\ Bits(e) = L /\ F \subseteq G /\ (x => c[1] \in G)
         /\ Soft(e) = Soft(e1)
    <3>1. CASE x
      <4>1. e = [e1 EXCEPT !.blk[d.alloc].shrink = TRUE]
        BY <2>8, <3>1
      <4>2. /\ SideOk(m, u, bad, e) /\ Bits(e) = Bits(e1) /\ Flagged(e) = Flagged(e1) \cup {d.alloc}
            /\ Soft(e) = Soft(e1)
        BY <2>7, <2>15, <4>1, MarkedSide
      <4>3. QED
        BY <1>9, <2>7, <2>16, <4>2
    <3>2. CASE ~x
      BY <1>9, <2>7, <2>8, <2>16, <3>2
    <3>3. QED
      BY <3>1, <3>2
  <2>18. Tracks(dev, e) /\ \A a \in LogOf(nand, bad) : a \in Bits(e) => a \in Bits(dev)
    BY <1>9, <2>7, <2>16, <2>17 DEF Tracks
  <2>19. PICK v : v = [w EXCEPT !.hdr = c, !.dirty = FALSE]
    OBVIOUS
  <2>20. o[f] = v /\ \A h \in Files \ {f} : o[h] = obj[h]
    BY <1>3, <1>5, <1>6, <2>9, <2>19 DEF HeadedOf
  <2>21. /\ v.here = w.here /\ v.hdr = c /\ v.deleted = w.deleted /\ v.dir = w.dir
         /\ v.tnode = w.tnode /\ v.nData = w.nData /\ v.size = w.size
    BY <1>12, <2>19 DEF Objects
  <2>22. PICK E : E = LogOf(m, bad)
    OBVIOUS
  <2>23. IsFiniteSet(C) /\ None \notin C
    BY <1>3, <1>9, LogShape
  <2>24. \A a \in C : At(nand, a).file = f => At(nand, a).chunk \in 0 .. FileChunks
    BY <1>3, <1>9, LogShape
  <2>25. /\ At(m, c).file = f /\ At(m, c).chunk = 0 /\ At(m, c).dir = w.dir
         /\ (w.dir = "root" => At(m, c).size = w.size) /\ At(m, c).shrink = y.shrink
    BY <1>4, <2>2, <2>4, <2>7
  <2>26. \A a \in C : a \in L /\ a \in K /\ a[1] \in S => a[1] \in T
    BY <1>9, <2>7, <2>16, <2>17
  <2>27. HeadedFile(nand, C, nseq, m, E, u, c, K, F, S, f, w, r, y, v, L, G, T)
    <3>1. /\ IsFiniteSet(C) /\ Appended(nand, C, nseq, m, E, u, c)
          /\ FileOk(nand, C, nseq, K, F, S, w, r \cup {y}, f) /\ OwnIn(nand, C, K, w, f)
          /\ None \notin C /\ c # None
          /\ w.here /\ w.nData \in Int /\ w.size \in Nat /\ y.op = "header"
          /\ \A z \in r : z.op = "remove" /\ w.dir = "deleted"
      BY <1>5, <1>9, <1>10, <1>11, <1>12, <2>7, <2>22, <2>23
    <3>2. L = (K \cup {c}) \ {w.hdr} /\ F \subseteq G /\ (y.shrink => c[1] \in G)
      BY <1>4, <1>8, <2>16, <2>17
    <3>3. QED
      BY <2>21, <2>24, <2>25, <2>26, <3>1, <3>2 DEF HeadedFile
  <2>28. FileOk(m, E, u, L, G, T, v, r, f)
    BY ONLY <2>27, FileHeaded
  <2>29. \A h \in Files :
           \/ o[h] = obj[h] /\ Left(t, h) = Left(todo, h) /\ page.file # h
           \/ FileOk(m, LogOf(m, bad), u, Bits(e), Flagged(e), Soft(e), o[h], Left(t, h), h)
    BY <1>10, <1>11, <2>4, <2>16, <2>17, <2>20, <2>22, <2>28
  <2>30. MountedScan(m, u, bad, e, o, t)
    <3>1. obj \in [Files -> Objects] /\ nand \in Flash /\ DevOk(dev, obj, nand, None)
      BY <1>3
    <3>2. MountedScan(nand, nseq, bad, dev, obj, todo)
      BY <1>3
    <3>3. SideOk(m, u, bad, e) /\ FirstOk(m) /\ Apart(m, u, bad)
      BY <2>7, <2>17
    <3>4. Behind(nand, nseq, bad, m, u, c, page)
      BY <2>7
    <3>5. QED
      BY ONLY <2>18, <2>29, <3>1, <3>2, <3>3, <3>4, StepGrown
  <2>31. QED
    BY <1>13, <2>10, <2>30, MountedAgain
<1>16. QED
  BY <1>14, <1>15

(* The data of a file is given up: its blocks count it.                    *)
LEMMA SoftDeletedSide ==
  ASSUME NEW d, NEW o \in [Files -> Objects], NEW n \in Flash, NEW g, DevOk(d, o, n, g),
         NEW s, NEW x, SideOk(n, s, x, d), NEW f \in Files,
         NEW e, e = SoftDeleted(d, DataChunks(o, f))
  PROVE  /\ SideOk(n, s, x, e) /\ Bits(e) = Bits(d) /\ Flagged(e) = Flagged(d)
         /\ Soft(d) \subseteq Soft(e)
         /\ \A k \in 1 .. FileChunks : o[f].tnode[k] # None => o[f].tnode[k][1] \in Soft(e)
<1>1. d \in Devices
  BY DEF DevOk
<1>2. PICK C : C = DataChunks(o, f)
  OBVIOUS
<1>3. IsFiniteSet(C) /\ C \subseteq Addr
  <2>1. o[f].tnode \in [1 .. FileChunks -> Addr \cup {None}]
    BY ObjectFields
  <2>2. C \subseteq Addr
    BY <1>2, <2>1 DEF DataChunks
  <2>3. QED
    BY <2>2, AddrFinite, FS_Subset
<1>4. PICK N : N = [b \in Blocks |-> Cardinality(ChunksOf(C, b))]
  OBVIOUS
<1>5. \A b \in Blocks : N[b] = Cardinality(ChunksOf(C, b)) /\ N[b] \in Nat
  BY <1>3, <1>4, PagesCounted
<1>6. \A c \in C : N[c[1]] >= 1
  <2>1. ASSUME NEW c \in C PROVE N[c[1]] >= 1
    <3>1. c[1] \in Blocks /\ c \in ChunksOf(C, c[1])
      BY <1>3, AddrPair DEF ChunksOf
    <3>2. IsFiniteSet(ChunksOf(C, c[1]))
      BY <1>3, <3>1, PagesCounted
    <3>3. Cardinality(ChunksOf(C, c[1])) # 0
      BY <3>1, <3>2, FS_EmptySet
    <3>4. QED
      BY <1>5, <3>1, <3>3
  <2>2. QED
    BY <2>1
<1>7. PICK B : B = [b \in Blocks |-> [d.blk[b] EXCEPT !.softDel = @ + Cardinality({c \in C : c[1] = b})]]
  OBVIOUS
<1>8. e.alloc = d.alloc /\ e.page = d.page /\ e.seq = d.seq /\ e.blk = B
  BY <1>1, <1>2, <1>7 DEF SoftDeleted, Devices
<1>9. ASSUME NEW b \in Blocks
      PROVE  /\ e.blk[b].seq = d.blk[b].seq /\ e.blk[b].state = d.blk[b].state
             /\ e.blk[b].bits = d.blk[b].bits /\ e.blk[b].shrink = d.blk[b].shrink
             /\ e.blk[b].softDel = d.blk[b].softDel + N[b] /\ d.blk[b].softDel \in Nat
  <2>1. d.blk[b] \in BlockInfos
    BY <1>1, DeviceFields
  <2>2. e.blk[b] = [d.blk[b] EXCEPT !.softDel = @ + N[b]]
    BY <1>5, <1>7, <1>8 DEF ChunksOf
  <2>3. QED
    BY <2>1, <2>2 DEF BlockInfos
<1>10. SideOk(n, s, x, e)
  <2>1. d.alloc \in Blocks \cup {None}
    BY <1>1, DeviceFields
  <2>2. QED
    BY <1>8, <1>9, <2>1, SideKept
<1>11. Bits(e) = Bits(d)
  BY <1>9, AddrPair DEF Bits
<1>12. Flagged(e) = Flagged(d)
  BY <1>9 DEF Flagged
<1>13. Soft(d) \subseteq Soft(e)
  <2>1. ASSUME NEW b \in Soft(d) PROVE b \in Soft(e)
    <3>1. b \in Blocks
      BY DEF Soft
    <3>2. d.blk[b].softDel >= 1 => e.blk[b].softDel >= 1
      BY <1>5, <1>9, <3>1
    <3>3. QED
      BY <1>9, <3>1, <3>2 DEF Soft
  <2>2. QED
    BY <2>1
<1>14. ASSUME NEW k \in 1 .. FileChunks, o[f].tnode[k] # None PROVE o[f].tnode[k][1] \in Soft(e)
  <2>1. o[f].tnode[k] \in C
    BY <1>2, <1>14 DEF DataChunks
  <2>2. PICK b \in Blocks : b = o[f].tnode[k][1]
    BY <1>3, <2>1, AddrPair
  <2>3. N[b] >= 1
    BY <1>6, <2>1, <2>2
  <2>4. e.blk[b].softDel >= 1
    BY <1>5, <1>9, <2>2, <2>3
  <2>5. QED
    BY <2>2, <2>4 DEF Soft
<1>15. QED
  BY <1>10, <1>11, <1>12, <1>13, <1>14

(* The steps that yaffs_DoGenericObjectDeletion leaves.                    *)
LEMMA WholeRemoval ==
  ASSUME NEW f \in Files, NEW g, g = <<>> \/ g = <<Gc(1)>>, NEW z, z = DoGenericObjectDeletion(f, g)
  PROVE  /\ z \in Seq(Ops) /\ \A h : h # f => Left(z, h) = {}
         /\ \A x \in Left(z, f) : x.op = "remove" \/ (x.op = "header" /\ x.shrink)
         /\ \E x \in Left(z, f) : x.op = "remove"
         /\ obj[f].dir = "deleted" \/ HeaderPending(Left(z, f))
         /\ \A x \in Left(z, f) : x.op = "header" => x = UpdateObjectHeader(f, TRUE)
<1>1. PICK x, y : x = Op("remove", f) /\ y = UpdateObjectHeader(f, TRUE)
  OBVIOUS
<1>2. x \in Ops /\ x.op = "remove" /\ x.file = f /\ y \in Ops /\ y.op = "header" /\ y.file = f
  BY <1>1, OpType DEF Steps
<1>3. y.shrink
  <2>1. Op("header", f) = [op |-> "header", file |-> f, chunk |-> 0, val |-> Hole, shrink |-> FALSE]
    BY DEF Op
  <2>2. QED
    BY <1>1, <2>1 DEF UpdateObjectHeader
<1>4. CASE obj[f].dir = "deleted"
  <2>1. z = <<x>>
    BY <1>1, <1>4 DEF DoGenericObjectDeletion
  <2>2. Left(z, f) = {x} /\ \A h : h # f => Left(z, h) = {}
    BY <1>2, <2>1, LeftOne
  <2>3. z \in Seq(Ops)
    BY <1>2, <2>1
  <2>4. \A u \in Left(z, f) : u = x
    BY <2>2
  <2>5. QED
    BY <1>2, <1>4, <2>2, <2>3, <2>4
<1>5. CASE obj[f].dir # "deleted"
  <2>1. PICK r : r = <<y, x>>
    OBVIOUS
  <2>2. z = g \o r
    BY <1>1, <1>5, <2>1 DEF DoGenericObjectDeletion
  <2>3. r \in Seq(Ops)
    BY <1>2, <2>1
  <2>4. g \in Seq(Ops) /\ \A h : Left(g, h) = {}
    <3>1. <<>> \in Seq(Ops) /\ \A h : Left(<<>>, h) = {}
      <4>1. <<>> \in Seq(Ops)
        BY EmptySeq
      <4>2. \A h : Left(<<>>, h) = {}
        BY <1>2, LeftOne
      <4>3. QED
        BY <4>1, <4>2
    <3>2. CASE g = <<Gc(1)>>
      <4>1. PICK v : v = Gc(1) /\ v \in Ops /\ v.op = "gc"
        BY GcType
      <4>2. g = <<v>>
        BY <3>2, <4>1
      <4>3. g \in Seq(Ops)
        BY <4>1, <4>2
      <4>4. \A h : Left(g, h) = {}
        <5>1. \A h : Left(<<v>>, h) = {}
          BY <4>1, LeftOne
        <5>2. QED
          BY <4>2, <5>1
      <4>5. QED
        BY <4>3, <4>4
    <3>3. QED
      BY <3>1, <3>2
  <2>5. z \in Seq(Ops) /\ \A h : Left(z, h) = Left(g, h) \cup Left(r, h)
    <3>1. z \in Seq(Ops)
      BY <2>2, <2>3, <2>4, ConcatProperties
    <3>2. QED
      BY <2>2, <2>3, <2>4, <3>1, LeftConcat
  <2>6. \A h : Left(r, h) = {v \in {y, x} : v.op # "gc" /\ v.file = h}
    BY <1>2, <2>1, LeftTwo
  <2>7. Left(z, f) = {y, x} /\ \A h : h # f => Left(z, h) = {}
    BY <1>2, <2>4, <2>5, <2>6
  <2>8. \A u \in Left(z, f) : u = x \/ u = y
    BY <2>7
  <2>9. \A u \in Left(z, f) : u.op = "header" => u = UpdateObjectHeader(f, TRUE)
    BY <1>1, <1>2, <2>8
  <2>10. /\ \A u \in Left(z, f) : u.op = "remove" \/ (u.op = "header" /\ u.shrink)
         /\ \E u \in Left(z, f) : u.op = "remove"
    BY <1>2, <1>3, <2>7
  <2>11. HeaderPending(Left(z, f))
    BY <1>2, <2>7 DEF HeaderPending
  <2>12. QED
    BY <2>5, <2>7, <2>9, <2>10, <2>11
<1>6. QED
  BY <1>4, <1>5

LEMMA LeftRemoval ==
  ASSUME NEW f \in Files, NEW g, g = <<>> \/ g = <<Gc(1)>>, NEW z, z = DoGenericObjectDeletion(f, g)
  PROVE  /\ z \in Seq(Ops) /\ \A h : h # f => Left(z, h) = {}
         /\ \A x \in Left(z, f) : x.op = "remove" \/ (x.op = "header" /\ x.shrink)
         /\ \E x \in Left(z, f) : x.op = "remove"
         /\ obj[f].dir = "deleted" \/ HeaderPending(Left(z, f))
<1>1. QED
  BY WholeRemoval

(* The header that yaffs_DoGenericObjectDeletion writes.                   *)
LEMMA RemovalHeader ==
  ASSUME NEW f \in Files, NEW g, g = <<>> \/ g = <<Gc(1)>>, NEW z, z = DoGenericObjectDeletion(f, g)
  PROVE  /\ z \in Seq(Ops) /\ \A h : h # f => Left(z, h) = {}
         /\ \A x \in Left(z, f) : x.op = "header" => x = UpdateObjectHeader(f, TRUE)
<1>1. QED
  BY WholeRemoval

(* yaffs_DeleteFile                                                        *)
LEMMA DeleteFileScan ==
  ASSUME GutsInv, ScanInv, DeleteFile
  PROVE  ScanInv'
<1>1. Doing("destroy")
  BY DEF DeleteFile
<1>2. mounted /\ todo # <<>> /\ Head(todo).op = "destroy" /\ gcBlock = None
  BY <1>1, DoingFacts
<1>3. /\ nand \in Flash /\ nseq \in [Blocks -> Nat] /\ obj \in [Files -> Objects] /\ todo \in Seq(Ops)
      /\ DevOk(dev, obj, nand, None) /\ TodoOk(todo, obj, None)
      /\ MountedScan(nand, nseq, bad, dev, obj, todo)
      /\ \A f \in Files : /\ OwnIn(nand, LogOf(nand, bad), Bits(dev), obj[f], f)
                          /\ obj[f].nData \in Int /\ obj[f].size \in Nat
  BY <1>2, ScanFacts
<1>4. PICK y, f, w, t : y = Head(todo) /\ f = y.file /\ w = obj[f] /\ t = Tail(todo)
  OBVIOUS
<1>5. f \in Files /\ w.here /\ y.op = "destroy" /\ t \in Seq(Ops)
  BY <1>2, <1>3, <1>4, HeadOk
<1>6. PICK C, K, F, S, p : /\ C = LogOf(nand, bad) /\ K = Bits(dev) /\ F = Flagged(dev) /\ S = Soft(dev)
                           /\ p = {y}
  OBVIOUS
<1>7. Left(t, f) = {} /\ Left(todo, f) = p /\ \A h : h # f => Left(todo, h) = Left(t, h)
  <2>1. /\ Left(todo, f) = Left(t, f) \cup {y} /\ \A h : h # f => Left(todo, h) = Left(t, h)
        /\ Left(t, f) = {}
    BY <1>2, <1>3, <1>4, LeftRest
  <2>2. QED
    BY <1>6, <2>1
<1>8. /\ FileOk(nand, C, nseq, K, F, S, w, p, f) /\ OwnIn(nand, C, K, w, f)
      /\ w.nData \in Int /\ w \in Objects
  BY <1>3, <1>4, <1>5, <1>6, <1>7 DEF MountedScan
<1>9. ~HeaderPending(p)
  BY <1>5, <1>6 DEF HeaderPending
<1>10. w.hdr = None \/ w.dir # "root"
  BY <1>5, <1>6, <1>8 DEF FileOk, CallOk
<1>11. IsFiniteSet(C)
  BY <1>3, <1>6, LogShape
<1>12. \A c \in C : At(nand, c).file = f => At(nand, c).chunk \in 0 .. FileChunks
  BY <1>3, <1>6, LogShape
<1>13. SideOk(nand, nseq, bad, dev)
  BY <1>3 DEF MountedScan
<1>14. mounted' /\ nand' = nand /\ nseq' = nseq /\ bad' = bad
  BY <1>2 DEF DeleteFile
<1>15. CASE w.nData > 0
  <2>1. PICK v : v = [w EXCEPT !.deleted = TRUE, !.tnode = NoObject.tnode]
    OBVIOUS
  <2>2. PICK o, e : o = [obj EXCEPT ![f] = v] /\ e = SoftDeleted(dev, DataChunks(obj, f))
    OBVIOUS
  <2>3. obj' = o
    <3>1. obj' = [obj EXCEPT ![f].deleted = TRUE, ![f].tnode = NoObject.tnode]
      BY <1>4, <1>15 DEF DeleteFile
    <3>2. QED
      BY <1>3, <1>4, <1>5, <2>1, <2>2, <3>1
  <2>4. dev' = e
    BY <1>4, <1>15, <2>2 DEF DeleteFile, DataChunks
  <2>5. todo' = t
    BY <1>4, <1>15 DEF DeleteFile, Rest
  <2>6. o[f] = v /\ \A h \in Files \ {f} : o[h] = obj[h]
    BY <1>3, <1>5, <2>2
  <2>7. /\ v.here = w.here /\ v.hdr = w.hdr /\ v.nData = w.nData /\ v.dir = w.dir /\ v.size = w.size
        /\ v.deleted /\ \A k \in 1 .. FileChunks : v.tnode[k] = None
    BY <1>8, <2>1, NoObjectType DEF Objects
  <2>8. /\ SideOk(nand, nseq, bad, e) /\ Bits(e) = Bits(dev) /\ Flagged(e) = Flagged(dev)
        /\ Soft(dev) \subseteq Soft(e)
        /\ \A k \in 1 .. FileChunks : w.tnode[k] # None => w.tnode[k][1] \in Soft(e)
    BY <1>3, <1>4, <1>5, <1>13, <2>2, SoftDeletedSide
  <2>9. PICK T : T = Soft(e)
    OBVIOUS
  <2>10. FileOk(nand, C, nseq, K, F, T, v, {}, f)
    <3>1. \A c \in C : c \in K /\ c[1] \in S => c[1] \in T
      BY <1>6, <2>8, <2>9
    <3>2. \A k \in 1 .. FileChunks : w.tnode[k] # None => w.tnode[k][1] \in T
      BY <2>8, <2>9
    <3>3. w.nData # 0
      BY <1>15
    <3>4. QED
      BY ONLY <1>5, <1>8, <1>9, <1>10, <1>11, <1>12, <2>7, <3>1, <3>2, <3>3, FileSoftDeleted
  <2>11. \A h \in Files :
           \/ o[h] = obj[h] /\ Left(t, h) = Left(todo, h)
           \/ FileOk(nand, LogOf(nand, bad), nseq, Bits(e), Flagged(e), Soft(e), o[h], Left(t, h), h)
    BY <1>6, <1>7, <2>6, <2>8, <2>9, <2>10
  <2>12. (\A c \in LogOf(nand, bad) : c \in Bits(e) => c \in Bits(dev)) /\ Tracks(dev, e)
    BY <2>8 DEF Tracks
  <2>13. MountedScan(nand, nseq, bad, e, o, t)
    BY ONLY <1>3, <2>8, <2>11, <2>12, StepKept
  <2>14. QED
    BY <1>14, <2>3, <2>4, <2>5, <2>13, MountedAgain
<1>16. CASE ~(w.nData > 0)
  <2>1. PICK v : v = [w EXCEPT !.dir = "deleted"]
    OBVIOUS
  <2>2. PICK o, r : o = [obj EXCEPT ![f] = v] /\ r = DoGenericObjectDeletion(f, <<Gc(1)>>)
    OBVIOUS
  <2>3. PICK z : z = r \o t
    OBVIOUS
  <2>4. obj' = o /\ todo' = z /\ dev' = dev
    <3>1. obj' = [obj EXCEPT ![f].dir = "deleted"]
      BY <1>4, <1>16 DEF DeleteFile
    <3>2. obj' = o
      BY <1>3, <1>4, <1>5, <2>1, <2>2, <3>1
    <3>3. todo' = z /\ dev' = dev
      BY <1>4, <1>16, <2>2, <2>3 DEF DeleteFile, Rest
    <3>4. QED
      BY <3>2, <3>3
  <2>5. o[f] = v /\ \A h \in Files \ {f} : o[h] = obj[h]
    BY <1>3, <1>5, <2>2
  <2>6. SameUse(w, v) /\ v.dir = "deleted"
    BY <1>8, <2>1 DEF SameUse, Objects
  <2>7. PICK q : q = Left(r, f)
    OBVIOUS
  <2>8. /\ r \in Seq(Ops) /\ \A h : h # f => Left(r, h) = {}
        /\ \A x \in q : x.op = "remove" \/ (x.op = "header" /\ x.shrink)
        /\ \E x \in q : x.op = "remove"
        /\ w.dir = "deleted" \/ HeaderPending(q)
    <3>1. PICK g : g = <<Gc(1)>>
      OBVIOUS
    <3>2. f \in Files /\ r = DoGenericObjectDeletion(f, g) /\ g = <<Gc(1)>>
      BY <1>5, <2>2, <3>1
    <3>3. /\ r \in Seq(Ops) /\ \A h : h # f => Left(r, h) = {}
          /\ \A x \in Left(r, f) : x.op = "remove" \/ (x.op = "header" /\ x.shrink)
          /\ \E x \in Left(r, f) : x.op = "remove"
          /\ obj[f].dir = "deleted" \/ HeaderPending(Left(r, f))
      BY ONLY <3>2, LeftRemoval
    <3>4. QED
      BY <1>4, <2>7, <3>3
  <2>9. \A h : Left(z, h) = Left(r, h) \cup Left(t, h)
    BY <1>5, <2>3, <2>8, LeftConcat
  <2>10. Left(z, f) = q /\ \A h : h # f => Left(z, h) = Left(todo, h)
    BY <1>7, <2>7, <2>8, <2>9
  <2>11. FileOk(nand, C, nseq, K, F, S, v, q, f)
    <3>1. w.nData <= 0
      BY <1>8, <1>16
    <3>2. \A x \in q : x.op = "remove" \/ (x.op = "header" /\ x.shrink)
      BY <2>8
    <3>3. \E x \in q : x.op = "remove"
      BY <2>8
    <3>4. w.dir = "deleted" \/ HeaderPending(q)
      BY <2>8
    <3>5. QED
      BY ONLY <1>5, <1>8, <1>9, <1>10, <1>11, <2>6, <3>1, <3>2, <3>3, <3>4, FileBuried
  <2>12. \A h \in Files :
           \/ o[h] = obj[h] /\ Left(z, h) = Left(todo, h)
           \/ FileOk(nand, LogOf(nand, bad), nseq, Bits(dev), Flagged(dev), Soft(dev), o[h], Left(z, h), h)
    BY <1>6, <2>5, <2>10, <2>11
  <2>13. (\A c \in LogOf(nand, bad) : c \in Bits(dev) => c \in Bits(dev)) /\ Tracks(dev, dev)
    BY DEF Tracks
  <2>14. MountedScan(nand, nseq, bad, dev, o, z)
    BY ONLY <1>3, <1>13, <2>12, <2>13, StepKept
  <2>15. QED
    BY <1>14, <2>4, <2>14, MountedAgain
<1>17. QED
  BY <1>15, <1>16

(* The cleanups at the end of a collection.                                *)
LEMMA LeftStrung ==
  ASSUME NEW S \in SUBSET Files, NEW t \in Seq(Ops),
         NEW D, \A f \in S : D[f] = DoGenericObjectDeletion(f, <<>>), NEW it, Strung(D, t, S, it)
  PROVE  it[S] \in Seq(Ops)
         /\ \A h : Left(it[S], h) = (IF h \in S THEN Left(D[h], h) ELSE {}) \cup Left(t, h)
<1> DEFINE G == {s \in SUBSET S :
                   /\ it[s] \in Seq(Ops)
                   /\ \A h : Left(it[s], h) = (IF h \in s THEN Left(D[h], h) ELSE {}) \cup Left(t, h)}
<1>1. IsFiniteSet(S)
  BY Geometry, FS_Subset
<1>2. \A f \in S : D[f] \in Seq(Ops) /\ \A h : h # f => Left(D[f], h) = {}
  <2>1. ASSUME NEW f \in S PROVE D[f] \in Seq(Ops) /\ \A h : h # f => Left(D[f], h) = {}
    <3>1. f \in Files /\ D[f] = DoGenericObjectDeletion(f, <<>>)
      OBVIOUS
    <3>2. QED
      BY <3>1, LeftRemoval
  <2>2. QED
    BY <2>1
<1>3. ASSUME NEW s \in SUBSET S, \A x \in s : s \ {x} \in G PROVE s \in G
  <2>1. CASE s = {}
    <3>1. it[s] = t
      BY <2>1 DEF Strung
    <3>2. QED
      BY <2>1, <3>1
  <2>2. CASE s # {}
    <3>1. PICK f \in s : f = Chosen(s)
      BY <2>2, ChosenIn
    <3>2. PICK r, y : r = it[s \ {f}] /\ y = D[f]
      OBVIOUS
    <3>3. PICK z : z = it[s]
      OBVIOUS
    <3>4. z = y \o r
      BY <2>2, <3>1, <3>2, <3>3 DEF Strung
    <3>5. s \ {f} \in G
      BY <1>3
    <3>6. r \in Seq(Ops)
          /\ \A h : Left(r, h) = (IF h \in s \ {f} THEN Left(D[h], h) ELSE {}) \cup Left(t, h)
      BY <3>2, <3>5
    <3>7. f \in S /\ y \in Seq(Ops) /\ \A h : h # f => Left(y, h) = {}
      BY <1>2, <3>2
    <3>8. z \in Seq(Ops)
      BY <3>4, <3>6, <3>7, ConcatProperties
    <3>9. \A h : Left(z, h) = Left(y, h) \cup Left(r, h)
      BY <3>4, <3>6, <3>7, LeftConcat
    <3>10. ASSUME NEW h PROVE Left(z, h) = (IF h \in s THEN Left(D[h], h) ELSE {}) \cup Left(t, h)
      <4>1. CASE h = f
        BY <3>2, <3>6, <3>9, <4>1
      <4>2. CASE h # f
        BY <3>6, <3>7, <3>9, <4>2
      <4>3. QED
        BY <4>1, <4>2
    <3>11. QED
      BY <3>3, <3>8, <3>10
  <2>3. QED
    BY <2>1, <2>2
<1> HIDE DEF G
<1>4. \A s \in SUBSET S : s \in G
  BY <1>1, <1>3, SubsetInduction
<1>5. QED
  BY <1>4 DEF G

LEMMA GcCleanupScan ==
  ASSUME GutsInv, ScanInv, GcCleanup
  PROVE  ScanInv'
<1>1. mounted /\ gcBlock # None
  BY Zenon DEF GcCleanup, Quiet
<1>2. /\ nand \in Flash /\ nseq \in [Blocks -> Nat] /\ obj \in [Files -> Objects] /\ todo \in Seq(Ops)
      /\ DevOk(dev, obj, nand, gcBlock) /\ TodoOk(todo, obj, gcBlock)
      /\ MountedScan(nand, nseq, bad, dev, obj, todo)
      /\ \A f \in Files : /\ OwnIn(nand, LogOf(nand, bad), Bits(dev), obj[f], f)
                          /\ obj[f].nData \in Int /\ obj[f].size \in Nat
  BY <1>1, ScanFacts
<1>3. mounted' /\ nand' = nand /\ nseq' = nseq /\ bad' = bad /\ dev' = dev
  BY <1>1, Zenon DEF GcCleanup
<1>4. PICK S : S = {f \in Files : obj[f].here /\ obj[f].deleted /\ obj[f].nData = 0}
  OBVIOUS
<1>5. PICK o : o = [f \in Files |-> IF f \in S THEN [obj[f] EXCEPT !.dir = "deleted"] ELSE obj[f]]
  OBVIOUS
<1>6. obj' = o
  BY <1>4, <1>5, Zenon DEF GcCleanup
<1>7. PICK D, it : /\ \A f \in S : D[f] = DoGenericObjectDeletion(f, <<>>)
                   /\ Strung(D, todo, S, it) /\ todo' = it[S]
  BY <1>2, <1>4, CleanupStrung
<1>8. PICK z, t : z = it[S] /\ t = todo
  OBVIOUS
<1>9. \A h : Left(z, h) = (IF h \in S THEN Left(D[h], h) ELSE {}) \cup Left(t, h)
  <2>1. S \in SUBSET Files
    BY <1>4
  <2>2. t \in Seq(Ops) /\ Strung(D, t, S, it) /\ \A f \in S : D[f] = DoGenericObjectDeletion(f, <<>>)
    BY <1>2, <1>7, <1>8
  <2>3. \A h : Left(it[S], h) = (IF h \in S THEN Left(D[h], h) ELSE {}) \cup Left(t, h)
    BY ONLY <2>1, <2>2, LeftStrung
  <2>4. QED
    BY <1>8, <2>3
<1>10. PICK C, K, F, T : C = LogOf(nand, bad) /\ K = Bits(dev) /\ F = Flagged(dev) /\ T = Soft(dev)
  OBVIOUS
<1>11. IsFiniteSet(C)
  BY <1>2, <1>10, LogShape
<1>12. ASSUME NEW f \in S PROVE FileOk(nand, C, nseq, K, F, T, o[f], Left(z, f), f)
  <2>1. PICK w, p, v, q : w = obj[f] /\ p = Left(t, f) /\ v = o[f] /\ q = Left(z, f)
    OBVIOUS
  <2>2. f \in Files /\ w.here /\ w.deleted /\ w.nData = 0 /\ w \in Objects
    BY <1>2, <1>4, <2>1
  <2>3. p = {}
    <3>1. ASSUME NEW i \in DOMAIN t, t[i].op # "gc", t[i].file = f PROVE FALSE
      BY <1>1, <1>2, <1>8, <2>1, <2>2, <3>1, StepOk DEF On
    <3>2. QED
      BY <2>1, <3>1 DEF Left
  <2>4. FileOk(nand, C, nseq, K, F, T, w, p, f) /\ OwnIn(nand, C, K, w, f)
    BY <1>2, <1>8, <1>10, <2>1, <2>2 DEF MountedScan
  <2>5. w.dir # "root"
    BY <2>2, <2>4 DEF FileOk, ObjectOk
  <2>6. v = [w EXCEPT !.dir = "deleted"]
    BY <1>5, <2>1, <2>2
  <2>7. SameUse(w, v) /\ v.dir = "deleted"
    BY <2>2, <2>6 DEF SameUse, Objects
  <2>8. q = Left(D[f], f)
    BY <1>9, <2>1, <2>3
  <2>9. /\ \A x \in q : x.op = "remove" \/ (x.op = "header" /\ x.shrink)
        /\ \E x \in q : x.op = "remove"
        /\ w.dir = "deleted" \/ HeaderPending(q)
    <3>1. D[f] = DoGenericObjectDeletion(f, <<>>)
      BY <1>7
    <3>2. QED
      BY <2>1, <2>2, <2>8, <3>1, LeftRemoval
  <2>10. FileOk(nand, C, nseq, K, F, T, v, q, f)
    <3>1. ~HeaderPending(p)
      BY <2>3 DEF HeaderPending
    <3>2. w.nData \in Int /\ w.nData <= 0 /\ w.here
      BY <2>2
    <3>3. w.hdr = None \/ w.dir # "root"
      BY <2>5
    <3>4. \A x \in q : x.op = "remove" \/ (x.op = "header" /\ x.shrink)
      BY <2>9
    <3>5. \E x \in q : x.op = "remove"
      BY <2>9
    <3>6. w.dir = "deleted" \/ HeaderPending(q)
      BY <2>9
    <3>7. QED
      BY ONLY <1>11, <2>4, <2>7, <3>1, <3>2, <3>3, <3>4, <3>5, <3>6, FileBuried
  <2>11. QED
    BY <2>1, <2>10
<1>13. \A h \in Files :
         \/ o[h] = obj[h] /\ Left(z, h) = Left(t, h)
         \/ FileOk(nand, LogOf(nand, bad), nseq, Bits(dev), Flagged(dev), Soft(dev), o[h], Left(z, h), h)
  <2>1. ASSUME NEW h \in Files, h \notin S PROVE o[h] = obj[h] /\ Left(z, h) = Left(t, h)
    BY <1>5, <1>9, <2>1
  <2>2. QED
    BY <1>10, <1>12, <2>1
<1>14. (\A c \in LogOf(nand, bad) : c \in Bits(dev) => c \in Bits(dev)) /\ Tracks(dev, dev)
  BY DEF Tracks
<1>15. MountedScan(nand, nseq, bad, dev, o, z)
  <2>1. MountedScan(nand, nseq, bad, dev, obj, t) /\ SideOk(nand, nseq, bad, dev)
    BY <1>2, <1>8 DEF MountedScan
  <2>2. QED
    BY ONLY <1>2, <1>13, <1>14, <2>1, StepKept
<1>16. QED
  BY <1>3, <1>6, <1>7, <1>8, <1>15, MountedAgain

(* A block is erased, or lost.                                             *)
Emptied(d, e, b, n, m, x, z) ==
  /\ e.alloc = d.alloc /\ e.page = d.page /\ e.seq = d.seq
  /\ \A y \in Blocks \ {b} : e.blk[y] = d.blk[y] /\ m[y] = n[y]
  /\ e.blk[b].bits = {} /\ ~e.blk[b].shrink
  /\ \/ e.blk[b].state = "empty" /\ z = x /\ m[b] = <<>>
     \/ e.blk[b].state = "dead" /\ z = x \cup {b} /\ m[b] = n[b]

LEMMA EmptiedSide ==
  ASSUME NEW d, NEW o \in [Files -> Objects], NEW n \in Flash, NEW g, DevOk(d, o, n, g),
         NEW s, NEW x, SideOk(n, s, x, d), FirstOk(n), Apart(n, s, x),
         NEW b \in Blocks, d.blk[b].state = "dirty",
         NEW e, NEW m, NEW z, Emptied(d, e, b, n, m, x, z)
  PROVE  /\ SideOk(m, s, z, e) /\ FirstOk(m) /\ Apart(m, s, z)
         /\ Bits(e) = Bits(d) /\ Flagged(e) = Flagged(d) /\ b \notin Flagged(d)
         /\ \A c \in Bits(d) : c[1] # b
         /\ \A y \in Blocks \ {b} : y \in Soft(d) => y \in Soft(e)
<1>1. d.alloc # b
  BY Distinct DEF DevOk, AllocOk
<1>2. d.blk[b].bits = {}
  BY DEF DevOk, BlockOk
<1>3. b \notin x /\ ~d.blk[b].shrink
  BY DEF SideOk, BlockSide
<1>4. ASSUME NEW y \in Blocks PROVE BlockSide(m, s, z, e, y)
  <2>1. BlockSide(n, s, x, d, y)
    BY DEF SideOk
  <2>2. CASE y = b
    <3>1. CASE e.blk[b].state = "empty"
      <4>1. z = x /\ m[b] = <<>>
        BY <3>1 DEF Emptied
      <4>2. QED
        BY <1>3, <2>2, <3>1, <4>1 DEF BlockSide
    <3>2. CASE e.blk[b].state = "dead"
      <4>1. z = x \cup {b}
        BY <3>2 DEF Emptied
      <4>2. QED
        BY <2>2, <3>2, <4>1 DEF BlockSide
    <3>3. QED
      BY <3>1, <3>2 DEF Emptied
  <2>3. CASE y # b
    <3>1. e.blk[y] = d.blk[y] /\ m[y] = n[y] /\ e.alloc = d.alloc /\ e.seq = d.seq
      BY <2>3 DEF Emptied
    <3>2. y \in z <=> y \in x
      BY <2>3 DEF Emptied
    <3>3. QED
      BY <2>1, <3>1, <3>2 DEF BlockSide
  <2>4. QED
    BY <2>2, <2>3
<1>5. SideOk(m, s, z, e)
  <2>1. ASSUME e.alloc # None
        PROVE  /\ e.blk[e.alloc].seq = e.seq
               /\ \A p \in Pages : p >= e.page /\ p <= Len(m[e.alloc]) => m[e.alloc][p] = Torn
    <3>1. e.alloc = d.alloc /\ e.page = d.page /\ e.seq = d.seq
      BY DEF Emptied
    <3>2. d.alloc \in Blocks \ {b}
      BY <1>1, <2>1, <3>1 DEF DevOk, Devices
    <3>3. e.blk[d.alloc] = d.blk[d.alloc] /\ m[d.alloc] = n[d.alloc]
      BY <3>2 DEF Emptied
    <3>4. QED
      BY <2>1, <3>1, <3>3 DEF SideOk
  <2>2. QED
    BY <1>4, <2>1 DEF SideOk
<1>6. FirstOk(m)
  BY DEF FirstOk, Emptied
<1>7. Apart(m, s, z)
  <2>1. ASSUME NEW a \in Blocks \ z, NEW y \in Blocks \ z, m[a] # <<>>, m[y] # <<>>, a # y PROVE s[a] # s[y]
    <3>1. a \notin x /\ y \notin x /\ a # b /\ y # b
      BY <2>1, <1>3 DEF Emptied
    <3>2. n[a] # <<>> /\ n[y] # <<>>
      BY <2>1, <3>1 DEF Emptied
    <3>3. QED
      BY <2>1, <3>1, <3>2 DEF Apart
  <2>2. QED
    BY <2>1 DEF Apart
<1>8. \A y \in Blocks : e.blk[y].bits = d.blk[y].bits
  <2>1. ASSUME NEW y \in Blocks PROVE e.blk[y].bits = d.blk[y].bits
    <3>1. CASE y = b
      BY <1>2, <3>1 DEF Emptied
    <3>2. CASE y # b
      BY <3>2 DEF Emptied
    <3>3. QED
      BY <3>1, <3>2
  <2>2. QED
    BY <2>1
<1>9. \A y \in Blocks : e.blk[y].shrink <=> d.blk[y].shrink
  <2>1. ASSUME NEW y \in Blocks PROVE e.blk[y].shrink <=> d.blk[y].shrink
    <3>1. CASE y = b
      BY <1>3, <3>1 DEF Emptied
    <3>2. CASE y # b
      BY <3>2 DEF Emptied
    <3>3. QED
      BY <3>1, <3>2
  <2>2. QED
    BY <2>1
<1>10. Bits(e) = Bits(d)
  BY <1>8, AddrPair DEF Bits
<1>11. Flagged(e) = Flagged(d)
  BY <1>9 DEF Flagged
<1>12. b \notin Flagged(d) /\ \A c \in Bits(d) : c[1] # b
  BY <1>2, <1>3 DEF Flagged, Bits
<1>13. \A y \in Blocks \ {b} : y \in Soft(d) => y \in Soft(e)
  BY DEF Emptied, Soft
<1>14. QED
  BY <1>5, <1>6, <1>7, <1>10, <1>11, <1>12, <1>13

LEMMA EmptiedScan ==
  ASSUME NEW d, NEW o \in [Files -> Objects], NEW n \in Flash, NEW g, DevOk(d, o, n, g),
         NEW s, NEW x, NEW t, MountedScan(n, s, x, d, o, t),
         \A f \in Files : OwnIn(n, LogOf(n, x), Bits(d), o[f], f),
         NEW b \in Blocks, d.blk[b].state = "dirty",
         NEW e, NEW m, NEW z, Emptied(d, e, b, n, m, x, z),
         \A c : c \in LogOf(m, z) <=> c \in LogOf(n, x) /\ c[1] # b, \A c \in LogOf(m, z) : At(m, c) = At(n, c)
  PROVE  MountedScan(m, s, z, e, o, t)
<1>1. /\ SideOk(m, s, z, e) /\ FirstOk(m) /\ Apart(m, s, z)
      /\ Bits(e) = Bits(d) /\ Flagged(e) = Flagged(d) /\ b \notin Flagged(d)
      /\ \A c \in Bits(d) : c[1] # b
      /\ \A y \in Blocks \ {b} : y \in Soft(d) => y \in Soft(e)
  <2>1. SideOk(n, s, x, d) /\ FirstOk(n) /\ Apart(n, s, x)
    BY DEF MountedScan
  <2>2. QED
    BY <2>1, EmptiedSide
<1>2. PICK C, E, K, F, S, T : C = LogOf(n, x) /\ E = LogOf(m, z) /\ K = Bits(d) /\ F = Flagged(d)
                              /\ S = Soft(d) /\ T = Soft(e)
  OBVIOUS
<1>3. IsFiniteSet(C) /\ C \subseteq Addr /\ \A c \in C : At(n, c).chunk \in 0 .. FileChunks
  BY <1>2, LogShape
<1>4. E \subseteq C /\ \A c \in E : At(m, c) = At(n, c)
  BY <1>2
<1>5. \A c \in C : c \in E <=> c[1] # b
  BY <1>2
<1>6. ASSUME NEW f \in Files PROVE FileOk(m, E, s, K, F, T, o[f], Left(t, f), f)
  <2>1. PICK w, q : w = o[f] /\ q = Left(t, f)
    OBVIOUS
  <2>2. FileOk(n, C, s, K, F, S, w, q, f) /\ OwnIn(n, C, K, w, f) /\ w.nData \in Int
    BY <1>2, <2>1 DEF MountedScan, Objects
  <2>3. \A c \in C : At(n, c).file = f => At(n, c).chunk \in 0 .. FileChunks
    BY <1>3
  <2>4. \A k \in 0 .. FileChunks : OwnOf(w, k) # None => OwnOf(w, k) \in E
    <3>1. \A k \in 0 .. FileChunks : OwnOf(w, k) # None => OwnOf(w, k) \in C /\ OwnOf(w, k) \in K
      BY <2>2 DEF OwnIn
    <3>2. \A c \in K : c[1] # b
      BY <1>1, <1>2
    <3>3. QED
      BY <1>5, <3>1, <3>2
  <2>5. \A c \in E : At(n, c).file = f /\ c \in K => c \in K
    OBVIOUS
  <2>6. \A c \in E : c \in K /\ c \in K /\ c[1] \in S => c[1] \in T
    <3>1. \A c \in E : c[1] \in Blocks \ {b}
      BY <1>3, <1>4, <1>5, AddrPair
    <3>2. QED
      BY <1>1, <1>2, <3>1
  <2>7. \A h \in C, a \in E : At(n, a).file = f /\ OwnOf(w, At(n, a).chunk) # a
                              /\ Guard(s, F, h, a) => h \in E /\ Guard(s, F, h, a)
    <3>1. ASSUME NEW h \in C, NEW a \in E, Guard(s, F, h, a) PROVE h \in E
      <4>1. h[1] \in F \/ h[1] = a[1]
        BY <3>1 DEF Guard
      <4>2. h[1] # b
        BY <1>1, <1>2, <1>4, <1>5, <4>1
      <4>3. QED
        BY <1>5, <4>2
    <3>2. QED
      BY <3>1
  <2>8. FileOk(m, E, s, K, F, T, w, q, f)
    BY ONLY <1>3, <1>4, <2>2, <2>3, <2>4, <2>5, <2>6, <2>7, f \in Files, FileWeaker
  <2>9. QED
    BY <2>1, <2>8
<1>7. QED
  BY <1>1, <1>2, <1>6 DEF MountedScan

LEMMA BlockBecameDirtyScan ==
  ASSUME GutsInv, ScanInv, BlockBecameDirty
  PROVE  ScanInv'
<1>1. mounted /\ mounted'
  BY DEF BlockBecameDirty
<1>2. /\ nand \in Flash /\ nseq \in [Blocks -> Nat] /\ obj \in [Files -> Objects]
      /\ DevOk(dev, obj, nand, gcBlock) /\ MountedScan(nand, nseq, bad, dev, obj, todo)
      /\ \A f \in Files : OwnIn(nand, LogOf(nand, bad), Bits(dev), obj[f], f)
  BY <1>1, ScanFacts
<1>3. nseq' = nseq /\ obj' = obj /\ todo' = todo
  BY DEF BlockBecameDirty
<1>4. dev \in Devices
  BY <1>2 DEF DevOk
<1>5. PICK b \in Blocks :
        /\ dev.blk[b].state = "dirty"
        /\ \/ /\ nand' = [nand EXCEPT ![b] = <<>>]
              /\ dev' = [dev EXCEPT !.erased = @ + 1,
                                   !.blk[b] = [@ EXCEPT !.state = "empty", !.pagesInUse = 0,
                                               !.bits = {}, !.softDel = 0, !.shrink = FALSE]]
              /\ bad' = bad
           \/ /\ bad' = bad \cup {b}
              /\ dev' = [dev EXCEPT !.free = @ - ChunksPerBlock,
                                   !.blk[b] = [@ EXCEPT !.state = "dead", !.retire = FALSE]]
              /\ nand' = nand
  BY Zenon DEF BlockBecameDirty, InState
<1>6. dev.blk[b].bits = {} /\ ~dev.blk[b].shrink
  <2>1. SideOk(nand, nseq, bad, dev)
    BY <1>2 DEF MountedScan
  <2>2. QED
    BY <1>2, <1>5, <2>1 DEF SideOk, BlockSide, DevOk, BlockOk
<1>7. CASE nand' = [nand EXCEPT ![b] = <<>>]
           /\ dev' = [dev EXCEPT !.erased = @ + 1,
                                 !.blk[b] = [@ EXCEPT !.state = "empty", !.pagesInUse = 0,
                                             !.bits = {}, !.softDel = 0, !.shrink = FALSE]]
           /\ bad' = bad
  <2>1. PICK m, e : /\ m = [nand EXCEPT ![b] = <<>>]
                    /\ e = [dev EXCEPT !.erased = @ + 1,
                                 !.blk[b] = [@ EXCEPT !.state = "empty", !.pagesInUse = 0,
                                             !.bits = {}, !.softDel = 0, !.shrink = FALSE]]
    OBVIOUS
  <2>2. nand' = m /\ dev' = e
    BY <1>7, <2>1
  <2>3. /\ \A c : c \in LogOf(m, bad) <=> c \in LogOf(nand, bad) /\ c[1] # b
        /\ \A c \in LogOf(m, bad) : At(m, c) = At(nand, c)
        /\ m[b] = <<>> /\ \A a \in Blocks \ {b} : m[a] = nand[a]
    <3>1. \A a \in Blocks : m[a] = IF a = b THEN <<>> ELSE nand[a]
      BY <1>2, <2>1 DEF Flash
    <3>2. \A c \in Addr : c[1] \in Blocks /\ c[2] \in Pages
      BY AddrPair
    <3>3. Len(<<>>) = 0 /\ \A p \in Pages : ~(p <= 0)
      BY Geometry DEF Pages
    <3>4. ASSUME NEW c \in Addr
          PROVE  /\ c \in LogOf(m, bad) <=> c \in LogOf(nand, bad) /\ c[1] # b
                 /\ c[1] # b => At(m, c) = At(nand, c)
      <4>1. CASE c[1] = b
        BY <3>1, <3>2, <3>3, <4>1 DEF LogOf
      <4>2. CASE c[1] # b
        BY <3>1, <3>2, <4>2 DEF LogOf, At
      <4>3. QED
        BY <4>1, <4>2
    <3>5. LogOf(m, bad) \subseteq Addr /\ LogOf(nand, bad) \subseteq Addr
      BY DEF LogOf
    <3>6. QED
      BY <3>1, <3>4, <3>5
  <2>4. e.alloc = dev.alloc /\ e.page = dev.page /\ e.seq = dev.seq
    BY <1>4, <2>1 DEF Devices
  <2>5. (\A y \in Blocks \ {b} : e.blk[y] = dev.blk[y])
        /\ e.blk[b] = [dev.blk[b] EXCEPT !.state = "empty", !.pagesInUse = 0,
                                         !.bits = {}, !.softDel = 0, !.shrink = FALSE]
    BY <1>4, <2>1 DEF Devices
  <2>6. e.blk[b].bits = {} /\ ~e.blk[b].shrink /\ e.blk[b].state = "empty"
    <3>1. dev.blk[b] \in BlockInfos
      BY <1>4 DEF Devices
    <3>2. QED
      BY <2>5, <3>1 DEF BlockInfos
  <2>7. Emptied(dev, e, b, nand, m, bad, bad)
    BY <2>3, <2>4, <2>5, <2>6 DEF Emptied
  <2>8. MountedScan(m, nseq, bad, e, obj, todo)
    BY <1>2, <1>5, <2>3, <2>7, EmptiedScan
  <2>9. QED
    BY <1>1, <1>3, <1>7, <2>2, <2>8, MountedAgain
<1>8. CASE bad' = bad \cup {b}
           /\ dev' = [dev EXCEPT !.free = @ - ChunksPerBlock,
                                 !.blk[b] = [@ EXCEPT !.state = "dead", !.retire = FALSE]]
           /\ nand' = nand
  <2>1. PICK z, e : /\ z = bad \cup {b}
                    /\ e = [dev EXCEPT !.free = @ - ChunksPerBlock,
                                 !.blk[b] = [@ EXCEPT !.state = "dead", !.retire = FALSE]]
    OBVIOUS
  <2>2. bad' = z /\ dev' = e
    BY <1>8, <2>1
  <2>3. \A c : c \in LogOf(nand, z) <=> c \in LogOf(nand, bad) /\ c[1] # b
    BY <2>1 DEF LogOf
  <2>4. e.alloc = dev.alloc /\ e.page = dev.page /\ e.seq = dev.seq
    BY <1>4, <2>1 DEF Devices
  <2>5. (\A y \in Blocks \ {b} : e.blk[y] = dev.blk[y])
        /\ e.blk[b] = [dev.blk[b] EXCEPT !.state = "dead", !.retire = FALSE]
    BY <1>4, <2>1 DEF Devices
  <2>6. e.blk[b].bits = {} /\ ~e.blk[b].shrink /\ e.blk[b].state = "dead"
    <3>1. dev.blk[b] \in BlockInfos
      BY <1>4 DEF Devices
    <3>2. QED
      BY <1>6, <2>5, <3>1 DEF BlockInfos
  <2>7. Emptied(dev, e, b, nand, nand, bad, z)
    BY <2>1, <2>4, <2>5, <2>6 DEF Emptied
  <2>8. MountedScan(nand, nseq, z, e, obj, todo)
    BY <1>2, <1>5, <2>3, <2>7, EmptiedScan
  <2>9. QED
    BY <1>1, <1>3, <1>8, <2>2, <2>8, MountedAgain
<1>9. QED
  BY <1>5, <1>7, <1>8

(* A collection starts: what a shrink header of the block says of chunks   *)
(* in other blocks is no longer needed, as the older blocks are full of    *)
(* chunks in use.                                                          *)
LEMMA CollectsQualified ==
  ASSUME NEW b \in BlocksForGarbageCollection, b # None
  PROVE  NotDisqualifiedFromGC(b)
<1>1. \A x \in Prioritised : NotDisqualifiedFromGC(x)
  BY DEF Prioritised
<1>2. \A limit : \A x \in Candidates(limit) : NotDisqualifiedFromGC(x)
  BY DEF Candidates
<1>3. CASE Prioritised # {}
  <2>1. b = Min(Prioritised)
    BY <1>3 DEF BlocksForGarbageCollection
  <2>2. Prioritised \in SUBSET Nat
    BY Geometry DEF Prioritised, InState
  <2>3. QED
    BY <1>1, <1>3, <2>1, <2>2, MinLemma
<1>4. CASE Prioritised = {} /\ Aggressive
  <2>1. PICK C : C = Candidates(ChunksPerBlock)
    OBVIOUS
  <2>2. b \in IF C = {} THEN {None} ELSE {y \in C : \A x \in C : Used(y) <= Used(x)}
    BY <1>4, <2>1 DEF BlocksForGarbageCollection
  <2>3. b \in Candidates(ChunksPerBlock)
    BY <2>1, <2>2
  <2>4. QED
    BY <1>2, <2>3
<1>5. CASE Prioritised = {} /\ ~Aggressive
  <2>1. b \in {None} \cup Candidates(PassiveChunks + 1)
    BY <1>5 DEF BlocksForGarbageCollection
  <2>2. QED
    BY <1>2, <2>1
<1>6. QED
  BY <1>3, <1>4, <1>5

LEMMA StartedSide ==
  ASSUME NEW d \in Devices, NEW b \in Blocks, d.blk[b].state = "full", NEW e, e = Started(d, b),
         NEW n, NEW s, NEW x, SideOk(n, s, x, d)
  PROVE  /\ SideOk(n, s, x, e) /\ Bits(e) = Bits(d) /\ Flagged(e) = Flagged(d) \ {b}
         /\ Soft(d) \subseteq Soft(e)
<1>1. e.alloc = d.alloc /\ e.page = d.page /\ e.seq = d.seq
  BY DEF Started, Devices
<1>2. PICK r, z : r = d.blk[b] /\ z = IF d.blk[b].bits = {} THEN "dirty" ELSE "collecting"
  OBVIOUS
<1>3. z \in {"dirty", "collecting"}
  BY <1>2
<1>4. (\A y \in Blocks \ {b} : e.blk[y] = d.blk[y])
      /\ e.blk[b] = [r EXCEPT !.shrink = FALSE, !.state = z]
  BY <1>2 DEF Started, Devices
<1>5. r \in BlockInfos
  BY <1>2 DEF Devices
<1>6. e.blk[b].state = z /\ ~e.blk[b].shrink /\ e.blk[b].bits = r.bits /\ e.blk[b].seq = r.seq
  BY <1>4, <1>5 DEF BlockInfos
<1>7. SideOk(n, s, x, e)
  <2>1. d.alloc \in Blocks \cup {None}
    BY DEF Devices
  <2>2. \A y \in Blocks : e.blk[y].seq = d.blk[y].seq
    BY <1>2, <1>4, <1>6
  <2>3. ASSUME NEW y \in Blocks
        PROVE  \/ e.blk[y].state = d.blk[y].state /\ (d.blk[y].state = "dirty" => e.blk[y].shrink = d.blk[y].shrink)
               \/ e.blk[y].state \in {"dirty", "collecting"} /\ d.blk[y].state # "dead" /\ ~e.blk[y].shrink
    <3>1. CASE y = b
      BY <1>3, <1>6, <3>1
    <3>2. CASE y # b
      BY <1>4, <3>2
    <3>3. QED
      BY <3>1, <3>2
  <2>4. QED
    BY <1>1, <2>1, <2>2, <2>3, SideKept
<1>8. \A y \in Blocks : e.blk[y].bits = d.blk[y].bits
  BY <1>2, <1>4, <1>6
<1>9. Bits(e) = Bits(d)
  BY <1>8, AddrPair DEF Bits
<1>10. Flagged(e) = Flagged(d) \ {b}
  BY <1>4, <1>6 DEF Flagged
<1>11. Soft(d) \subseteq Soft(e)
  <2>1. ASSUME NEW y \in Soft(d) PROVE y \in Soft(e)
    <3>1. CASE y = b
      BY <1>3, <1>6, <3>1 DEF Soft
    <3>2. CASE y # b
      BY <1>4, <3>2 DEF Soft
    <3>3. QED
      BY <3>1, <3>2
  <2>2. QED
    BY <2>1
<1>12. QED
  BY <1>7, <1>9, <1>10, <1>11

(* A block that is not the newest and holds a page that memory does not    *)
(* have for a file holds fewer than ChunksPerBlock chunks of use.          *)
LEMMA UnusedOldest ==
  ASSUME GutsInv, ScanInv, Quiet, gcBlock = None, NEW b \in Blocks, dev.blk[b].state = "full",
         NotDisqualifiedFromGC(b), dev.blk[b].shrink,
         NEW f \in Files, NEW h \in LogOf(nand, bad), NEW e \in LogOf(nand, bad),
         At(nand, e).file = f, OwnOf(obj[f], At(nand, e).chunk) # e,
         Later(nseq, h, e), h[1] = b
  PROVE  e[1] = b
<1> SUFFICES ASSUME e[1] # b PROVE FALSE
  OBVIOUS
<1>1. mounted
  BY DEF Quiet
<1>2. /\ nand \in Flash /\ nseq \in [Blocks -> Nat] /\ obj \in [Files -> Objects]
      /\ DevOk(dev, obj, nand, gcBlock) /\ MountedScan(nand, nseq, bad, dev, obj, todo)
  BY <1>1, ScanFacts
<1>3. PICK y, r : y = e[1] /\ r = dev.blk[y]
  OBVIOUS
<1>4. y \in Blocks /\ y \notin bad /\ nand[y] # <<>> /\ e \in Addr /\ e[2] \in Pages
      /\ b \notin bad /\ nand[b] # <<>>
  BY <1>2, <1>3, LogAddr
<1>5. nseq[b] > nseq[y]
  BY <1>3 DEF Later
<1>6. SideOk(nand, nseq, bad, dev)
  BY <1>2 DEF MountedScan
<1>7. BlockSide(nand, nseq, bad, dev, b) /\ BlockSide(nand, nseq, bad, dev, y)
  BY <1>4, <1>6 DEF SideOk
<1>8. /\ dev.blk[b].seq = nseq[b] /\ nseq[b] <= dev.seq /\ r.seq = nseq[y]
      /\ r.state # "dead" /\ r.state # "empty" /\ (r.state = "allocating" => y = dev.alloc)
  BY <1>3, <1>4, <1>7 DEF BlockSide
<1>9. dev \in Devices /\ BlockOk(dev, obj, gcBlock, y)
  BY <1>2, <1>4 DEF DevOk
<1>10. r \in BlockInfos /\ dev.seq \in Nat /\ nseq[b] \in Nat /\ nseq[y] \in Nat
  BY <1>2, <1>3, <1>4, <1>9 DEF Devices
<1>11. r.state # "dirty"
  <2>1. y \notin InState(dev.blk, {"dirty"})
    BY DEF Quiet
  <2>2. QED
    BY <1>3, <1>4, <2>1 DEF InState
<1>12. r.state # "collecting"
  BY <1>3, <1>4, <1>9, Distinct DEF BlockOk
<1>13. r.state # "allocating"
  <2>1. SUFFICES ASSUME y = dev.alloc PROVE FALSE
    BY <1>8
  <2>2. dev.alloc # None
    BY <1>4, <2>1, Distinct
  <2>3. r.seq = dev.seq
    BY <1>3, <1>6, <2>1, <2>2 DEF SideOk
  <2>4. QED
    BY <1>5, <1>8, <1>10, <2>3
<1>14. r.state = "full"
  BY <1>8, <1>10, <1>11, <1>12, <1>13 DEF BlockInfos, States
<1>15. Used(y) < ChunksPerBlock
  <2>1. Used(y) = r.pagesInUse - r.softDel /\ r.pagesInUse = Cardinality(r.bits) /\ r.bits \in SUBSET Pages
        /\ r.softDel \in Nat
    BY <1>3, <1>9, <1>10 DEF Used, BlockOk, BlockInfos
  <2>2. IsFiniteSet(Pages) /\ Cardinality(Pages) = ChunksPerBlock /\ ChunksPerBlock \in Nat
    BY Geometry, FS_Interval, PagesFinite DEF Pages
  <2>3. Cardinality(r.bits) \in Nat /\ Cardinality(r.bits) <= ChunksPerBlock
    BY <2>1, <2>2, FS_Subset, PagesFinite
  <2>4. CASE e[2] \in r.bits
    <3>1. e \in Bits(dev)
      BY <1>3, <1>4, <2>4 DEF Bits
    <3>2. FileOk(nand, LogOf(nand, bad), nseq, Bits(dev), Flagged(dev), Soft(dev), obj[f], Left(todo, f), f)
      BY <1>2 DEF MountedScan
    <3>3. y \in Soft(dev)
      BY <1>3, <3>1, <3>2 DEF FileOk, UseOk
    <3>4. r.softDel >= 1
      BY <1>3, <1>14, <3>3 DEF Soft
    <3>5. QED
      BY <2>1, <2>2, <2>3, <3>4
  <2>5. CASE e[2] \notin r.bits
    <3>1. r.bits # Pages
      BY <1>4, <2>5
    <3>2. Cardinality(r.bits) < Cardinality(Pages)
      BY <2>1, <2>2, <2>3, <3>1, FS_Subset
    <3>3. QED
      BY <2>1, <2>2, <2>3, <3>2
  <2>6. QED
    BY <2>4, <2>5
<1>16. PICK S : S = {dev.seq} \cup {dev.blk[z].seq : z \in {x \in InState(dev.blk, {"full"}) : Used(x) < ChunksPerBlock}}
  OBVIOUS
<1>17. S \in SUBSET Nat /\ S # {}
  <2>1. \A z \in Blocks : dev.blk[z].seq \in Nat
    BY <1>9 DEF Devices, BlockInfos
  <2>2. QED
    BY <1>10, <1>16, <2>1 DEF InState
<1>18. r.seq \in S
  BY <1>3, <1>4, <1>14, <1>15, <1>16 DEF InState
<1>19. OldestDirtySequence = Min(S) /\ Min(S) \in Nat /\ Min(S) <= r.seq
  BY <1>16, <1>17, <1>18, MinLemma DEF OldestDirtySequence
<1>20. dev.blk[b].seq <= OldestDirtySequence
  BY DEF NotDisqualifiedFromGC
<1>21. QED
  BY <1>5, <1>8, <1>10, <1>19, <1>20

LEMMA CheckGarbageCollectionScan ==
  ASSUME GutsInv, ScanInv, CheckGarbageCollection
  PROVE  ScanInv'
<1>1. Doing("gc")
  BY Zenon DEF CheckGarbageCollection
<1>2. /\ mounted /\ gcBlock = None /\ todo # <<>> /\ Head(todo).op = "gc"
      /\ todo \in Seq(Ops) /\ Rest \in Seq(Ops) /\ Quiet
  BY <1>1, DoingFacts DEF Doing
<1>3. mounted' /\ nand' = nand /\ nseq' = nseq /\ bad' = bad /\ obj' = obj
  BY <1>2, Zenon DEF CheckGarbageCollection
<1>4. /\ nand \in Flash /\ nseq \in [Blocks -> Nat] /\ obj \in [Files -> Objects]
      /\ DevOk(dev, obj, nand, gcBlock) /\ MountedScan(nand, nseq, bad, dev, obj, todo)
      /\ \A f \in Files : OwnIn(nand, LogOf(nand, bad), Bits(dev), obj[f], f)
  BY <1>2, ScanFacts
<1>5. PICK t, r : t = todo /\ r = Rest
  OBVIOUS
<1>6. r = Tail(t) /\ t \in Seq(Ops) /\ t # <<>> /\ Head(t).op = "gc" /\ r \in Seq(Ops)
  BY <1>2, <1>5 DEF Rest
<1>7. \A f : Left(r, f) = Left(t, f)
  <2>1. ASSUME NEW f PROVE Left(r, f) = Left(t, f)
    <3>1. Left(t, f) = Left(Tail(t), f) \cup (IF Head(t).op # "gc" /\ Head(t).file = f THEN {Head(t)} ELSE {})
      BY <1>6, LeftTail
    <3>2. QED
      BY <1>6, <3>1
  <2>2. QED
    BY <2>1
<1>8. CASE todo' = Rest /\ dev' = dev
  <2>1. MountedScan(nand, nseq, bad, dev, obj, r)
    BY <1>4, <1>5, <1>7 DEF MountedScan
  <2>2. QED
    BY <1>3, <1>5, <1>8, <2>1, MountedAgain
<1>9. ASSUME NEW b \in BlocksForGarbageCollection, b # None,
             todo' = IF Head(todo).chunk = 1 THEN <<Gc(2)>> \o Rest ELSE Rest,
             dev' = Started(dev, b)
      PROVE  ScanInv'
  <2>1. b \in Blocks /\ dev.blk[b].state = "full" /\ NotDisqualifiedFromGC(b)
    BY <1>9, CollectsFull, CollectsQualified
  <2>2. PICK e : e = Started(dev, b)
    OBVIOUS
  <2>3. /\ SideOk(nand, nseq, bad, e) /\ Bits(e) = Bits(dev) /\ Flagged(e) = Flagged(dev) \ {b}
        /\ Soft(dev) \subseteq Soft(e)
    <3>1. dev \in Devices
      BY <1>4 DEF DevOk
    <3>2. SideOk(nand, nseq, bad, dev)
      BY <1>4 DEF MountedScan
    <3>3. QED
      BY <2>1, <2>2, <3>1, <3>2, StartedSide
  <2>4. PICK x \in Ops : x = Gc(2) /\ x.op = "gc"
    BY GcType
  <2>5. PICK y, z : y = <<x>> /\ z = y \o r
    OBVIOUS
  <2>6. y \in Seq(Ops)
    BY <2>5
  <2>7. \A f : Left(z, f) = Left(t, f)
    <3>1. ASSUME NEW f PROVE Left(z, f) = Left(t, f)
      <4>0. z = y \o r
        BY <2>5
      <4>1. Left(z, f) = Left(y, f) \cup Left(r, f)
        <5>1. y \in Seq(Ops) /\ r \in Seq(Ops)
          BY <1>6, <2>6
        <5>2. Left(y \o r, f) = Left(y, f) \cup Left(r, f)
          BY ONLY <5>1, LeftConcat, Zenon
        <5>3. QED
          BY <4>0, <5>2, Zenon
      <4>2. Left(y, f) = {}
        BY <2>4, <2>5, LeftOne
      <4>3. QED
        BY <1>7, <4>1, <4>2
    <3>2. QED
      BY <3>1
  <2>8. PICK v : v = todo' /\ (v = z \/ v = r)
    BY <1>5, <1>9, <2>4, <2>5
  <2>9. \A f : Left(v, f) = Left(t, f)
    BY <1>7, <2>7, <2>8
  <2>10. PICK C, K, F, G, S, T : /\ C = LogOf(nand, bad) /\ K = Bits(dev) /\ F = Flagged(dev)
                                 /\ G = Flagged(e) /\ S = Soft(dev) /\ T = Soft(e)
    OBVIOUS
  <2>11. IsFiniteSet(C) /\ C \subseteq Addr /\ \A c \in C : At(nand, c).chunk \in 0 .. FileChunks
    BY <1>4, <2>10, LogShape
  <2>12. ASSUME NEW f \in Files PROVE FileOk(nand, C, nseq, K, G, T, obj[f], Left(v, f), f)
    <3>1. PICK w, q : w = obj[f] /\ q = Left(t, f)
      OBVIOUS
    <3>2. FileOk(nand, C, nseq, K, F, S, w, q, f) /\ OwnIn(nand, C, K, w, f) /\ w.nData \in Int
      BY <1>4, <1>5, <2>10, <3>1 DEF MountedScan, Objects
    <3>3. \A c \in C : At(nand, c).file = f => At(nand, c).chunk \in 0 .. FileChunks
      BY <2>11
    <3>4. C \subseteq C /\ \A c \in C : At(nand, c) = At(nand, c)
      OBVIOUS
    <3>5. \A k \in 0 .. FileChunks : OwnOf(w, k) # None => OwnOf(w, k) \in C
      BY <3>2 DEF OwnIn
    <3>6. \A c \in C : At(nand, c).file = f /\ c \in K => c \in K
      OBVIOUS
    <3>7. \A c \in C : c \in K /\ c \in K /\ c[1] \in S => c[1] \in T
      BY <2>3, <2>10
    <3>8. \A h \in C, a \in C : At(nand, a).file = f /\ OwnOf(w, At(nand, a).chunk) # a
                              /\ Guard(nseq, F, h, a) => h \in C /\ Guard(nseq, G, h, a)
      <4>1. ASSUME NEW h \in C, NEW a \in C, At(nand, a).file = f, OwnOf(w, At(nand, a).chunk) # a,
                   Guard(nseq, F, h, a)
            PROVE  Guard(nseq, G, h, a)
        <5>1. Later(nseq, h, a) /\ (h[1] \in F \/ h[1] = a[1])
          BY <4>1 DEF Guard
        <5>2. CASE h[1] = a[1]
          BY <5>1, <5>2 DEF Guard
        <5>3. CASE h[1] # b /\ h[1] \in F
          BY <2>3, <2>10, <5>1, <5>3 DEF Guard
        <5>4. CASE h[1] = b /\ h[1] \in F
          <6>1. dev.blk[b].shrink
            BY <2>10, <5>4 DEF Flagged
          <6>2. h \in LogOf(nand, bad) /\ a \in LogOf(nand, bad)
            BY <2>10, <4>1
          <6>3. OwnOf(obj[f], At(nand, a).chunk) # a
            BY <3>1, <4>1
          <6>4. a[1] = b
            BY <1>2, <2>1, <4>1, <5>1, <5>4, <6>1, <6>2, <6>3, UnusedOldest
          <6>5. QED
            BY <5>2, <5>4, <6>4
        <5>5. QED
          BY <5>1, <5>2, <5>3, <5>4
      <4>2. QED
        BY <4>1
    <3>9. FileOk(nand, C, nseq, K, G, T, w, q, f)
      BY ONLY <2>11, <3>2, <3>3, <3>4, <3>5, <3>6, <3>7, <3>8, f \in Files, FileWeaker
    <3>10. QED
      BY <2>9, <3>1, <3>9
  <2>13. MountedScan(nand, nseq, bad, e, obj, v)
    BY <1>4, <2>3, <2>10, <2>12 DEF MountedScan
  <2>14. QED
    BY <1>3, <1>9, <2>2, <2>8, <2>13, MountedAgain
<1>10. QED
  BY <1>8, <1>9, Zenon DEF CheckGarbageCollection, Started

(* The power goes: the log alone says what memory said.                    *)
LEMMA LogAlone ==
  ASSUME GutsInv, ScanInv, mounted
  PROVE  LogInv(nand, LogOf(nand, bad), nseq)
<1>1. /\ nand \in Flash /\ nseq \in [Blocks -> Nat] /\ MountedScan(nand, nseq, bad, dev, obj, todo)
      /\ \A f \in Files : OwnIn(nand, LogOf(nand, bad), Bits(dev), obj[f], f)
  BY ScanFacts
<1>2. PICK n, s, C, K, F : n = nand /\ s = nseq /\ C = LogOf(nand, bad) /\ K = Bits(dev) /\ F = Flagged(dev)
  OBVIOUS
<1>3. C \subseteq Addr /\ \A c \in C : At(n, c).file \in Files /\ At(n, c).chunk \in 0 .. FileChunks
  BY <1>1, <1>2, LogAddr
<1>4. Ordered(C, s)
  BY <1>1, <1>2, LogOrdered DEF MountedScan
<1>5. ASSUME NEW f \in Files
      PROVE  /\ HeaderOk(n, C, s, obj[f], Left(todo, f), f) /\ GoneOk(n, C, s, F, obj[f], f)
             /\ DataOk(n, C, s, F, obj[f], Left(todo, f), f) /\ OwnIn(n, C, K, obj[f], f)
  BY <1>1, <1>2 DEF MountedScan, FileOk
<1>6. ASSUME NEW c \in C PROVE Of(n, C, At(n, c).file, 0) # {}
  <2>1. PICK f \in Files : f = At(n, c).file
    BY <1>3
  <2>2. PICK w : w = obj[f]
    OBVIOUS
  <2>3. CASE w.hdr # None
    <3>1. OwnIn(n, C, K, w, f)
      BY <1>5, <2>2
    <3>2. w.hdr \in Of(n, C, f, 0)
      BY <2>3, <3>1, OwnInParts
    <3>3. QED
      BY <2>1, <3>2
  <2>4. CASE w.hdr = None
    <3>1. IsTomb(At(n, c)) \/ Buried(n, C, s, F, c)
      BY <1>5, <2>1, <2>2, <2>4 DEF GoneOk
    <3>2. CASE IsTomb(At(n, c))
      BY <2>1, <3>2 DEF IsTomb, Of
    <3>3. CASE Buried(n, C, s, F, c)
      BY <2>1, <3>3 DEF Buried
    <3>4. QED
      BY <3>1, <3>2, <3>3
  <2>5. QED
    BY <2>3, <2>4
<1>7. ASSUME NEW h \in C, At(n, h).chunk = 0, Newest(n, C, s, h), NEW f, f = At(n, h).file,
             NEW w, w = obj[f], w.hdr # None
      PROVE  h = w.hdr
  <2>1. f \in Files
    BY <1>3, <1>7
  <2>2. OwnIn(n, C, K, w, f) /\ HeaderOk(n, C, s, w, Left(todo, f), f)
    BY <1>5, <1>7, <2>1
  <2>3. w.hdr \in Of(n, C, f, 0) /\ w.hdr \in C
    BY <1>7, <2>2, OwnInParts
  <2>4. h \in Of(n, C, f, 0)
    BY <1>7 DEF Of
  <2>5. h = w.hdr \/ Later(s, w.hdr, h)
    BY <1>7, <2>2, <2>4 DEF HeaderOk
  <2>6. w.hdr = h \/ Later(s, h, w.hdr)
    BY <1>7, <2>3 DEF Newest
  <2>7. QED
    BY <1>4, <2>3, <2>5, <2>6 DEF Ordered
<1>8. ASSUME NEW h \in C, At(n, h).chunk = 0, Newest(n, C, s, h), At(n, h).dir = "deleted",
             NEW c \in C, At(n, c).file = At(n, h).file, ~IsTomb(At(n, c))
      PROVE  \E x \in Of(n, C, At(n, c).file, 0) :
                At(n, x).dir = "deleted" /\ At(n, x).shrink /\ Later(s, x, c)
  <2>1. PICK f \in Files : f = At(n, h).file
    BY <1>3
  <2>2. PICK w : w = obj[f]
    OBVIOUS
  <2>3. w.hdr = None \/ At(n, w.hdr).dir = "deleted"
    BY <1>7, <1>8, <2>1, <2>2
  <2>4. Buried(n, C, s, F, c)
    BY <1>5, <1>8, <2>1, <2>2, <2>3 DEF GoneOk
  <2>5. QED
    BY <2>4 DEF Buried, Guard
<1>9. ASSUME NEW h \in C, At(n, h).chunk = 0, Newest(n, C, s, h), At(n, h).dir = "root",
             NEW e \in C, At(n, e).file = At(n, h).file, At(n, e).chunk # 0,
             NEW y \in Of(n, C, At(n, h).file, 0), At(n, y).dir # "root", Later(s, y, e)
      PROVE  \E x \in Of(n, C, At(n, h).file, 0) :
               At(n, x).shrink /\ At(n, e).chunk > SizeLeft(At(n, x)) /\ Later(s, x, e)
  <2>1. PICK f \in Files : f = At(n, h).file
    BY <1>3
  <2>2. PICK w, k : w = obj[f] /\ k = At(n, e).chunk
    OBVIOUS
  <2>3. w.hdr # None
    <3>1. SUFFICES ASSUME w.hdr = None PROVE FALSE
      OBVIOUS
    <3>2. IsTomb(At(n, h)) \/ Buried(n, C, s, F, h)
      BY <1>5, <2>1, <2>2, <3>1 DEF GoneOk
    <3>3. PICK x \in Of(n, C, f, 0) : Later(s, x, h)
      BY <1>9, <2>1, <3>2 DEF Buried, Guard, IsTomb
    <3>4. x \in C /\ (x = h \/ Later(s, h, x))
      BY <1>9, <2>1, <3>3 DEF Newest, Of
    <3>5. QED
      BY <1>4, <3>3, <3>4 DEF Ordered
  <2>4. h = w.hdr
    BY <1>7, <1>9, <2>1, <2>2, <2>3
  <2>5. k \in 1 .. FileChunks /\ e \in Of(n, C, f, k)
    <3>1. k \in 0 .. FileChunks /\ k # 0
      BY <1>3, <1>9, <2>2
    <3>2. k \in 1 .. FileChunks
      BY <3>1, Geometry
    <3>3. QED
      BY <1>9, <2>1, <2>2, <3>2 DEF Of
  <2>6. DataOk(n, C, s, F, w, Left(todo, f), f) /\ At(n, w.hdr).dir = "root"
    BY <1>5, <1>9, <2>1, <2>2, <2>4
  <2>7. /\ e = w.tnode[k] => \A z \in C : At(n, z).file = f /\ Later(s, z, e) => ~Cutter(At(n, z), k)
        /\ e # w.tnode[k] /\ (\E z \in Of(n, C, f, 0) : At(n, z).dir # "root" /\ Later(s, z, e))
             => Barred(n, C, s, F, e)
    BY <2>3, <2>5, <2>6 DEF DataOk
  <2>8. e # w.tnode[k]
    <3>1. SUFFICES ASSUME e = w.tnode[k] PROVE FALSE
      OBVIOUS
    <3>2. y \in C /\ At(n, y).file = f /\ At(n, y).chunk = 0
      BY <2>1, <1>9 DEF Of
    <3>3. Cutter(At(n, y), k)
      <4>1. SizeLeft(At(n, y)) = 0
        BY <1>9 DEF SizeLeft
      <4>2. k > 0
        BY <2>5
      <4>3. QED
        BY <1>9, <3>2, <4>1, <4>2 DEF Cutter
    <3>4. QED
      BY <1>9, <2>7, <3>1, <3>2, <3>3
  <2>9. Barred(n, C, s, F, e)
    BY <1>9, <2>1, <2>7, <2>8
  <2>10. QED
    BY <1>9, <2>9 DEF Barred, Guard
<1>10. LogInv(n, C, s)
  BY <1>6, <1>8, <1>9 DEF LogInv
<1>11. QED
  BY <1>2, <1>10

LEMMA LiveSame ==
  ASSUME Log' = Log, \A c \in Log : Tag(c)' = Tag(c), nseq' = nseq
  PROVE  /\ Live' = Live /\ \A c, e : Newer(c, e)' <=> Newer(c, e)
         /\ \A f : \A c \in Log : IsHeaderOf(c, f)' <=> IsHeaderOf(c, f)
<1>1. \A c, e : Newer(c, e)' <=> Newer(c, e)
  BY DEF Newer
<1>2. \A c \in Log : Superseded(c)' <=> Superseded(c)
  BY <1>1 DEF Superseded, SamePlace
<1>3. \A c \in Log : /\ IsShrink(c)' <=> IsShrink(c)
                     /\ ShrinkSize(c)' = ShrinkSize(c)
  BY <1>2 DEF IsShrink, ShrinkSize
<1>4. \A c \in Log : CutOff(c)' <=> CutOff(c)
  BY <1>1, <1>3 DEF CutOff
<1>5. Live' = Live
  BY <1>2, <1>4 DEF Live
<1>6. \A f : \A c \in Log : IsHeaderOf(c, f)' <=> IsHeaderOf(c, f)
  BY <1>2 DEF IsHeaderOf
<1>7. QED
  BY <1>1, <1>5, <1>6

LEMMA StraySame ==
  ASSUME Log' = Log, \A c \in Log : Tag(c)' = Tag(c), nseq' = nseq
  PROVE  Stray' <=> Stray
<1>1. \A c, e : Newer(c, e)' <=> Newer(c, e)
  BY LiveSame
<1>2. Live' = Live
  BY LiveSame
<1>3. \A f : \A c \in Log : IsHeaderOf(c, f)' <=> IsHeaderOf(c, f)
  BY LiveSame
<1>4. ASSUME NEW f PROVE ScanSize(f)' = ScanSize(f)
  <2>1. {c \in Log : IsHeaderOf(c, f)}' = {c \in Log : IsHeaderOf(c, f)}
    BY <1>3
  <2>2. {Tag(h).size : h \in {c \in Log : IsHeaderOf(c, f)}}' = {Tag(h).size : h \in {c \in Log : IsHeaderOf(c, f)}}
    BY <2>1
  <2>3. \A d \in Log : (Tag(d).file = f /\ ~\E h \in Log : IsHeaderOf(h, f) /\ Newer(h, d))'
                       <=> (Tag(d).file = f /\ ~\E h \in Log : IsHeaderOf(h, f) /\ Newer(h, d))
    BY <1>1, <1>3
  <2>4. {d \in Log : /\ Tag(d).file = f
                     /\ ~\E h \in Log : IsHeaderOf(h, f) /\ Newer(h, d)}'
        = {d \in Log : /\ Tag(d).file = f
                       /\ ~\E h \in Log : IsHeaderOf(h, f) /\ Newer(h, d)}
    BY <2>3
  <2>5. {Tag(c).chunk : c \in {d \in Log : /\ Tag(d).file = f
                     /\ ~\E h \in Log : IsHeaderOf(h, f) /\ Newer(h, d)}}'
        = {Tag(c).chunk : c \in {d \in Log : /\ Tag(d).file = f
                       /\ ~\E h \in Log : IsHeaderOf(h, f) /\ Newer(h, d)}}
    BY <2>4
  <2>6. QED
    BY <2>2, <2>5 DEF ScanSize
<1>5. Live \subseteq Log
  BY DEF Live
<1>6. QED
  BY <1>2, <1>4, <1>5 DEF Stray

(* A power cut adds a torn page at most: the log stays as it is.           *)
LEMMA PowerCutLog ==
  ASSUME GutsInv, ScanInv, PowerCut, TornFrom \in Nat, TornFrom >= 2
  PROVE  /\ Log' = Log /\ \A c \in Log : Tag(c)' = Tag(c)
         /\ \/ nand' = nand
            \/ \E b \in Blocks, m \in Flash :
                 /\ m = Programmed(nand, b, Torn) /\ nand' = m
                 /\ FirstOk(m) /\ Apart(m, nseq, bad) /\ LogOf(m, bad) = LogOf(nand, bad)
                 /\ \A a \in LogOf(nand, bad) : At(m, a) = At(nand, a)
<1>1. mounted /\ nseq' = nseq /\ bad' = bad
  BY DEF PowerCut
<1>2. /\ nand \in Flash /\ nseq \in [Blocks -> Nat] /\ obj \in [Files -> Objects]
      /\ DevOk(dev, obj, nand, gcBlock) /\ MountedScan(nand, nseq, bad, dev, obj, todo)
  BY <1>1, ScanFacts
<1>3. FirstOk(nand) /\ Apart(nand, nseq, bad) /\ SideOk(nand, nseq, bad, dev)
  BY <1>2 DEF MountedScan
<1>4. CASE nand' = nand
  BY <1>1, <1>4 DEF Log, Readable, NeedsScanning, Tag
<1>5. CASE /\ Ready(dev).page >= TornFrom /\ NextIsWrite /\ Erased(Ready(dev))
           /\ nand' = [nand EXCEPT ![Ready(dev).alloc] = Append(@, Torn)]
  <2>1. PICK d, b : d = Ready(dev) /\ b = d.alloc
    OBVIOUS
  <2>2. DevOk(d, obj, nand, gcBlock) /\ SideOk(nand, nseq, bad, d)
    BY <1>1, <1>2, <2>1, ReadyOk, ReadyScan
  <2>3. b # None
    BY <1>5, <2>1 DEF NextIsWrite, Fits
  <2>4. d \in Devices /\ AllocOk(d, nand) /\ b \in Blocks /\ d.page \in Nat
    BY <2>1, <2>2, <2>3 DEF DevOk, Devices
  <2>5. d.page \in Pages /\ d.page <= Len(nand[b]) + 1 /\ d.blk[b].state = "allocating"
    BY <2>1, <2>3, <2>4 DEF AllocOk
  <2>6. b \notin bad
    BY <2>2, <2>4, <2>5 DEF SideOk, BlockSide
  <2>7. d.page > Len(nand[b]) /\ d.page >= 2
    BY <1>5, <2>1, <2>4 DEF Erased
  <2>8. Len(nand[b]) \in Nat /\ nand[b] \in Seq(PagesOfLog \cup {Torn})
    BY <1>2, <2>4 DEF Flash
  <2>9. Len(nand[b]) + 1 \in Pages /\ Len(nand[b]) >= 1 /\ nand[b] # <<>>
    <3>1. Len(nand[b]) + 1 = d.page
      BY <2>4, <2>5, <2>7, <2>8
    <3>2. Len(nand[b]) >= 1
      BY <2>4, <2>7, <2>8, <3>1
    <3>3. QED
      BY <2>5, <3>1, <3>2
  <2>10. PICK m, c, p : m = Programmed(nand, b, p) /\ c = <<b, Len(nand[b]) + 1>> /\ p = Torn
    OBVIOUS
  <2>11. /\ LogOf(m, bad) = LogOf(nand, bad)
         /\ \A a \in LogOf(nand, bad) : At(m, a) = At(nand, a)
         /\ \A a \in Blocks \ {b} : m[a] = nand[a]
         /\ m[b] # <<>> /\ FirstOk(m) /\ m \in Flash
    BY <1>2, <1>3, <2>4, <2>6, <2>9, <2>10, LogProgram
  <2>12. nand' = m
    BY <1>5, <2>1, <2>10 DEF Programmed
  <2>13. Apart(m, nseq, bad)
    BY <1>3, <2>9, <2>11 DEF Apart
  <2>14. Log' = Log
    <3>1. \A a \in Blocks : NeedsScanning(a)' <=> a \notin bad /\ m[a] # <<>>
      BY <1>1, <2>11, <2>12 DEF NeedsScanning, FirstOk
    <3>2. Log' = LogOf(m, bad)
      <4>1. ASSUME NEW a \in Addr PROVE (a \in Log)' <=> a \in LogOf(m, bad)
        <5>1. a[1] \in Blocks
          BY AddrPair
        <5>2. a[2] <= Len(m[a[1]]) => m[a[1]] # <<>>
          <6>1. a[2] \in Pages /\ ~(a[2] <= 0) /\ Len(<<>>) = 0
            BY AddrPair, Geometry DEF Pages
          <6>2. QED
            BY <6>1
        <5>3. (a \in Log)' <=> a[2] <= Len(m[a[1]]) /\ m[a[1]][a[2]] # Torn /\ NeedsScanning(a[1])'
          BY <1>1, <2>12 DEF Log, Readable
        <5>4. QED
          BY <3>1, <5>1, <5>2, <5>3 DEF LogOf, At
      <4>2. Log' \subseteq Addr /\ LogOf(m, bad) \subseteq Addr
        BY DEF Log, Readable, LogOf
      <4>3. QED
        BY <4>1, <4>2
    <3>3. Log = LogOf(nand, bad)
      BY <1>2, <1>3, LogIs
    <3>4. QED
      BY <2>11, <3>2, <3>3
  <2>15. \A a \in Log : Tag(a)' = Tag(a)
    <3>1. Log = LogOf(nand, bad)
      BY <1>2, <1>3, LogIs
    <3>2. QED
      BY <2>11, <2>12, <3>1 DEF Tag, At
  <2>16. QED
    BY <2>4, <2>10, <2>11, <2>12, <2>13, <2>14, <2>15
<1>6. QED
  BY <1>4, <1>5 DEF PowerCut

LEMMA PowerCutScan ==
  ASSUME GutsInv, ScanInv, PowerCut, ~StrayCuts, TornFrom \in Nat, TornFrom >= 2
  PROVE  ScanInv'
<1>1. mounted /\ ~mounted' /\ nseq' = nseq /\ bad' = bad /\ ~Stray
  BY DEF PowerCut
<1>2. /\ nand \in Flash /\ nseq \in [Blocks -> Nat] /\ obj \in [Files -> Objects]
      /\ DevOk(dev, obj, nand, gcBlock) /\ MountedScan(nand, nseq, bad, dev, obj, todo)
  BY <1>1, ScanFacts
<1>3. FirstOk(nand) /\ Apart(nand, nseq, bad) /\ SideOk(nand, nseq, bad, dev)
  BY <1>2 DEF MountedScan
<1>4. LogInv(nand, LogOf(nand, bad), nseq)
  BY <1>1, LogAlone
<1>5. ~Stray'
  <2>1. Log' = Log /\ \A c \in Log : Tag(c)' = Tag(c)
    BY PowerCutLog
  <2>2. QED
    BY <1>1, <2>1, StraySame
<1>6. CASE nand' = nand
  BY <1>1, <1>3, <1>4, <1>5, <1>6 DEF ScanInv
<1>7. ASSUME NEW b \in Blocks, NEW m \in Flash, m = Programmed(nand, b, Torn), nand' = m,
             FirstOk(m), Apart(m, nseq, bad), LogOf(m, bad) = LogOf(nand, bad),
             \A a \in LogOf(nand, bad) : At(m, a) = At(nand, a)
      PROVE  ScanInv'
  <2>1. PICK C : C = LogOf(nand, bad)
    OBVIOUS
  <2>2. \A a \in C : At(m, a) = At(nand, a)
    BY <1>7, <2>1
  <2>3. \A f, k : Of(m, C, f, k) = Of(nand, C, f, k)
    BY <2>2 DEF Of
  <2>4. \A h \in C : Newest(m, C, nseq, h) <=> Newest(nand, C, nseq, h)
    BY <2>2, <2>3 DEF Newest
  <2>5. LogInv(nand, C, nseq)
    BY <1>4, <2>1
  <2>6. LogInv(m, C, nseq)
    <3>1. \A f, k : \A x \in Of(nand, C, f, k) : x \in C
      BY DEF Of
    <3>2. QED
      BY <2>2, <2>3, <2>4, <2>5, <3>1 DEF LogInv
  <2>7. QED
    BY <1>1, <1>5, <1>7, <2>1, <2>6 DEF ScanInv
<1>8. QED
  BY <1>6, <1>7, PowerCutLog

-----------------------------------------------------------------------------
(* Mounting: what a scan of the log finds.                                 *)

Older(n, C, s, c) ==
  \E e \in C : At(n, e).file = At(n, c).file /\ At(n, e).chunk = At(n, c).chunk /\ Later(s, e, c)
Cuts(n, C, s, h) ==
  At(n, h).chunk = 0 /\ (At(n, h).shrink \/ (At(n, h).dir # "root" /\ Older(n, C, s, h)))
CutBy(n, C, s, c) ==
  \E h \in C : /\ At(n, h).file = At(n, c).file /\ At(n, c).chunk > SizeLeft(At(n, h))
               /\ Later(s, h, c) /\ Cuts(n, C, s, h)

LEMMA ScannedLog ==
  ASSUME nand \in Flash, nseq \in [Blocks -> Nat], FirstOk(nand), Apart(nand, nseq, bad),
         NEW C, C = LogOf(nand, bad)
  PROVE  /\ Log = C /\ IsFiniteSet(C) /\ Live \subseteq C /\ Ordered(C, nseq)
         /\ \A c \in C : c \in Live <=> ~Older(nand, C, nseq, c) /\ ~CutBy(nand, C, nseq, c)
         /\ \A c \in C : Superseded(c) <=> Older(nand, C, nseq, c)
         /\ \A h \in C : IsShrink(h) <=> Cuts(nand, C, nseq, h)
         /\ \A c : Tag(c) = At(nand, c)
         /\ \A c, e : Newer(c, e) = Later(nseq, c, e)
<1>1. /\ Log = C /\ \A c : Tag(c) = At(nand, c)
      /\ \A c, e : Newer(c, e) = Later(nseq, c, e)
      /\ Live \subseteq Log
  BY LogIs
<1>2. IsFiniteSet(C) /\ Ordered(C, nseq)
  BY LogShape, LogOrdered
<1>3. \A c \in C : Superseded(c) <=> Older(nand, C, nseq, c)
  <2>1. \A c, e : SamePlace(c, e) <=> At(nand, e).file = At(nand, c).file /\ At(nand, e).chunk = At(nand, c).chunk
    BY <1>1 DEF SamePlace
  <2>2. QED
    BY <1>1, <2>1 DEF Superseded, Older
<1>4. \A h \in C : IsShrink(h) <=> Cuts(nand, C, nseq, h)
  BY <1>1, <1>3 DEF IsShrink, Cuts
<1>5. \A h \in C : ShrinkSize(h) = SizeLeft(At(nand, h))
  BY <1>1 DEF ShrinkSize, SizeLeft
<1>6. \A c \in C : CutOff(c) <=> CutBy(nand, C, nseq, c)
  BY <1>1, <1>4, <1>5 DEF CutOff, CutBy
<1>7. \A c \in C : c \in Live <=> ~Older(nand, C, nseq, c) /\ ~CutBy(nand, C, nseq, c)
  BY <1>1, <1>3, <1>6 DEF Live
<1>8. QED
  BY <1>1, <1>2, <1>3, <1>4, <1>7

(* A nonempty finite part of the log has a newest chunk.                   *)
LEMMA NewestExists ==
  ASSUME NEW C, NEW s, Ordered(C, s), NEW S, IsFiniteSet(S), S \subseteq C, S # {}
  PROVE  \E h \in S : \A c \in S : c = h \/ Later(s, h, c)
<1>1. PICK G : G = {T \in SUBSET S : T # {} => \E h \in T : \A c \in T : c = h \/ Later(s, h, c)}
  OBVIOUS
<1>2. {} \in G
  BY <1>1
<1>3. ASSUME NEW T \in SUBSET S, NEW x \in S, T \in G, x \notin T PROVE T \cup {x} \in G
  <2>1. CASE T = {}
    BY <1>1, <2>1
  <2>2. CASE T # {}
    <3>1. PICK h \in T : \A c \in T : c = h \/ Later(s, h, c)
      BY <1>1, <1>3, <2>2
    <3>2. Later(s, h, x) \/ Later(s, x, h)
      BY <1>3, <3>1 DEF Ordered
    <3>3. CASE Later(s, h, x)
      BY <1>1, <3>1, <3>3
    <3>4. CASE Later(s, x, h)
      <4>1. \A c \in T : Later(s, x, c)
        <5>1. ASSUME NEW c \in T PROVE Later(s, x, c)
          <6>1. c \in C /\ h \in C /\ x \in C
            OBVIOUS
          <6>2. c = h \/ Later(s, h, c)
            BY <3>1
          <6>3. QED
            BY <3>4, <6>1, <6>2 DEF Ordered
        <5>2. QED
          BY <5>1
      <4>2. QED
        BY <1>1, <4>1
    <3>5. QED
      BY <3>2, <3>3, <3>4
  <2>3. QED
    BY <2>1, <2>2
<1>4. S \in G
  BY <1>2, <1>3, SetInduction
<1>5. QED
  BY <1>1, <1>4

(* What the scan takes for chunk k of the file f: the chunk that is live.  *)
LEMMA FoundLive ==
  ASSUME nand \in Flash, nseq \in [Blocks -> Nat], FirstOk(nand), Apart(nand, nseq, bad),
         NEW C, C = LogOf(nand, bad), NEW f, NEW k, NEW c, c = Found(Live, f, k)
  PROVE  /\ c # None => c \in Live /\ c \in C /\ At(nand, c).file = f /\ At(nand, c).chunk = k
         /\ \A e \in Live : At(nand, e).file = f /\ At(nand, e).chunk = k => e = c
         /\ \A e \in Of(nand, C, f, k) : c # None /\ e # c => Later(nseq, c, e)
<1>1. /\ Log = C /\ Live \subseteq C /\ Ordered(C, nseq)
      /\ \A e \in C : e \in Live <=> ~Older(nand, C, nseq, e) /\ ~CutBy(nand, C, nseq, e)
      /\ \A e : Tag(e) = At(nand, e)
  BY ScannedLog
<1>2. PICK S : S = {e \in Live : Tag(e).file = f /\ Tag(e).chunk = k}
  OBVIOUS
<1>3. c = IF S = {} THEN None ELSE CHOOSE e \in S : TRUE
  BY <1>2 DEF Found
<1>4. S # {} => c \in S
  BY <1>3
<1>5. \A e \in S : e \in Live /\ e \in C /\ At(nand, e).file = f /\ At(nand, e).chunk = k
  BY <1>1, <1>2
<1>6. c # None => c \in S
  BY <1>3, <1>4
<1>7. ASSUME NEW e \in S, NEW a \in Of(nand, C, f, k), a # e PROVE Later(nseq, e, a)
  <2>1. a \in C /\ At(nand, a).file = f /\ At(nand, a).chunk = k
    BY DEF Of
  <2>2. Later(nseq, e, a) \/ Later(nseq, a, e)
    BY <1>1, <1>5, <1>7, <2>1 DEF Ordered
  <2>3. ~Later(nseq, a, e)
    BY <1>1, <1>5, <2>1 DEF Older
  <2>4. QED
    BY <2>2, <2>3
<1>8. ASSUME NEW e \in Live, At(nand, e).file = f, At(nand, e).chunk = k PROVE e = c
  <2>1. e \in S
    BY <1>1, <1>2, <1>8
  <2>2. c \in S
    BY <1>4, <2>1
  <2>3. c \in Of(nand, C, f, k) /\ e \in Of(nand, C, f, k)
    BY <1>5, <2>1, <2>2 DEF Of
  <2>4. SUFFICES ASSUME e # c PROVE FALSE
    OBVIOUS
  <2>5. Later(nseq, e, c) /\ Later(nseq, c, e)
    BY <1>7, <2>1, <2>2, <2>3, <2>4
  <2>6. QED
    BY <1>1, <1>5, <2>1, <2>2, <2>5 DEF Ordered
<1>9. QED
  BY <1>5, <1>6, <1>7, <1>8

(* The header that the scan takes is the newest one.                       *)
LEMMA FoundHeader ==
  ASSUME nand \in Flash, nseq \in [Blocks -> Nat], FirstOk(nand), Apart(nand, nseq, bad),
         NEW C, C = LogOf(nand, bad), NEW f, NEW h, h = Found(Live, f, 0),
         Of(nand, C, f, 0) # {}
  PROVE  h # None /\ h \in Of(nand, C, f, 0) /\ Newest(nand, C, nseq, h)
<1>1. /\ IsFiniteSet(C) /\ Ordered(C, nseq)
      /\ \A e \in C : e \in Live <=> ~Older(nand, C, nseq, e) /\ ~CutBy(nand, C, nseq, e)
  BY ScannedLog
<1>2. PICK S : S = Of(nand, C, f, 0)
  OBVIOUS
<1>3. S \subseteq C /\ IsFiniteSet(S) /\ S # {}
  BY <1>1, <1>2, FS_Subset DEF Of
<1>4. PICK e \in S : \A c \in S : c = e \/ Later(nseq, e, c)
  BY <1>1, <1>3, NewestExists
<1>5. e \in C /\ At(nand, e).file = f /\ At(nand, e).chunk = 0
  BY <1>2 DEF Of
<1>6. ~Older(nand, C, nseq, e)
  <2>1. ASSUME NEW c \in C, At(nand, c).file = f, At(nand, c).chunk = 0, Later(nseq, c, e) PROVE FALSE
    <3>1. c = e \/ Later(nseq, e, c)
      BY <1>2, <1>4, <2>1 DEF Of
    <3>2. QED
      BY <1>1, <1>5, <2>1, <3>1 DEF Ordered
  <2>2. QED
    BY <1>5, <2>1 DEF Older
<1>7. ~CutBy(nand, C, nseq, e)
  <2>1. ASSUME NEW c \in C PROVE ~(0 > SizeLeft(At(nand, c)))
    <3>1. At(nand, c).size \in 0 .. FileChunks
      BY LogAddr
    <3>2. SizeLeft(At(nand, c)) \in Nat
      BY <3>1, Geometry DEF SizeLeft
    <3>3. QED
      BY <3>2
  <2>2. QED
    BY <1>5, <2>1 DEF CutBy
<1>8. e = h
  BY <1>1, <1>5, <1>6, <1>7, FoundLive
<1>9. e # None
  <2>1. e \in Addr
    BY <1>5, LogAddr
  <2>2. QED
    BY <2>1, Distinct
<1>10. Newest(nand, C, nseq, e)
  BY <1>2, <1>4, <1>5 DEF Newest
<1>11. QED
  BY <1>2, <1>8, <1>9, <1>10

LEMMA LastSeqMax ==
  ASSUME nseq \in [Blocks -> Nat]
  PROVE  LastSeq \in Nat /\ \A b \in Blocks : NeedsScanning(b) => nseq[b] <= LastSeq
<1>1. PICK S : S = {x \in Blocks : NeedsScanning(x)}
  OBVIOUS
<1>2. PICK T : T = {nseq[b] : b \in S}
  OBVIOUS
<1>3. S \subseteq Blocks /\ IsFiniteSet(S)
  BY <1>1, Geometry, FS_Subset
<1>4. PICK h : h = [b \in S |-> nseq[b]]
  OBVIOUS
<1>5. h \in Surjection(S, T)
  BY <1>2, <1>4 DEF Surjection
<1>6. IsFiniteSet(T)
  BY <1>3, <1>5, FS_Surjection
<1>7. PICK U : U = {0} \cup T
  OBVIOUS
<1>8. IsFiniteSet(U)
  <2>1. T \cup {0} = U
    BY <1>7
  <2>2. QED
    BY <1>6, <2>1, FS_AddElement
<1>9. U \in SUBSET Int /\ U # {} /\ U \in SUBSET Nat
  BY <1>2, <1>3, <1>7
<1>10. LastSeq = Max(U)
  BY <1>1, <1>2, <1>7 DEF LastSeq
<1>11. Max(U) \in U /\ \A y \in U : Max(U) >= y
  BY <1>8, <1>9, MaxLemma
<1>12. \A b \in Blocks : NeedsScanning(b) => nseq[b] \in U
  BY <1>1, <1>2, <1>7
<1>13. \A b \in Blocks : NeedsScanning(b) => Max(U) >= nseq[b]
  BY <1>11, <1>12
<1>14. Max(U) \in Nat
  BY <1>9, <1>11
<1>15. \A b \in Blocks : NeedsScanning(b) => nseq[b] <= Max(U)
  BY <1>13, <1>14
<1>16. QED
  BY <1>10, <1>14, <1>15

(* The block table of a scan.                                              *)
LEMMA ScannedBlockIs ==
  ASSUME NEW b \in Blocks, NEW r, r = ScannedBlock(Live, b)
  PROVE  /\ r.state = "dead" <=> b \in bad
         /\ r.state = "empty" => ~NeedsScanning(b) /\ b \notin bad
         /\ r.state = "dirty" => ~r.shrink
         /\ r.state = "allocating" => NeedsScanning(b) /\ nseq[b] = LastSeq
         /\ NeedsScanning(b) => r.seq = nseq[b]
         /\ r.softDel = 0
         /\ r.shrink <=> \E h \in Log : h[1] = b /\ IsShrink(h)
         /\ r.bits = {p \in Pages : <<b, p>> \in Live}
<1>1. PICK bits : bits = {p \in Pages : <<b, p>> \in Live}
  OBVIOUS
<1>2. PICK shrunk \in BOOLEAN : shrunk = \E h \in Log : h[1] = b /\ IsShrink(h)
  OBVIOUS
<1>3. PICK tail \in BOOLEAN : tail = (FirstFree(b) <= ChunksPerBlock /\ nseq[b] = LastSeq)
  OBVIOUS
<1>4. PICK state : state = IF b \in bad THEN "dead"
                 ELSE IF ~NeedsScanning(b) THEN "empty"
                 ELSE IF tail THEN "allocating"
                 ELSE IF bits = {} /\ ~shrunk THEN "dirty" ELSE "full"
  OBVIOUS
<1>5. PICK seq : seq = IF NeedsScanning(b) THEN nseq[b] ELSE 0
  OBVIOUS
<1>6. PICK retire \in BOOLEAN : retire = (state \in {"full", "dirty"} /\ FirstFree(b) <= ChunksPerBlock)
  OBVIOUS
<1>7. PICK n : n = Cardinality(bits)
  OBVIOUS
<1>8. r = [state |-> state, seq |-> seq, bits |-> bits, pagesInUse |-> n, softDel |-> 0,
           shrink |-> shrunk, retire |-> retire]
  BY <1>1, <1>2, <1>3, <1>4, <1>5, <1>6, <1>7 DEF ScannedBlock
<1>9. b \in bad => ~NeedsScanning(b)
  BY DEF NeedsScanning
<1>10. r.state = state /\ r.seq = seq /\ r.bits = bits /\ r.softDel = 0 /\ r.shrink = shrunk
  BY <1>8
<1>11. /\ state = "dead" <=> b \in bad
       /\ state = "empty" => ~NeedsScanning(b) /\ b \notin bad
       /\ state = "dirty" => ~shrunk
       /\ state = "allocating" => NeedsScanning(b) /\ tail
  BY <1>4
<1>12. r.shrink <=> \E h \in Log : h[1] = b /\ IsShrink(h)
  BY <1>2, <1>10
<1>13. QED
  BY <1>1, <1>3, <1>5, <1>10, <1>11, <1>12

LEMMA ScannedSide ==
  ASSUME nand \in Flash, nseq \in [Blocks -> Nat], FirstOk(nand), Apart(nand, nseq, bad),
         NEW C, C = LogOf(nand, bad), NEW e, e = ScannedDevice
  PROVE  /\ SideOk(nand, nseq, bad, e) /\ Bits(e) = Live
         /\ \A h \in C : Cuts(nand, C, nseq, h) => h[1] \in Flagged(e)
<1>1. PICK t : t = ScannedTable
  OBVIOUS
<1>2. PICK tail, a, p, l : /\ tail = InState(t, {"allocating"})
                           /\ a = IF tail = {} THEN None ELSE CHOOSE b \in tail : TRUE
                           /\ p = IF tail = {} THEN 1 ELSE FirstFree(a)
                           /\ l = LastSeq
  OBVIOUS
<1>3. e.blk = t /\ e.alloc = a /\ e.page = p /\ e.seq = l
  BY <1>1, <1>2 DEF ScannedDevice, ScannedTable
<1>4. l \in Nat /\ \A b \in Blocks : NeedsScanning(b) => nseq[b] <= l
  BY <1>2, LastSeqMax
<1>5. ASSUME NEW b \in Blocks
      PROVE  LET r == t[b] IN
             /\ r.state = "dead" <=> b \in bad
             /\ r.state = "empty" => ~NeedsScanning(b) /\ b \notin bad
             /\ r.state = "dirty" => ~r.shrink
             /\ r.state = "allocating" => NeedsScanning(b) /\ nseq[b] = l
             /\ NeedsScanning(b) => r.seq = nseq[b]
             /\ r.shrink <=> \E h \in Log : h[1] = b /\ IsShrink(h)
             /\ r.bits = {x \in Pages : <<b, x>> \in Live}
  <2>1. PICK r : r = ScannedBlock(Live, b)
    OBVIOUS
  <2>2. t[b] = r
    BY <1>1, <2>1 DEF ScannedTable
  <2>3. QED
    BY <1>2, <2>1, <2>2, ScannedBlockIs
<1>6. \A b \in Blocks : NeedsScanning(b) <=> b \notin bad /\ nand[b] # <<>>
  BY LogIs
<1>7. \A b \in Blocks : t[b].state = "allocating" => b = a
  <2>1. ASSUME NEW b \in Blocks, t[b].state = "allocating", b # a PROVE FALSE
    <3>1. b \in tail
      BY <1>2, <2>1 DEF InState
    <3>2. a \in tail
      BY <1>2, <3>1
    <3>3. a \in Blocks /\ t[a].state = "allocating"
      BY <1>2, <3>2 DEF InState
    <3>4. nseq[a] = l /\ nseq[b] = l /\ NeedsScanning(a) /\ NeedsScanning(b)
      BY <1>5, <2>1, <3>3
    <3>5. a \in Blocks \ bad /\ b \in Blocks \ bad /\ nand[a] # <<>> /\ nand[b] # <<>>
      BY <1>6, <2>1, <3>3, <3>4
    <3>6. nseq[a] # nseq[b]
      BY <2>1, <3>5 DEF Apart
    <3>7. QED
      BY <3>4, <3>6
  <2>2. QED
    BY <2>1
<1>8. a # None => /\ a \in Blocks /\ t[a].state = "allocating" /\ p = FirstFree(a)
                  /\ NeedsScanning(a) /\ nseq[a] = l /\ t[a].seq = l
  <2>1. ASSUME a # None PROVE a \in Blocks /\ t[a].state = "allocating" /\ p = FirstFree(a)
    BY <1>2, <2>1 DEF InState
  <2>2. QED
    BY <1>5, <2>1
<1>9. ASSUME NEW b \in Blocks PROVE BlockSide(nand, nseq, bad, e, b)
  <2>1. PICK r : r = t[b] /\ e.blk[b] = r
    BY <1>3
  <2>2. /\ r.state = "dead" <=> b \in bad
        /\ r.state = "empty" => nand[b] = <<>>
        /\ r.state = "dirty" => ~r.shrink
        /\ r.state = "allocating" => b = a
    BY <1>5, <1>6, <1>7, <2>1
  <2>3. ASSUME b \notin bad, nand[b] # <<>> PROVE r.seq = nseq[b] /\ nseq[b] <= l
    BY <1>4, <1>5, <1>6, <2>1, <2>3
  <2>4. ASSUME b \notin bad, nand[b] # <<>>, a # None, b # a PROVE nseq[b] < l
    <3>1. a \in Blocks \ bad /\ nand[a] # <<>> /\ nseq[a] = l
      BY <1>6, <1>8, <2>4
    <3>2. nseq[b] # l
      BY <2>4, <3>1 DEF Apart
    <3>3. nseq[b] <= l /\ nseq[b] \in Nat
      BY <2>3, <2>4
    <3>4. QED
      BY <1>4, <3>2, <3>3
  <2>5. QED
    BY <1>3, <2>1, <2>2, <2>3, <2>4 DEF BlockSide
<1>10. ASSUME a # None, NEW y \in Pages, y >= p, y <= Len(nand[a]) PROVE nand[a][y] = Torn
  <2>1. a \in Blocks /\ p = FirstFree(a)
    BY <1>8, <1>10
  <2>2. p \in Nat /\ (<<a, y>> \in Readable => y < p)
    BY <2>1, FirstFreeOk
  <2>3. <<a, y>> \notin Readable
    BY <1>10, <2>2, Geometry DEF Pages
  <2>4. <<a, y>> \in Addr /\ <<a, y>>[1] = a /\ <<a, y>>[2] = y
    BY <2>1, AddrPair
  <2>5. QED
    BY <1>10, <2>3, <2>4 DEF Readable
<1>11. SideOk(nand, nseq, bad, e)
  BY <1>3, <1>8, <1>9, <1>10 DEF SideOk
<1>12. Bits(e) = Live
  <2>1. Live \subseteq Addr
    BY ScannedLog, LogAddr
  <2>2. \A c \in Addr : c \in Bits(e) <=> c \in Live
    <3>1. ASSUME NEW c \in Addr PROVE c \in Bits(e) <=> c \in Live
      <4>1. c[1] \in Blocks /\ c[2] \in Pages /\ c = <<c[1], c[2]>>
        BY AddrPair
      <4>2. PICK b, y : b = c[1] /\ y = c[2] /\ c = <<b, y>> /\ b \in Blocks /\ y \in Pages
        BY <4>1
      <4>3. y \in t[b].bits <=> <<b, y>> \in Live
        BY <1>5, <4>2
      <4>4. c \in Bits(e) <=> y \in e.blk[b].bits
        BY <4>2 DEF Bits
      <4>5. QED
        BY <1>3, <4>2, <4>3, <4>4
    <3>2. QED
      BY <3>1
  <2>3. Bits(e) \subseteq Addr
    BY DEF Bits
  <2>4. QED
    BY <2>1, <2>2, <2>3
<1>13. ASSUME NEW h \in C, Cuts(nand, C, nseq, h) PROVE h[1] \in Flagged(e)
  <2>1. h \in Log /\ IsShrink(h)
    BY <1>13, ScannedLog
  <2>2. PICK b : b = h[1] /\ b \in Blocks
    BY LogAddr
  <2>3. t[b].shrink
    BY <1>5, <2>1, <2>2
  <2>4. QED
    BY <1>3, <2>2, <2>3 DEF Flagged
<1>14. QED
  BY <1>11, <1>12, <1>13

(* w is what a scan leaves in memory of a file some page of the log names.  *)
ReadBack(w, f) ==
  /\ w.here /\ ~w.deleted /\ w.hdr = Found(Live, f, 0) /\ w.size = ScanSize(f)
  /\ w.dir = (IF w.hdr = None THEN "lost+found" ELSE Tag(w.hdr).dir)
  /\ \A k \in 1 .. FileChunks : w.tnode[k] = Found(Live, f, k)
  /\ w.nData = Cardinality({k \in 1 .. FileChunks : w.tnode[k] # None})

(* A file after the scan.                                                  *)
LEMMA ScannedObjectIs ==
  ASSUME nand \in Flash, NEW f \in Files, NEW w, w = ScannedObject(Live, f)
  PROVE  /\ (\A c \in Log : Tag(c).file # f) => w = NoObject
         /\ (\E c \in Log : Tag(c).file = f) => ReadBack(w, f)
<1>1. CASE \A c \in Log : Tag(c).file # f
  BY <1>1 DEF ScannedObject
<1>2. CASE ~ \A c \in Log : Tag(c).file # f
  <2> DEFINE h == Found(Live, f, 0)
             t == [k \in 1 .. FileChunks |-> Found(Live, f, k)]
             dir == IF h = None THEN "lost+found" ELSE Tag(h).dir
             size == ScanSize(f)
             n == Cardinality({k \in 1 .. FileChunks : t[k] # None})
  <2>1. PICK r : r = NoObject
    OBVIOUS
  <2>2. ScannedObject(Live, f)
          = [NoObject EXCEPT !.here = TRUE, !.hdr = h, !.dir = dir, !.size = size, !.tnode = t, !.nData = n]
    BY <1>2, Zenon DEF ScannedObject
  <2>3. h = Found(Live, f, 0) /\ size = ScanSize(f)
    OBVIOUS
  <2>4. \A k \in 1 .. FileChunks : t[k] = Found(Live, f, k)
    OBVIOUS
  <2>5. dir = IF h = None THEN "lost+found" ELSE Tag(h).dir
    OBVIOUS
  <2>6. n = Cardinality({k \in 1 .. FileChunks : t[k] # None})
    OBVIOUS
  <2> HIDE DEF h, t, dir, size, n
  <2>7. w = [r EXCEPT !.here = TRUE, !.hdr = h, !.dir = dir, !.size = size, !.tnode = t, !.nData = n]
    BY <2>1, <2>2
  <2>8. r \in Objects /\ r.deleted = FALSE
    BY <2>1, NoObjectType DEF NoObject
  <2>9. /\ w.here = TRUE /\ w.hdr = h /\ w.dir = dir /\ w.size = size /\ w.tnode = t /\ w.nData = n
        /\ w.deleted = r.deleted
    BY <2>7, <2>8 DEF Objects
  <2>10. w.here /\ ~w.deleted
    BY <2>8, <2>9
  <2>11. ReadBack(w, f)
    BY <2>3, <2>4, <2>5, <2>6, <2>9, <2>10 DEF ReadBack
  <2>12. QED
    BY <1>2, <2>11
<1>3. QED
  BY <1>1, <1>2

LEMMA ScanSizeBounds ==
  ASSUME nand \in Flash, NEW f
  PROVE  /\ \A h \in Log : IsHeaderOf(h, f) => Tag(h).size <= ScanSize(f)
         /\ \A d \in Log : Tag(d).file = f /\ (~\E h \in Log : IsHeaderOf(h, f) /\ Newer(h, d))
              => Tag(d).chunk <= ScanSize(f)
         /\ \/ ScanSize(f) = 0
            \/ \E h \in Log : IsHeaderOf(h, f) /\ ScanSize(f) = Tag(h).size
            \/ \E d \in Log : /\ Tag(d).file = f /\ ~\E h \in Log : IsHeaderOf(h, f) /\ Newer(h, d)
                              /\ ScanSize(f) = Tag(d).chunk
<1>1. PICK A : A = {Tag(h).size : h \in {c \in Log : IsHeaderOf(c, f)}}
  OBVIOUS
<1>2. PICK B : B = {Tag(c).chunk : c \in {d \in Log : /\ Tag(d).file = f
                                                      /\ ~\E h \in Log : IsHeaderOf(h, f) /\ Newer(h, d)}}
  OBVIOUS
<1>3. A \subseteq 0 .. FileChunks
  BY <1>1, TagType, LogReadable
<1>4. B \subseteq 0 .. FileChunks
  BY <1>2, TagType, LogReadable
<1>5. ScanSize(f) = Max({0} \cup A \cup B)
  BY <1>1, <1>2 DEF ScanSize
<1>6. {0} \cup A \cup B = {0} \cup (A \cup B)
  OBVIOUS
<1>7. FileChunks \in Nat
  BY Geometry
<1>8. PICK S \in SUBSET (0 .. FileChunks) : S = A \cup B
  BY <1>3, <1>4
<1>9. PICK z : z = ScanSize(f)
  OBVIOUS
<1>10. z \in {0} \cup S /\ \A y \in S : y <= z
  <2>1. Max({0} \cup S) \in {0} \cup S /\ \A x \in S : x <= Max({0} \cup S)
    BY <1>7, IntervalMax
  <2>2. z = Max({0} \cup S)
    BY <1>5, <1>6, <1>8, <1>9
  <2>3. QED
    BY <2>1, <2>2
<1>11. \A h \in Log : IsHeaderOf(h, f) => Tag(h).size <= z
  BY <1>1, <1>8, <1>10
<1>12. \A d \in Log : Tag(d).file = f /\ (~\E h \in Log : IsHeaderOf(h, f) /\ Newer(h, d))
         => Tag(d).chunk <= z
  <2>1. ASSUME NEW d \in Log, Tag(d).file = f, ~\E h \in Log : IsHeaderOf(h, f) /\ Newer(h, d)
        PROVE  Tag(d).chunk \in S
    <3>1. Tag(d).chunk \in B
      BY <1>2, <2>1
    <3>2. QED
      BY <1>8, <3>1
  <2>2. QED
    BY <1>10, <2>1
<1>13. z = 0 \/ z \in A \/ z \in B
  BY <1>8, <1>10
<1>14. z \in A => \E h \in Log : IsHeaderOf(h, f) /\ z = Tag(h).size
  BY <1>1
<1>15. z \in B => \E d \in Log : /\ Tag(d).file = f /\ ~\E h \in Log : IsHeaderOf(h, f) /\ Newer(h, d)
                                 /\ z = Tag(d).chunk
  BY <1>2
<1>16. QED
  BY <1>9, <1>11, <1>12, <1>13, <1>14, <1>15

LEMMA ScannedNothing ==
  ASSUME NEW n, NEW C, NEW s, NEW K, NEW F, NEW S, NEW f, \A c \in C : At(n, c).file # f
  PROVE  FileOk(n, C, s, K, F, S, NoObject, {}, f)
<1>1. PICK w : w = NoObject
  OBVIOUS
<1>2. /\ ~w.here /\ ~w.deleted /\ w.hdr = None /\ w.dir = "root" /\ w.nData = 0
      /\ \A k \in 1 .. FileChunks : w.tnode[k] = None
  BY <1>1, NoObjectType DEF NoObject
<1>3. UseOk(n, C, K, S, w, f) /\ HeaderOk(n, C, s, w, {}, f) /\ GoneOk(n, C, s, F, w, f)
      /\ DataOk(n, C, s, F, w, {}, f)
  BY <1>2 DEF UseOk, HeaderOk, GoneOk, DataOk
<1>4. ObjectOk(w, {}) /\ CallOk(w, {})
  BY <1>2 DEF ObjectOk, CallOk
<1>5. QED
  BY <1>1, <1>3, <1>4 DEF FileOk

LEMMA ScannedFile ==
  ASSUME nand \in Flash, nseq \in [Blocks -> Nat], FirstOk(nand), Apart(nand, nseq, bad),
         NEW C, C = LogOf(nand, bad), LogInv(nand, C, nseq), ~Stray,
         NEW F, \A h \in C : Cuts(nand, C, nseq, h) => h[1] \in F, NEW S,
         NEW f \in Files, NEW w, w = ScannedObject(Live, f),
         NEW q, \A x \in q : x.op = "destroy" /\ w.here /\ w.dir # "root"
  PROVE  FileOk(nand, C, nseq, Live, F, S, w, q, f)
<1>1. /\ Log = C /\ IsFiniteSet(C) /\ Live \subseteq C /\ Ordered(C, nseq)
      /\ \A c \in C : c \in Live <=> ~Older(nand, C, nseq, c) /\ ~CutBy(nand, C, nseq, c)
      /\ \A c \in C : Superseded(c) <=> Older(nand, C, nseq, c)
      /\ \A c : Tag(c) = At(nand, c)
      /\ \A c, e : Newer(c, e) = Later(nseq, c, e)
  BY ScannedLog
<1>2. CASE \A c \in Log : Tag(c).file # f
  <2>1. w = NoObject
    BY ONLY <1>2, nand \in Flash, f \in Files, w = ScannedObject(Live, f), ScannedObjectIs
  <2>2. q = {}
    BY <2>1 DEF NoObject
  <2>3. QED
    BY <1>1, <1>2, <2>1, <2>2, ScannedNothing
<1>3. CASE \E c \in Log : Tag(c).file = f
  <2>1. /\ w.here /\ ~w.deleted /\ w.hdr = Found(Live, f, 0) /\ w.size = ScanSize(f)
        /\ w.dir = (IF w.hdr = None THEN "lost+found" ELSE Tag(w.hdr).dir)
        /\ \A k \in 1 .. FileChunks : w.tnode[k] = Found(Live, f, k)
        /\ w.nData = Cardinality({k \in 1 .. FileChunks : w.tnode[k] # None})
    <3>1. nand \in Flash /\ f \in Files /\ w = ScannedObject(Live, f)
      OBVIOUS
    <3>2. ReadBack(w, f)
      BY ONLY <1>3, <3>1, ScannedObjectIs
    <3>3. QED
      BY <3>2 DEF ReadBack
  <2>2. PICK h : h = w.hdr
    OBVIOUS
  <2>3. Of(nand, C, f, 0) # {}
    BY <1>1, <1>3 DEF LogInv
  <2>4. h # None /\ h \in Of(nand, C, f, 0) /\ Newest(nand, C, nseq, h)
    BY <2>1, <2>2, <2>3, FoundHeader
  <2>5. h \in C /\ At(nand, h).file = f /\ At(nand, h).chunk = 0 /\ w.dir = At(nand, h).dir
    BY <1>1, <2>1, <2>2, <2>4 DEF Of
  <2>6. \A c \in Of(nand, C, f, 0) : c = h \/ Later(nseq, h, c)
    BY <2>4, <2>5 DEF Newest
  <2>7. \A x \in Of(nand, C, f, 0) : At(nand, x).shrink \/ (At(nand, x).dir # "root" /\ x # h)
          => Cuts(nand, C, nseq, x)
    <3>1. ASSUME NEW x \in Of(nand, C, f, 0), x # h PROVE Older(nand, C, nseq, x)
      <4>1. x \in C /\ At(nand, x).file = f /\ At(nand, x).chunk = 0
        BY DEF Of
      <4>2. Later(nseq, h, x)
        BY <2>6, <3>1
      <4>3. QED
        BY <2>5, <4>1, <4>2 DEF Older
    <3>2. QED
      BY <3>1 DEF Cuts, Of
  <2>8. ASSUME NEW k \in 1 .. FileChunks
        PROVE  /\ w.tnode[k] # None => /\ w.tnode[k] \in Live /\ w.tnode[k] \in C
                                       /\ At(nand, w.tnode[k]).file = f /\ At(nand, w.tnode[k]).chunk = k
               /\ \A e \in Live : At(nand, e).file = f /\ At(nand, e).chunk = k => e = w.tnode[k]
               /\ \A e \in Of(nand, C, f, k) : w.tnode[k] # None /\ e # w.tnode[k] => Later(nseq, w.tnode[k], e)
    BY <2>1, FoundLive
  <2>9. \A c \in C : At(nand, c).chunk \in 0 .. FileChunks /\ (At(nand, c).chunk # 0 => At(nand, c).chunk \in 1 .. FileChunks)
    <3>1. \A c \in C : At(nand, c).chunk \in 0 .. FileChunks
      BY LogAddr
    <3>2. QED
      BY <3>1, Geometry
  <2>10. \A c \in Live : At(nand, c).file = f => OwnOf(w, At(nand, c).chunk) = c
    <3>1. ASSUME NEW c \in Live, At(nand, c).file = f PROVE OwnOf(w, At(nand, c).chunk) = c
      <4>1. c \in C
        BY <1>1
      <4>2. CASE At(nand, c).chunk = 0
        <5>1. c = Found(Live, f, 0)
          BY <3>1, <4>2, FoundLive
        <5>2. QED
          BY <2>1, <4>2, <5>1 DEF OwnOf
      <4>3. CASE At(nand, c).chunk # 0
        BY <2>8, <2>9, <3>1, <4>1, <4>3 DEF OwnOf
      <4>4. QED
        BY <4>2, <4>3
    <3>2. QED
      BY <3>1
  <2>11. UseOk(nand, C, Live, S, w, f)
    <3>1. PICK U, V : /\ U = InUse(nand, C, Live, f)
                      /\ V = {k \in 1 .. FileChunks : w.tnode[k] # None}
      OBVIOUS
    <3>2. PICK g : g = [c \in U |-> At(nand, c).chunk]
      OBVIOUS
    <3>3. ASSUME NEW c \in U PROVE c \in Live /\ At(nand, c).chunk \in V /\ w.tnode[At(nand, c).chunk] = c
      <4>1. c \in C /\ c \in Live /\ At(nand, c).file = f /\ At(nand, c).chunk # 0
        BY <3>1 DEF InUse
      <4>2. At(nand, c).chunk \in 1 .. FileChunks
        BY <2>9, <4>1
      <4>3. w.tnode[At(nand, c).chunk] = c
        BY <2>8, <4>1, <4>2
      <4>4. c # None
        BY <4>1, LogShape
      <4>5. QED
        BY <3>1, <4>1, <4>2, <4>3, <4>4
    <3>4. g \in Injection(U, V)
      BY <3>2, <3>3 DEF Injection, IsInjective
    <3>5. IsFiniteSet(V)
      <4>1. 1 \in Int /\ FileChunks \in Int
        BY Geometry
      <4>2. IsFiniteSet(1 .. FileChunks)
        BY <4>1, FS_Interval
      <4>3. QED
        BY <3>1, <4>2, FS_Subset
    <3>6. Cardinality(U) <= Cardinality(V)
      BY <3>4, <3>5, FS_Injection
    <3>7. QED
      BY <2>1, <2>10, <3>1, <3>6 DEF UseOk
  <2>12. HeaderOk(nand, C, nseq, w, q, f)
    <3>1. At(nand, h).size <= w.size
      <4>1. ~Superseded(h)
        <5>1. ASSUME NEW c \in C, At(nand, c).file = f, At(nand, c).chunk = 0, Later(nseq, c, h) PROVE FALSE
          <6>1. c = h \/ Later(nseq, h, c)
            BY <2>6, <5>1 DEF Of
          <6>2. QED
            BY <1>1, <2>5, <5>1, <6>1 DEF Ordered
        <5>2. QED
          BY <1>1, <2>5, <5>1 DEF Older
      <4>2. IsHeaderOf(h, f) /\ h \in Log
        BY <1>1, <2>5, <4>1 DEF IsHeaderOf
      <4>3. QED
        BY <1>1, <2>1, <4>2, ScanSizeBounds
    <3>2. QED
      BY <2>2, <2>5, <2>6, <3>1 DEF HeaderOk
  <2>13. ASSUME At(nand, h).dir = "deleted", NEW c \in C, At(nand, c).file = f
         PROVE  IsTomb(At(nand, c)) \/ Buried(nand, C, nseq, F, c)
    <3>1. SUFFICES ASSUME ~IsTomb(At(nand, c)) PROVE Buried(nand, C, nseq, F, c)
      OBVIOUS
    <3>2. PICK x \in Of(nand, C, f, 0) : At(nand, x).dir = "deleted" /\ At(nand, x).shrink /\ Later(nseq, x, c)
      BY <2>4, <2>5, <2>13, <3>1 DEF LogInv
    <3>3. x \in C /\ x[1] \in F
      BY <2>7, <3>2 DEF Of
    <3>4. QED
      BY <2>13, <3>2, <3>3 DEF Buried, Guard
  <2>14. GoneOk(nand, C, nseq, F, w, f)
    BY <2>2, <2>4, <2>13 DEF GoneOk
  <2>15. ASSUME At(nand, h).dir = "root", NEW k \in 1 .. FileChunks, NEW e \in Of(nand, C, f, k),
                NEW x \in Of(nand, C, f, 0), At(nand, x).dir # "root", Later(nseq, x, e)
         PROVE  Barred(nand, C, nseq, F, e)
    <3>1. e \in C /\ At(nand, e).file = f /\ At(nand, e).chunk = k /\ k # 0
      BY DEF Of
    <3>2. PICK y \in Of(nand, C, f, 0) :
             At(nand, y).shrink /\ At(nand, e).chunk > SizeLeft(At(nand, y)) /\ Later(nseq, y, e)
      BY <2>4, <2>5, <2>15, <3>1 DEF LogInv
    <3>3. y \in C /\ y[1] \in F
      BY <2>7, <3>2 DEF Of
    <3>4. QED
      BY <3>1, <3>2, <3>3 DEF Barred, Guard
  <2>16. ASSUME At(nand, h).dir = "root", NEW k \in 1 .. FileChunks, NEW e \in Of(nand, C, f, k),
                e = w.tnode[k], NEW x \in C, At(nand, x).file = f, Later(nseq, x, e)
         PROVE  ~Cutter(At(nand, x), k)
    <3>1. SUFFICES ASSUME Cutter(At(nand, x), k) PROVE FALSE
      OBVIOUS
    <3>2. e \in C /\ At(nand, e).file = f /\ At(nand, e).chunk = k
      BY DEF Of
    <3>3. x \in Of(nand, C, f, 0) /\ k > SizeLeft(At(nand, x))
          /\ (At(nand, x).shrink \/ At(nand, x).dir # "root")
      BY <2>16, <3>1 DEF Cutter, Of
    <3>4. Cuts(nand, C, nseq, x)
      BY <2>7, <2>16, <3>3
    <3>5. CutBy(nand, C, nseq, e)
      BY <2>16, <3>2, <3>3, <3>4 DEF CutBy
    <3>6. e # None
      BY <3>2, LogShape
    <3>7. e \in Live
      BY <2>8, <2>16, <3>6
    <3>8. QED
      BY <1>1, <3>2, <3>5, <3>7
  <2>17. ASSUME At(nand, h).dir = "root", NEW k \in 1 .. FileChunks, NEW e \in Of(nand, C, f, k),
                w.tnode[k] = None
         PROVE  Barred(nand, C, nseq, F, e)
    <3>1. PICK T : T = Of(nand, C, f, k)
      OBVIOUS
    <3>2. T \subseteq C /\ IsFiniteSet(T) /\ T # {}
      BY <1>1, <3>1, FS_Subset DEF Of
    <3>3. PICK a \in T : \A c \in T : c = a \/ Later(nseq, a, c)
      BY <1>1, <3>2, NewestExists
    <3>4. a \in C /\ At(nand, a).file = f /\ At(nand, a).chunk = k
      BY <3>1 DEF Of
    <3>5. a \notin Live
      <4>1. a # None
        BY <3>4, LogShape
      <4>2. QED
        BY <2>8, <2>17, <3>4, <4>1
    <3>6. ~Older(nand, C, nseq, a)
      <4>1. ASSUME NEW c \in C, At(nand, c).file = f, At(nand, c).chunk = k, Later(nseq, c, a) PROVE FALSE
        <5>1. c = a \/ Later(nseq, a, c)
          BY <3>1, <3>3, <4>1 DEF Of
        <5>2. QED
          BY <1>1, <3>4, <4>1, <5>1 DEF Ordered
      <4>2. QED
        BY <3>4, <4>1 DEF Older
    <3>7. PICK x \in C : /\ At(nand, x).file = f /\ k > SizeLeft(At(nand, x))
                         /\ Later(nseq, x, a) /\ Cuts(nand, C, nseq, x)
      BY <1>1, <3>4, <3>5, <3>6 DEF CutBy
    <3>8. x \in Of(nand, C, f, 0) /\ (At(nand, x).shrink \/ At(nand, x).dir # "root")
      BY <3>7 DEF Cuts, Of
    <3>9. Later(nseq, x, e)
      <4>1. e = a \/ Later(nseq, a, e)
        BY <3>1, <3>3
      <4>2. e \in C
        BY DEF Of
      <4>3. QED
        BY <1>1, <3>4, <3>7, <4>1, <4>2 DEF Ordered
    <3>10. CASE At(nand, x).shrink
      <4>1. x[1] \in F
        BY <3>7
      <4>2. At(nand, e).file = f /\ At(nand, e).chunk = k
        BY DEF Of
      <4>3. QED
        BY <3>7, <3>8, <3>9, <3>10, <4>1, <4>2 DEF Barred, Guard
    <3>11. CASE At(nand, x).dir # "root"
      BY <2>15, <2>17, <3>8, <3>9, <3>11
    <3>12. QED
      BY <3>8, <3>10, <3>11
  <2>18. ASSUME NEW k \in 1 .. FileChunks, NEW e \in Of(nand, C, f, k), Later(nseq, e, h)
         PROVE  k <= w.size
    <3>1. e \in C /\ At(nand, e).file = f /\ At(nand, e).chunk = k
      BY DEF Of
    <3>2. ASSUME NEW x \in Log, IsHeaderOf(x, f), Newer(x, e) PROVE FALSE
      <4>1. x \in C /\ At(nand, x).file = f /\ At(nand, x).chunk = 0 /\ ~Older(nand, C, nseq, x) /\ Later(nseq, x, e)
        BY <1>1, <3>2 DEF IsHeaderOf
      <4>2. x = h
        <5>1. x = h \/ Later(nseq, h, x)
          BY <2>6, <4>1 DEF Of
        <5>2. QED
          BY <2>5, <4>1, <5>1 DEF Older
      <4>3. QED
        BY <1>1, <2>5, <2>18, <3>1, <4>1, <4>2 DEF Ordered
    <3>3. QED
      BY <1>1, <2>1, <3>1, <3>2, ScanSizeBounds
  <2>19. DataOk(nand, C, nseq, F, w, q, f)
    BY <2>2, <2>8, <2>15, <2>16, <2>17, <2>18 DEF DataOk
  <2>20. ASSUME w.dir = "deleted", NEW k \in 1 .. FileChunks PROVE w.tnode[k] = None
    <3>1. SUFFICES ASSUME w.tnode[k] # None PROVE FALSE
      OBVIOUS
    <3>2. PICK c : c = w.tnode[k] /\ c \in Live /\ c \in C /\ At(nand, c).file = f /\ At(nand, c).chunk = k
      BY <2>8, <3>1
    <3>3. ~IsTomb(At(nand, c))
      BY <3>2 DEF IsTomb
    <3>4. PICK x \in Of(nand, C, f, 0) : At(nand, x).dir = "deleted" /\ At(nand, x).shrink /\ Later(nseq, x, c)
      <4>1. At(nand, h).dir = "deleted" /\ h \in C /\ At(nand, h).chunk = 0 /\ Newest(nand, C, nseq, h)
        BY <2>4, <2>5, <2>20
      <4>2. c \in C /\ At(nand, c).file = At(nand, h).file /\ At(nand, c).file = f
        BY <2>5, <3>2
      <4>3. QED
        BY <3>3, <4>1, <4>2 DEF LogInv
    <3>5. x \in C /\ At(nand, x).file = f /\ Cuts(nand, C, nseq, x)
      BY <2>7, <3>4 DEF Of
    <3>6. k > SizeLeft(At(nand, x))
      BY <3>4 DEF SizeLeft
    <3>7. CutBy(nand, C, nseq, c)
      BY <3>2, <3>4, <3>5, <3>6 DEF CutBy
    <3>8. QED
      BY <1>1, <3>2, <3>7
  <2>21. w.dir = "deleted" => w.nData = 0
    <3>1. SUFFICES ASSUME w.dir = "deleted" PROVE w.nData = 0
      OBVIOUS
    <3>2. {k \in 1 .. FileChunks : w.tnode[k] # None} = {}
      BY <2>20, <3>1
    <3>3. QED
      BY <2>1, <3>2, FS_EmptySet
  <2>22. ASSUME NEW k \in 1 .. FileChunks, w.tnode[k] # None PROVE k <= w.size
    <3>1. PICK c : c = w.tnode[k] /\ c \in Live /\ At(nand, c).file = f /\ At(nand, c).chunk = k
      BY <2>8, <2>22
    <3>2. ~(k > ScanSize(f))
      BY <1>1, <3>1 DEF Stray
    <3>3. ScanSize(f) \in 0 .. FileChunks
      BY ScanSizeType
    <3>4. QED
      BY <2>1, <3>2, <3>3, Geometry
  <2>23. ObjectOk(w, q)
    BY <2>1, <2>2, <2>4, <2>20, <2>21, <2>22 DEF ObjectOk
  <2>24. CallOk(w, q)
    BY <2>2, <2>4 DEF CallOk
  <2>25. QED
    BY <2>11, <2>12, <2>14, <2>19, <2>23, <2>24 DEF FileOk
<1>4. QED
  BY <1>2, <1>3

LEMMA DestroysLeft ==
  ASSUME NEW F \in SUBSET Files, NEW o, \A f \in F : o[f].here /\ ~o[f].deleted,
         NEW z, z = SetToSeq(Destroys(F))
  PROVE  z \in Seq(Ops) /\ \A f : \A x \in Left(z, f) : x.op = "destroy" /\ f \in F
<1>1. z \in Seq(Ops) /\ Only(z, F) /\ \A i \in DOMAIN z : z[i].op = "destroy"
  BY DestroysOk
<1>2. \A i \in DOMAIN z : z[i].file \in F
  BY <1>1 DEF Only, On
<1>3. QED
  BY <1>1, <1>2 DEF Left

(* A mount leaves nothing but the files to destroy.                        *)
LEMMA MountLeft ==
  ASSUME nand \in Flash, nseq \in [Blocks -> Nat], Mount, NEW o, o = ScannedObjects, obj' = o
  PROVE  \E t : /\ todo' = t
                /\ \A f \in Files : \A x \in Left(t, f) :
                     x.op = "destroy" /\ o[f].here /\ o[f].dir # "root"
<1>1. PICK U, D : /\ U = {f \in Files : o[f].here /\ o[f].dir = "unlinked"}
                  /\ D = {f \in Files : o[f].here /\ o[f].dir = "deleted"}
  OBVIOUS
<1>2. PICK y, z, t : y = SetToSeq(Destroys(U)) /\ z = SetToSeq(Destroys(D)) /\ t = y \o z
  OBVIOUS
<1>3. todo' = t
  BY <1>1, <1>2 DEF Mount, Destroys
<1>4. \A f \in Files : ~o[f].deleted
  BY ScannedObjectsOk
<1>5. y \in Seq(Ops) /\ \A f : \A x \in Left(y, f) : x.op = "destroy" /\ f \in U
  <2>1. U \in SUBSET Files /\ \A f \in U : o[f].here /\ ~o[f].deleted
    BY <1>1, <1>4
  <2>2. QED
    BY <1>2, <2>1, DestroysLeft
<1>6. z \in Seq(Ops) /\ \A f : \A x \in Left(z, f) : x.op = "destroy" /\ f \in D
  <2>1. D \in SUBSET Files /\ \A f \in D : o[f].here /\ ~o[f].deleted
    BY <1>1, <1>4
  <2>2. QED
    BY <1>2, <2>1, DestroysLeft
<1>7. \A f : Left(t, f) = Left(y, f) \cup Left(z, f)
  BY <1>2, <1>5, <1>6, LeftConcat
<1>8. \A f \in Files : \A x \in Left(t, f) : x.op = "destroy" /\ o[f].here /\ o[f].dir # "root"
  BY <1>1, <1>5, <1>6, <1>7
<1>9. QED
  BY <1>3, <1>8

LEMMA MountScan ==
  ASSUME GutsInv, ScanInv, Mount
  PROVE  ScanInv'
<1>1. ~mounted /\ mounted' /\ nand' = nand /\ nseq' = nseq /\ bad' = bad
  BY DEF Mount
<1>2. nand \in Flash /\ nseq \in [Blocks -> Nat]
  BY DEF GutsInv
<1>3. FirstOk(nand) /\ Apart(nand, nseq, bad) /\ LogInv(nand, LogOf(nand, bad), nseq) /\ ~Stray
  BY <1>1 DEF ScanInv
<1>4. PICK o, e, C : o = ScannedObjects /\ e = ScannedDevice /\ C = LogOf(nand, bad)
  OBVIOUS
<1>5. obj' = o /\ dev' = e
  BY <1>4 DEF Mount, ScannedObjects
<1>6. PICK t : /\ todo' = t
               /\ \A f \in Files : \A x \in Left(t, f) : x.op = "destroy" /\ o[f].here /\ o[f].dir # "root"
  BY <1>2, <1>4, <1>5, MountLeft
<1>7. /\ SideOk(nand, nseq, bad, e) /\ Bits(e) = Live
      /\ \A h \in C : Cuts(nand, C, nseq, h) => h[1] \in Flagged(e)
  BY <1>2, <1>3, <1>4, ScannedSide
<1>8. ASSUME NEW f \in Files
      PROVE  FileOk(nand, C, nseq, Live, Flagged(e), Soft(e), o[f], Left(t, f), f)
  <2>1. PICK F, S, w, q : F = Flagged(e) /\ S = Soft(e) /\ w = o[f] /\ q = Left(t, f)
    OBVIOUS
  <2>2. w = ScannedObject(Live, f)
    BY <1>4, <2>1 DEF ScannedObjects
  <2>3. \A x \in q : x.op = "destroy" /\ w.here /\ w.dir # "root"
    BY <1>6, <2>1
  <2>4. \A h \in C : Cuts(nand, C, nseq, h) => h[1] \in F
    BY <1>7, <2>1
  <2>5. LogInv(nand, C, nseq)
    BY <1>3, <1>4
  <2>6. FileOk(nand, C, nseq, Live, F, S, w, q, f)
    BY <1>2, <1>3, <1>4, <2>2, <2>3, <2>4, <2>5, ScannedFile
  <2>7. QED
    BY <2>1, <2>6
<1>9. MountedScan(nand, nseq, bad, e, o, t)
  BY <1>3, <1>4, <1>7, <1>8 DEF MountedScan
<1>10. QED
  BY <1>1, <1>5, <1>6, <1>9, MountedAgain

-----------------------------------------------------------------------------
(* The flash that a run starts with.                                       *)
LEMMA ImagePages ==
  ASSUME NEW f \in Files, NEW v \in Values, NEW n, n = Image(f, v)
  PROVE  /\ \A b \in Blocks : \A p \in 1 .. Len(n[b]) :
              /\ n[b][p] \in PagesOfLog /\ n[b][p].file = f /\ n[b][p].dir = "root"
              /\ ~n[b][p].shrink /\ (n[b][p].chunk = 0 => b = 1 /\ p = 1)
         /\ (\E b \in Blocks : n[b] # <<>>) =>
              1 \in Blocks /\ n[1] # <<>> /\ n[1][1].chunk = 0
<1> DEFINE place(b, p) == (b - 1) * ChunksPerBlock + p
           Q(b) == {q \in Pages : place(b, q) <= Prefill}
           page(b, p) == IF place(b, p) = 1 THEN Header(f, "root", 0, FALSE) ELSE Data(f, place(b, p) - 1, v)
<1>1. n = [b \in Blocks |-> [p \in 1 .. Cardinality(Q(b)) |-> page(b, p)]]
  BY Zenon DEF Image
<1>2. \A b \in Blocks : n[b] = [p \in 1 .. Cardinality(Q(b)) |-> page(b, p)]
  <2> HIDE DEF Q, page
  <2>1. QED
    BY <1>1
<1>3. \A b \in Blocks : Cardinality(Q(b)) \in Nat
  BY PagesFinite
<1>4. \A b \in Blocks : Len(n[b]) = Cardinality(Q(b)) /\ \A p \in 1 .. Len(n[b]) : n[b][p] = page(b, p)
  <2> HIDE DEF Q, page
  <2>1. ASSUME NEW b \in Blocks
        PROVE  Len(n[b]) = Cardinality(Q(b)) /\ \A p \in 1 .. Len(n[b]) : n[b][p] = page(b, p)
    <3>1. PICK m \in Nat : m = Cardinality(Q(b))
      BY <1>3
    <3>2. n[b] = [p \in 1 .. m |-> page(b, p)]
      BY <1>2, <3>1
    <3>3. Len(n[b]) = m
      BY <3>2
    <3>4. QED
      BY <3>1, <3>2, <3>3
  <2>2. QED
    BY <2>1
<1>5. \A i, j \in Nat : i # 0 => i * j >= j
  <2>1. ASSUME NEW i \in Nat, NEW j \in Nat, i # 0 PROVE i * j >= j
    <3>1. i - 1 \in Nat /\ i * j = (i - 1) * j + j
      BY <2>1
    <3>2. (i - 1) * j \in Nat
      BY <3>1
    <3>3. QED
      BY <3>1, <3>2
  <2>2. QED
    BY <2>1
<1>6. ASSUME NEW b \in Blocks, NEW p \in 1 .. Len(n[b])
      PROVE  /\ n[b][p] \in PagesOfLog /\ n[b][p].file = f /\ n[b][p].dir = "root"
             /\ ~n[b][p].shrink /\ (n[b][p].chunk = 0 => b = 1 /\ p = 1)
  <2>1. PICK m : m = (b - 1) * ChunksPerBlock
    OBVIOUS
  <2>2. m \in Nat /\ (b # 1 => m >= ChunksPerBlock) /\ (b = 1 => m = 0) /\ ChunksPerBlock >= 2
        /\ ChunksPerBlock \in Nat
    <3>1. b - 1 \in Nat /\ ChunksPerBlock \in Nat /\ ChunksPerBlock >= 2 /\ b \in Nat
      BY Geometry
    <3>2. m \in Nat
      BY <2>1, <3>1
    <3>3. b # 1 => m >= ChunksPerBlock
      <4>1. SUFFICES ASSUME b # 1 PROVE m >= ChunksPerBlock
        OBVIOUS
      <4>2. b - 1 # 0
        BY <3>1, <4>1
      <4>3. QED
        BY <1>5, <2>1, <3>1, <4>2
    <3>4. b = 1 => m = 0
      BY <2>1, <3>1
    <3>5. QED
      BY <3>1, <3>2, <3>3, <3>4
  <2>3. p \in Int /\ p >= 1
    <3>1. Len(n[b]) \in Nat
      <4>1. n[b] \in Seq(PagesOfLog)
        BY ImageType
      <4>2. QED
        BY <4>1
    <3>2. PICK l \in Nat : l = Len(n[b])
      BY <3>1
    <3>3. p \in 1 .. l
      BY <3>2
    <3>4. QED
      BY <3>3
  <2>4. PICK l : l = place(b, p)
    OBVIOUS
  <2>5. l = m + p
    <3> HIDE DEF Q, page
    <3>1. QED
      BY ONLY <2>1, <2>4, Zenon
  <2>6. n[b][p] = IF l = 1 THEN Header(f, "root", 0, FALSE) ELSE Data(f, l - 1, v)
    <3>1. n[b][p] = page(b, p)
      <4>1. \A i \in 1 .. Len(n[b]) : n[b][i] = page(b, i)
        BY <1>4
      <4>2. QED
        BY <4>1
    <3> HIDE DEF place
    <3>2. page(b, p) = IF place(b, p) = 1 THEN Header(f, "root", 0, FALSE) ELSE Data(f, place(b, p) - 1, v)
      OBVIOUS
    <3> HIDE DEF page
    <3>3. QED
      BY ONLY <2>4, <3>1, <3>2, Zenon
  <2>7. n[b][p] \in PagesOfLog
    <3>1. n[b] \in Seq(PagesOfLog)
      BY ImageType
    <3>2. QED
      BY <3>1
  <2>8. n[b][p].file = f /\ n[b][p].dir = "root" /\ ~n[b][p].shrink
    BY <2>6 DEF Header, Data
  <2>9. n[b][p].chunk = 0 => m + p = 1
    <3>1. ASSUME m + p # 1 PROVE n[b][p].chunk # 0
      <4>1. n[b][p].chunk = l - 1
        BY <2>6, <2>5, <3>1 DEF Data
      <4>2. QED
        BY <2>2, <2>3, <2>5, <3>1, <4>1
    <3>2. QED
      BY <3>1
  <2>10. m + p = 1 => b = 1 /\ p = 1
    BY <2>2, <2>3
  <2>11. QED
    BY <2>7, <2>8, <2>9, <2>10
<1>7. ASSUME NEW b \in Blocks, n[b] # <<>> PROVE 1 \in Blocks /\ n[1] # <<>> /\ n[1][1].chunk = 0
  <2>1. Len(n[b]) # 0
    <3>1. n[b] \in Seq(PagesOfLog)
      BY ImageType
    <3>2. QED
      BY <1>7, <3>1
  <2>2. Q(b) # {}
    <3>1. Cardinality(Q(b)) # 0
      BY <1>4, <2>1
    <3>2. QED
      BY <3>1, FS_EmptySet
  <2>3. PICK q \in Pages : place(b, q) <= Prefill
    BY <2>2
  <2>4. Prefill >= 1 /\ Prefill \in Nat /\ 1 \in Blocks
    <3>1. PICK m \in Nat : m = (b - 1) * ChunksPerBlock
      <4>1. b - 1 \in Nat /\ ChunksPerBlock \in Nat
        BY Geometry
      <4>2. (b - 1) * ChunksPerBlock \in Nat
        BY <4>1
      <4>3. QED
        BY <4>2
    <3>2. m + q <= Prefill
      BY <2>3, <3>1
    <3>3. q \in Int /\ q >= 1 /\ Prefill \in Nat
      BY Geometry DEF Pages
    <3>4. Prefill >= 1
      BY <3>1, <3>2, <3>3
    <3>5. QED
      BY <3>3, <3>4, Geometry
  <2>5. place(1, 1) = 1 /\ 1 \in Pages
    BY Geometry DEF Pages
  <2>6. 1 \in Q(1)
    BY <2>4, <2>5
  <2>7. Cardinality(Q(1)) # 0
    <3>1. IsFiniteSet(Q(1)) /\ Q(1) # {}
      BY <2>6, PagesFinite
    <3>2. QED
      BY <3>1, FS_EmptySet
  <2>8. Len(n[1]) = Cardinality(Q(1)) /\ Cardinality(Q(1)) \in Nat
    BY <1>3, <1>4, <2>4
  <2>9. 1 \in 1 .. Len(n[1])
    <3> HIDE DEF Q
    <3>1. QED
      BY <2>7, <2>8
  <2>10. n[1][1] = Header(f, "root", 0, FALSE)
    <3>1. n[1][1] = page(1, 1)
      <4> HIDE DEF page, Q
      <4>1. QED
        BY <1>4, <2>4, <2>9
    <3>2. QED
      BY <2>5, <3>1
  <2>11. n[1] # <<>>
    BY <2>9
  <2>12. QED
    BY <2>4, <2>10, <2>11 DEF Header
<1> HIDE DEF place, Q, page
<1>8. QED
  BY <1>6, <1>7

(* At the start the flash holds at most one file that was written once.    *)
LEMMA InitScan ==
  Init => ScanInv
<1> SUFFICES ASSUME Init PROVE ScanInv
  OBVIOUS
<1>1. PICK f \in Files, v \in Values : nand = Image(f, v)
  BY DEF Init
<1>2. GutsInv
  BY GutsInit
<1>3. nand \in Flash /\ nseq \in [Blocks -> Nat] /\ ~mounted /\ bad = {}
  BY <1>2 DEF GutsInv, Init
<1>4. \A b \in Blocks : \A p \in 1 .. Len(nand[b]) :
        /\ nand[b][p] \in PagesOfLog /\ nand[b][p].file = f /\ nand[b][p].dir = "root"
        /\ ~nand[b][p].shrink /\ (nand[b][p].chunk = 0 => b = 1 /\ p = 1)
  BY <1>1, ImagePages
<1>5. (\E b \in Blocks : nand[b] # <<>>) => 1 \in Blocks /\ nand[1] # <<>> /\ nand[1][1].chunk = 0
  BY <1>1, ImagePages
<1>6. \A b \in Blocks : nand[b] # <<>> => nseq[b] = b
  BY DEF Init
<1>7. \A b \in Blocks : Len(nand[b]) \in Nat /\ (nand[b] # <<>> => Len(nand[b]) >= 1)
  <2>1. ASSUME NEW b \in Blocks
        PROVE  Len(nand[b]) \in Nat /\ (nand[b] # <<>> => Len(nand[b]) >= 1)
    <3>1. nand[b] \in Seq(PagesOfLog)
      BY <1>1, ImageType
    <3>2. QED
      BY <3>1
  <2>2. QED
    BY <2>1
<1>8. FirstOk(nand)
  <2>1. ASSUME NEW b \in Blocks, nand[b] # <<>> PROVE nand[b][1] # Torn
    <3>1. 1 \in 1 .. Len(nand[b])
      BY <1>7, <2>1
    <3>2. nand[b][1] \in PagesOfLog
      BY <1>4, <3>1
    <3>3. QED
      BY <3>2, Distinct
  <2>2. QED
    BY <2>1 DEF FirstOk
<1>9. Apart(nand, nseq, bad)
  BY <1>6 DEF Apart
<1>10. PICK C : C = LogOf(nand, bad)
  OBVIOUS
<1>11. \A c \in C : /\ c \in Addr /\ c[1] \in Blocks /\ c[2] \in 1 .. Len(nand[c[1]])
                    /\ At(nand, c) \in PagesOfLog /\ At(nand, c).file = f
                    /\ At(nand, c).dir = "root" /\ ~At(nand, c).shrink
                    /\ (At(nand, c).chunk = 0 => c[1] = 1 /\ c[2] = 1)
  <2>1. ASSUME NEW c \in C
        PROVE  /\ c \in Addr /\ c[1] \in Blocks /\ c[2] \in 1 .. Len(nand[c[1]])
               /\ At(nand, c) \in PagesOfLog /\ At(nand, c).file = f
               /\ At(nand, c).dir = "root" /\ ~At(nand, c).shrink
               /\ (At(nand, c).chunk = 0 => c[1] = 1 /\ c[2] = 1)
    <3>1. c \in Addr /\ c[2] <= Len(nand[c[1]])
      BY <1>10 DEF LogOf
    <3>2. c[1] \in Blocks /\ c[2] \in Pages
      BY <3>1 DEF Addr
    <3>3. c[2] \in 1 .. Len(nand[c[1]])
      <4>1. Len(nand[c[1]]) \in Nat
        BY <1>7, <3>2
      <4>2. c[2] \in Int /\ c[2] >= 1
        BY <3>2, Geometry DEF Pages
      <4>3. QED
        BY <3>1, <4>1, <4>2
    <3>4. QED
      BY <1>4, <3>1, <3>2, <3>3 DEF At
  <2>2. QED
    BY <2>1
<1>12. ASSUME NEW c \in C PROVE Of(nand, C, f, 0) # {}
  <2>1. nand[c[1]] # <<>> /\ c[1] \in Blocks
    <3>1. c[1] \in Blocks /\ c[2] \in 1 .. Len(nand[c[1]])
      BY <1>11
    <3>2. Len(nand[c[1]]) # 0
      BY <1>7, <3>1
    <3>3. QED
      BY <3>1, <3>2
  <2>2. 1 \in Blocks /\ nand[1] # <<>> /\ nand[1][1].chunk = 0
    BY <1>5, <2>1
  <2>3. PICK h : h = <<1, 1>>
    OBVIOUS
  <2>4. h \in Addr /\ h[1] = 1 /\ h[2] = 1
    BY <2>2, <2>3, Geometry DEF Addr, Pages
  <2>5. 1 \in 1 .. Len(nand[1])
    BY <1>7, <2>2
  <2>6. nand[1][1] \in PagesOfLog /\ nand[1][1].file = f
    BY <1>4, <2>2, <2>5
  <2>7. At(nand, h) = nand[1][1]
    BY <2>4 DEF At
  <2>8. At(nand, h) # Torn
    BY <2>6, <2>7, Distinct
  <2>9. h \in C
    <3>1. h[2] <= Len(nand[h[1]])
      BY <1>7, <2>2, <2>4
    <3>2. QED
      BY <1>3, <1>10, <2>4, <2>8, <3>1 DEF LogOf
  <2>10. QED
    BY <2>2, <2>6, <2>7, <2>9 DEF Of
<1>13. LogInv(nand, C, nseq)
  <2>1. \A c \in C : Of(nand, C, At(nand, c).file, 0) # {}
    BY <1>11, <1>12
  <2>2. \A h \in C : At(nand, h).dir = "root"
    BY <1>11
  <2>3. \A g \in Files : \A x \in Of(nand, C, g, 0) : x \in C
    BY DEF Of
  <2>4. f \in Files /\ \A c \in C : At(nand, c).file = f
    BY <1>11
  <2>5. QED
    BY <2>1, <2>2, <2>3, <2>4 DEF LogInv
<1>14. ~Stray
  <2>1. SUFFICES ASSUME NEW c \in Live PROVE ~(Tag(c).chunk > ScanSize(Tag(c).file))
    BY DEF Stray
  <2>2. /\ Log = C /\ Live \subseteq C /\ \A x : Tag(x) = At(nand, x)
        /\ \A x, y : Newer(x, y) = Later(nseq, x, y)
    BY <1>3, <1>8, <1>9, <1>10, ScannedLog
  <2>3. c \in C /\ At(nand, c).file = f /\ At(nand, c) \in PagesOfLog
    BY <1>11, <2>2
  <2>4. \A h \in Log : ~(IsHeaderOf(h, f) /\ Newer(h, c))
    <3>1. SUFFICES ASSUME NEW h \in Log, IsHeaderOf(h, f), Newer(h, c) PROVE FALSE
      OBVIOUS
    <3>2. h \in C /\ At(nand, h).chunk = 0
      BY <2>2, <3>1 DEF IsHeaderOf
    <3>3. h[1] = 1 /\ h[2] = 1 /\ 1 \in Blocks
      BY <1>11, <3>2
    <3>4. c[1] \in Blocks /\ c[2] \in Pages /\ nand[c[1]] # <<>> /\ nand[1] # <<>>
      <4>1. c[1] \in Blocks /\ c[2] \in 1 .. Len(nand[c[1]]) /\ c \in Addr
        BY <1>11, <2>3
      <4>2. c[2] \in Pages
        BY <4>1 DEF Addr
      <4>3. Len(nand[c[1]]) # 0
        BY <1>7, <4>1
      <4>4. h[1] \in Blocks /\ h[2] \in 1 .. Len(nand[h[1]])
        BY <1>11, <3>2
      <4>5. Len(nand[h[1]]) # 0
        BY <1>7, <4>4
      <4>6. QED
        BY <3>3, <4>1, <4>2, <4>3, <4>5
    <3>5. nseq[1] = 1 /\ nseq[c[1]] = c[1]
      BY <1>6, <3>3, <3>4
    <3>6. c[1] \in Nat /\ c[1] >= 1 /\ c[2] \in Nat /\ c[2] >= 1
      <4>1. \A b \in Blocks : b \in Nat /\ b >= 1
        BY Geometry
      <4>2. \A p \in Pages : p \in Nat /\ p >= 1
        BY Geometry DEF Pages
      <4>3. QED
        BY <3>4, <4>1, <4>2
    <3>7. Later(nseq, h, c)
      BY <2>2, <3>1
    <3>8. QED
      BY <3>3, <3>5, <3>6, <3>7 DEF Later
  <2>5. c \in Log /\ Tag(c).file = f
    BY <2>2, <2>3
  <2>6. Tag(c).chunk <= ScanSize(f)
    <3>1. \A d \in Log : Tag(d).file = f /\ (~\E h \in Log : IsHeaderOf(h, f) /\ Newer(h, d))
            => Tag(d).chunk <= ScanSize(f)
      BY <1>3, ScanSizeBounds
    <3>2. QED
      BY <2>4, <2>5, <3>1
  <2>7. ScanSize(f) \in 0 .. FileChunks
    BY <1>3, ScanSizeType
  <2>8. Tag(c).chunk \in Int
    <3>1. At(nand, c).chunk \in 0 .. FileChunks
      BY <2>3 DEF PagesOfLog
    <3>2. QED
      BY <2>2, <3>1, Geometry
  <2>9. QED
    BY <2>5, <2>6, <2>7, <2>8, Geometry
<1>15. QED
  BY <1>3, <1>8, <1>9, <1>10, <1>13, <1>14 DEF ScanInv

LEMMA NextScan ==
  ASSUME ~StrayCuts, TornFrom \in Nat, TornFrom >= 2
  PROVE  GutsInv /\ ScanInv /\ ReserveSuffices /\ [Next]_vars => ScanInv'
<1> SUFFICES ASSUME GutsInv, ScanInv, ReserveSuffices, [Next]_vars PROVE ScanInv'
  OBVIOUS
<1>1. CASE CheckGarbageCollection
  BY <1>1, CheckGarbageCollectionScan
<1>2. CASE GcDrop
  BY <1>2, GcDropScan
<1>3. CASE GcCopy
  BY <1>3, GcCopyScan
<1>4. CASE GcCleanup
  BY <1>4, GcCleanupScan
<1>5. CASE BlockBecameDirty
  BY <1>5, BlockBecameDirtyScan
<1>6. CASE WriteChunkData
  BY <1>6, WriteChunkDataScan
<1>7. CASE WriteHeader
  BY <1>7, WriteHeaderScan
<1>8. CASE SkipUnerased
  BY <1>8, SkipUnerasedScan
<1>9. CASE PruneResizedChunk
  BY <1>9, PruneResizedChunkScan
<1>10. CASE DeleteFile
  BY <1>10, DeleteFileScan
<1>11. CASE RemoveObject
  BY <1>11, RemoveObjectScan
<1>12. ASSUME NEW f \in Files, Create(f) \/ FlushFile(f) \/ Unlink(f) \/ DeleteInode(f) PROVE ScanInv'
  BY <1>12, CreateScan, FlushFileScan, UnlinkScan, DeleteInodeScan
<1>13. ASSUME NEW f \in Files, NEW k \in 1 .. FileChunks, NEW v \in Values, WriteFile(f, k, v) PROVE ScanInv'
  BY <1>13, WriteFileScan
<1>14. ASSUME NEW f \in Files, NEW n \in 0 .. FileChunks, ResizeFile(f, n) PROVE ScanInv'
  BY <1>14, ResizeFileScan
<1>15. CASE PowerCut
  BY <1>15, PowerCutScan
<1>16. CASE Mount
  BY <1>16, MountScan
<1>17. CASE UNCHANGED vars
  <2>1. /\ nand' = nand /\ nseq' = nseq /\ bad' = bad /\ mounted' = mounted /\ dev' = dev
        /\ obj' = obj /\ todo' = todo
    BY <1>17 DEF vars
  <2>2. CASE mounted
    <3>1. MountedScan(nand, nseq, bad, dev, obj, todo)
      BY <2>2 DEF ScanInv, MountedScan
    <3>2. QED
      BY <2>1, <2>2, <3>1, MountedAgain
  <2>3. CASE ~mounted
    <3>1. Log' = Log /\ \A c \in Log : Tag(c)' = Tag(c)
      BY <2>1 DEF Log, Readable, NeedsScanning, Tag
    <3>2. Stray' <=> Stray
      BY <2>1, <3>1, StraySame
    <3>3. QED
      BY <2>1, <2>3, <3>2 DEF ScanInv
  <2>4. QED
    BY <2>2, <2>3
<1>18. QED
  BY <1>1, <1>2, <1>3, <1>4, <1>5, <1>6, <1>7, <1>8, <1>9, <1>10, <1>11, <1>12, <1>13, <1>14,
     <1>15, <1>16, <1>17 DEF Next

-----------------------------------------------------------------------------
(* What the invariant says between two calls.                              *)

(* A file in memory has a header, the newest one of its own in the log.    *)
LEMMA IdleFile ==
  ASSUME GutsInv, ScanInv, Idle, NEW C, C = LogOf(nand, bad), NEW f \in Files, NEW w, w = obj[f]
  PROVE  /\ FileOk(nand, C, nseq, Bits(dev), Flagged(dev), Soft(dev), w, {}, f)
         /\ OwnIn(nand, C, Bits(dev), w, f)
         /\ w.here => /\ w.hdr # None /\ w.hdr \in Of(nand, C, f, 0) /\ w.hdr \in C
                      /\ \A c \in Of(nand, C, f, 0) : c = w.hdr \/ Later(nseq, w.hdr, c)
         /\ ~w.here => w.hdr = None
         /\ nand \in Flash /\ nseq \in [Blocks -> Nat] /\ FirstOk(nand) /\ Apart(nand, nseq, bad)
<1>1. mounted /\ todo = <<>>
  BY DEF Idle, Quiet
<1>2. /\ nand \in Flash /\ nseq \in [Blocks -> Nat] /\ MountedScan(nand, nseq, bad, dev, obj, todo)
      /\ \A g \in Files : OwnIn(nand, LogOf(nand, bad), Bits(dev), obj[g], g)
  BY <1>1, ScanFacts
<1>3. Left(todo, f) = {}
  <2>1. DOMAIN todo = {}
    BY <1>1
  <2>2. QED
    BY <2>1 DEF Left
<1>4. FileOk(nand, C, nseq, Bits(dev), Flagged(dev), Soft(dev), w, {}, f)
  BY <1>2, <1>3 DEF MountedScan
<1>5. OwnIn(nand, C, Bits(dev), w, f)
  BY <1>2
<1>6. w.here => w.hdr # None
  BY <1>4 DEF FileOk, CallOk
<1>7. w.hdr # None => w.here /\ w.hdr \in C /\ w.hdr \in Of(nand, C, f, 0)
  BY <1>5, OwnInParts
<1>8. w.hdr # None => \A c \in Of(nand, C, f, 0) : c = w.hdr \/ Later(nseq, w.hdr, c)
  BY <1>4 DEF FileOk, HeaderOk
<1>9. FirstOk(nand) /\ Apart(nand, nseq, bad)
  BY <1>2 DEF MountedScan
<1>10. QED
  BY <1>2, <1>4, <1>5, <1>6, <1>7, <1>8, <1>9

(* The chunk that memory has for a file, its header for k = 0, is the one  *)
(* that a scan finds.                                                      *)
LEMMA IdleFound ==
  ASSUME GutsInv, ScanInv, Idle, NEW C, C = LogOf(nand, bad), NEW f \in Files, NEW w, w = obj[f]
  PROVE  /\ w.here => w.hdr = Found(Live, f, 0)
         /\ w.here /\ w.dir = "root" => \A k \in 1 .. FileChunks : w.tnode[k] = Found(Live, f, k)
         /\ ~w.here /\ Found(Live, f, 0) # None => At(nand, Found(Live, f, 0)).dir = "deleted"
<1>1. /\ FileOk(nand, C, nseq, Bits(dev), Flagged(dev), Soft(dev), w, {}, f)
      /\ OwnIn(nand, C, Bits(dev), w, f)
      /\ w.here => /\ w.hdr # None /\ w.hdr \in Of(nand, C, f, 0) /\ w.hdr \in C
                   /\ \A c \in Of(nand, C, f, 0) : c = w.hdr \/ Later(nseq, w.hdr, c)
      /\ ~w.here => w.hdr = None
      /\ nand \in Flash /\ nseq \in [Blocks -> Nat] /\ FirstOk(nand) /\ Apart(nand, nseq, bad)
  BY IdleFile
<1>2. PICK s, F : s = nseq /\ F = Flagged(dev)
  OBVIOUS
<1>3. /\ Live \subseteq C /\ Ordered(C, s)
      /\ \A c \in C : c \in Live <=> ~Older(nand, C, s, c) /\ ~CutBy(nand, C, s, c)
  BY <1>1, <1>2, ScannedLog
<1>4. ASSUME NEW k, NEW c, c = Found(Live, f, k)
      PROVE  /\ c # None => c \in Live /\ c \in C /\ At(nand, c).file = f /\ At(nand, c).chunk = k
             /\ \A e \in Live : At(nand, e).file = f /\ At(nand, e).chunk = k => e = c
             /\ \A e \in Of(nand, C, f, k) : c # None /\ e # c => Later(s, c, e)
  BY <1>1, <1>2, <1>4, FoundLive
<1>5. w.here => w.hdr = Found(Live, f, 0)
  <2>1. SUFFICES ASSUME w.here PROVE w.hdr = Found(Live, f, 0)
    OBVIOUS
  <2>2. PICK h : h = Found(Live, f, 0)
    OBVIOUS
  <2>3. w.hdr \in Of(nand, C, f, 0) /\ w.hdr \in C
    BY <1>1, <2>1
  <2>4. h # None /\ h \in Of(nand, C, f, 0) /\ Newest(nand, C, nseq, h)
    BY <1>1, <2>2, <2>3, FoundHeader
  <2>5. h \in C /\ At(nand, h).file = f
    BY <2>4 DEF Of
  <2>6. w.hdr = h \/ Later(s, h, w.hdr)
    BY <1>2, <2>3, <2>4, <2>5 DEF Newest
  <2>7. h = w.hdr \/ Later(s, w.hdr, h)
    BY <1>1, <1>2, <2>1, <2>4
  <2>8. QED
    BY <1>3, <2>2, <2>3, <2>5, <2>6, <2>7 DEF Ordered
<1>6. ASSUME w.here, w.dir = "root", NEW k \in 1 .. FileChunks PROVE w.tnode[k] = Found(Live, f, k)
  <2>1. w.hdr # None /\ At(nand, w.hdr).dir = "root"
    <3>1. w.hdr # None /\ HeaderOk(nand, C, s, w, {}, f)
      BY <1>1, <1>2, <1>6 DEF FileOk
    <3>2. QED
      BY <1>6, <3>1 DEF HeaderOk
  <2>2. DataOk(nand, C, s, F, w, {}, f)
    BY <1>1, <1>2 DEF FileOk
  <2>3. \A e \in Of(nand, C, f, k) :
          /\ e = w.tnode[k] => \A h \in C : At(nand, h).file = f /\ Later(s, h, e) => ~Cutter(At(nand, h), k)
          /\ w.tnode[k] # None /\ e # w.tnode[k] => Later(s, w.tnode[k], e)
          /\ w.tnode[k] = None => Barred(nand, C, s, F, e)
    BY <2>1, <2>2 DEF DataOk, CutPending
  <2>4. PICK t, c : t = w.tnode[k] /\ c = Found(Live, f, k)
    OBVIOUS
  <2>5. CASE t # None
    <3>1. t \in Of(nand, C, f, k) /\ t \in C /\ At(nand, t).file = f /\ At(nand, t).chunk = k
      BY <1>1, <2>4, <2>5, OwnInParts
    <3>2. ~Older(nand, C, s, t)
      <4>1. SUFFICES ASSUME NEW e \in C, At(nand, e).file = f, At(nand, e).chunk = k, Later(s, e, t)
                     PROVE  FALSE
        BY <3>1 DEF Older
      <4>2. e \in Of(nand, C, f, k)
        BY <4>1 DEF Of
      <4>3. e # t
        BY <1>3, <3>1, <4>1 DEF Ordered
      <4>4. Later(s, t, e)
        BY <2>3, <2>4, <2>5, <4>2, <4>3
      <4>5. QED
        BY <1>3, <3>1, <4>1, <4>4 DEF Ordered
    <3>3. ~CutBy(nand, C, s, t)
      <4>1. SUFFICES ASSUME NEW h \in C, At(nand, h).file = f, k > SizeLeft(At(nand, h)),
                            Later(s, h, t), Cuts(nand, C, s, h)
                     PROVE  FALSE
        BY <3>1 DEF CutBy
      <4>2. Cutter(At(nand, h), k)
        BY <4>1 DEF Cuts, Cutter
      <4>3. QED
        BY <2>3, <2>4, <3>1, <4>1, <4>2
    <3>4. t \in Live
      BY <1>3, <3>1, <3>2, <3>3
    <3>5. QED
      BY <1>4, <2>4, <3>1, <3>4
  <2>6. CASE t = None
    <3>1. SUFFICES ASSUME c # None PROVE FALSE
      BY <2>4, <2>6
    <3>2. c \in Live /\ c \in C /\ At(nand, c).file = f /\ At(nand, c).chunk = k
      BY <1>4, <2>4, <3>1
    <3>3. Barred(nand, C, s, F, c)
      BY <2>3, <2>4, <2>6, <3>2 DEF Of
    <3>4. PICK h \in Of(nand, C, f, 0) :
            At(nand, h).shrink /\ k > SizeLeft(At(nand, h)) /\ Later(s, h, c)
      BY <3>2, <3>3 DEF Barred, Guard
    <3>5. h \in C /\ At(nand, h).file = f /\ Cuts(nand, C, s, h)
      BY <3>4 DEF Of, Cuts
    <3>6. CutBy(nand, C, s, c)
      BY <3>2, <3>4, <3>5 DEF CutBy
    <3>7. QED
      BY <1>3, <3>2, <3>6
  <2>7. QED
    BY <2>5, <2>6
<1>7. ASSUME ~w.here, NEW h, h = Found(Live, f, 0), h # None PROVE At(nand, h).dir = "deleted"
  <2>1. h \in C /\ At(nand, h).file = f /\ At(nand, h).chunk = 0
        /\ \A e \in Of(nand, C, f, 0) : e # h => Later(s, h, e)
    BY <1>4, <1>7
  <2>2. IsTomb(At(nand, h)) \/ Buried(nand, C, s, F, h)
    <3>1. GoneOk(nand, C, s, F, w, f) /\ w.hdr = None
      BY <1>1, <1>2, <1>7 DEF FileOk
    <3>2. QED
      BY <2>1, <3>1 DEF GoneOk
  <2>3. ~Buried(nand, C, s, F, h)
    <3>1. SUFFICES ASSUME NEW x \in Of(nand, C, f, 0), Later(s, x, h) PROVE FALSE
      BY <2>1 DEF Buried, Guard
    <3>2. x \in C
      BY DEF Of
    <3>3. x # h
      BY <1>3, <2>1, <3>1, <3>2 DEF Ordered
    <3>4. QED
      BY <1>3, <2>1, <3>1, <3>2, <3>3 DEF Ordered
  <2>4. QED
    BY <2>2, <2>3 DEF IsTomb
<1>8. QED
  BY <1>5, <1>6, <1>7

LEMMA ScanFinds ==
  GutsInv /\ ScanInv => ScanFindsWhatMemoryHolds
<1> SUFFICES ASSUME GutsInv, ScanInv, Idle, NEW f \in Files
             PROVE  IF obj[f].here
                    THEN /\ obj[f].hdr = Found(Live, f, 0)
                         /\ obj[f].dir = "root" =>
                              \A k \in 1 .. FileChunks : obj[f].tnode[k] = Found(Live, f, k)
                    ELSE Found(Live, f, 0) # None => Tag(Found(Live, f, 0)).dir = "deleted"
  BY Zenon DEF ScanFindsWhatMemoryHolds
<1>1. \A c : Tag(c) = At(nand, c)
  <2>1. /\ nand \in Flash /\ nseq \in [Blocks -> Nat] /\ FirstOk(nand) /\ Apart(nand, nseq, bad)
    BY IdleFile
  <2>2. QED
    BY <2>1, ScannedLog
<1>2. QED
  BY <1>1, IdleFound

LEMMA SizeKept ==
  GutsInv /\ ScanInv => SizeDurable
<1> SUFFICES ASSUME GutsInv, ScanInv, Idle, NEW f \in Files, obj[f].here, obj[f].dir = "root"
             PROVE  /\ ScanSize(f) <= obj[f].size
                    /\ Tag(obj[f].hdr).size = obj[f].size => ScanSize(f) = obj[f].size
  BY DEF SizeDurable
<1>1. PICK w, C, s : w = obj[f] /\ C = LogOf(nand, bad) /\ s = nseq
  OBVIOUS
<1>2. /\ FileOk(nand, C, s, Bits(dev), Flagged(dev), Soft(dev), w, {}, f)
      /\ w.hdr # None /\ w.hdr \in Of(nand, C, f, 0) /\ w.hdr \in C
      /\ \A c \in Of(nand, C, f, 0) : c = w.hdr \/ Later(s, w.hdr, c)
      /\ nand \in Flash /\ s \in [Blocks -> Nat] /\ FirstOk(nand) /\ Apart(nand, s, bad)
  BY <1>1, IdleFile
<1>3. /\ Log = C /\ Ordered(C, s) /\ \A c : Tag(c) = At(nand, c)
      /\ \A c \in C : Superseded(c) <=> Older(nand, C, s, c)
      /\ \A c, e : Newer(c, e) = Later(s, c, e)
  BY <1>1, <1>2, ScannedLog
<1>4. PICK h : h = w.hdr
  OBVIOUS
<1>5. h \in C /\ At(nand, h).file = f /\ At(nand, h).chunk = 0
  BY <1>2, <1>4 DEF Of
<1>6. At(nand, h).dir = "root" /\ At(nand, h).size <= w.size
  <2>1. HeaderOk(nand, C, s, w, {}, f) /\ w.dir = "root"
    BY <1>1, <1>2 DEF FileOk
  <2>2. QED
    BY <1>2, <1>4, <2>1 DEF HeaderOk, HeaderPending
<1>7. IsHeaderOf(h, f)
  <2>1. ~Older(nand, C, s, h)
    <3>1. SUFFICES ASSUME NEW e \in C, At(nand, e).file = f, At(nand, e).chunk = 0, Later(s, e, h)
                   PROVE  FALSE
      BY <1>5 DEF Older
    <3>2. e \in Of(nand, C, f, 0)
      BY <3>1 DEF Of
    <3>3. e = h \/ Later(s, h, e)
      BY <1>2, <1>4, <3>2
    <3>4. QED
      BY <1>3, <1>5, <3>1, <3>3 DEF Ordered
  <2>2. QED
    BY <1>3, <1>5, <2>1 DEF IsHeaderOf
<1>8. ASSUME NEW x \in Log, IsHeaderOf(x, f) PROVE x = h
  <2>1. x \in C /\ At(nand, x).file = f /\ At(nand, x).chunk = 0 /\ ~Older(nand, C, s, x)
    BY <1>3, <1>8 DEF IsHeaderOf
  <2>2. x \in Of(nand, C, f, 0)
    BY <2>1 DEF Of
  <2>3. x = h \/ Later(s, h, x)
    BY <1>2, <1>4, <2>2
  <2>4. QED
    BY <1>5, <2>1, <2>3 DEF Older
<1>9. w.size \in Nat /\ ScanSize(f) \in Nat /\ At(nand, h).size \in Nat
  <2>1. ScanSize(f) \in 0 .. FileChunks
    BY <1>2, ScanSizeType
  <2>2. w.size \in 0 .. FileChunks
    <3>1. obj \in [Files -> Objects]
      BY DEF GutsInv, MemoryOk, Idle, Quiet
    <3>2. w \in Objects
      BY <1>1, <3>1
    <3>3. QED
      BY <3>2 DEF Objects
  <2>3. At(nand, h).size \in 0 .. FileChunks
    BY <1>1, <1>2, <1>5, LogAddr
  <2>4. QED
    BY <2>1, <2>2, <2>3, Geometry
<1>10. ScanSize(f) <= w.size
  <2>1. CASE ScanSize(f) = 0
    BY <1>9, <2>1
  <2>2. CASE \E x \in Log : IsHeaderOf(x, f) /\ ScanSize(f) = Tag(x).size
    BY <1>3, <1>6, <1>8, <2>2
  <2>3. ASSUME NEW d \in Log, Tag(d).file = f, ~\E x \in Log : IsHeaderOf(x, f) /\ Newer(x, d),
               ScanSize(f) = Tag(d).chunk, ScanSize(f) # 0
        PROVE  ScanSize(f) <= w.size
    <3>1. PICK k : k = At(nand, d).chunk
      OBVIOUS
    <3>2. d \in C /\ At(nand, d).file = f /\ k = ScanSize(f)
      BY <1>3, <2>3, <3>1
    <3>3. k \in 1 .. FileChunks
      <4>1. ScanSize(f) \in 0 .. FileChunks
        BY <1>2, ScanSizeType
      <4>2. QED
        BY <2>3, <3>2, <4>1
    <3>4. d \in Of(nand, C, f, k)
      BY <3>1, <3>2 DEF Of
    <3>5. ~Later(s, h, d)
      BY <1>3, <1>5, <1>7, <2>3
    <3>6. d # h
      BY <1>5, <3>1, <3>3
    <3>7. Later(s, d, h)
      BY <1>3, <1>5, <3>2, <3>5, <3>6 DEF Ordered
    <3>8. DataOk(nand, C, s, Flagged(dev), w, {}, f) /\ w.dir = "root" /\ At(nand, w.hdr).dir = "root"
      BY <1>1, <1>2, <1>4, <1>6 DEF FileOk
    <3>9. k <= w.size
      BY <1>2, <1>4, <3>3, <3>4, <3>7, <3>8 DEF DataOk, HeaderPending
    <3>10. QED
      BY <3>2, <3>9
  <2>4. QED
    BY <1>2, <2>1, <2>2, <2>3, ScanSizeBounds
<1>11. At(nand, h).size <= ScanSize(f)
  <2>1. \A x \in Log : IsHeaderOf(x, f) => Tag(x).size <= ScanSize(f)
    BY <1>2, ScanSizeBounds
  <2>2. QED
    BY <1>3, <1>5, <1>7, <2>1
<1>12. QED
  BY <1>1, <1>3, <1>4, <1>9, <1>10, <1>11

-----------------------------------------------------------------------------
(* Between two calls what memory says of every file that has a name is     *)
(* what a scan of the flash would find, whatever was written, resized,     *)
(* unlinked, collected, erased or retired before and wherever the power    *)
(* was cut: yaffs_ScanBackwards brings nothing back and loses nothing.     *)
(* The hypotheses: the blocks in reserve are enough, which TLC checks; a   *)
(* torn page is not the first of its block, or the scan misses the block;  *)
(* and the power is not cut while data lies beyond the size that a scan    *)
(* would give its file, or that data may come back.                        *)
THEOREM ScanCorrect ==
  ASSUME ~StrayCuts, TornFrom \in Nat, TornFrom >= 2
  PROVE  Spec /\ []ReserveSuffices => []ScanFindsWhatMemoryHolds
<1>1. Init => GutsInv /\ ScanInv
  BY GutsInit, InitScan
<1>2. GutsInv /\ ScanInv /\ ReserveSuffices /\ [Next]_vars => (GutsInv /\ ScanInv)'
  BY GutsNext, NextScan
<1>3. GutsInv /\ ScanInv => ScanFindsWhatMemoryHolds
  BY ScanFinds
<1>4. QED
  BY <1>1, <1>2, <1>3, PTL DEF Spec

(* Between two calls a scan never makes a file longer than memory has it,  *)
(* and once the header on the flash says its size a scan finds that size   *)
(* (yaffs_FlushFile, yaffs_ResizeFile), under the same hypotheses.         *)
THEOREM SizeCorrect ==
  ASSUME ~StrayCuts, TornFrom \in Nat, TornFrom >= 2
  PROVE  Spec /\ []ReserveSuffices => []SizeDurable
<1>1. Init => GutsInv /\ ScanInv
  BY GutsInit, InitScan
<1>2. GutsInv /\ ScanInv /\ ReserveSuffices /\ [Next]_vars => (GutsInv /\ ScanInv)'
  BY GutsNext, NextScan
<1>3. GutsInv /\ ScanInv => SizeDurable
  BY SizeKept
<1>4. QED
  BY <1>1, <1>2, <1>3, PTL DEF Spec
-----------------------------------------------------------------------------
(* The flash implements the store.                                         *)

(* What a user would find of a file with the object w and the calls q left *)
(* for it, were the flash n scanned now.                                   *)
HeldName(n, w) == w.hdr # None /\ At(n, w.hdr).dir = "root"
Shown(n, w, q, k, v) ==
  /\ HeldName(n, w) /\ w.tnode[k] # None /\ At(n, w.tnode[k]).val = v
  /\ ~(CutPending(q) /\ w.dir = "root" /\ k > w.size)
Due(n, w, x) ==
  \/ x.op = "put" /\ HeldName(n, w)
  \/ x.op = "header" /\ (HeldName(n, w) <=> x.shrink \/ w.dir # "root")
CallOn(w, x) ==
  IF x.op = "put" THEN [op |-> "write", file |-> x.file, chunk |-> x.chunk, val |-> x.val]
  ELSE IF w.dir # "root" THEN [op |-> "remove", file |-> x.file]
  ELSE IF x.shrink THEN [op |-> "cut", file |-> x.file, keep |-> w.size]
  ELSE [op |-> "create", file |-> x.file]

(* At most one file has a step left that may change what is found of it.   *)
Acting(x) == x.op \in {"put", "header"}
Acts(q, w) == w.dir # "deleted" /\ \E x \in q : Acting(x)
CallsFile(n, w, q, f) ==
  /\ \A x \in q : x.op = "header" /\ x.shrink =>
       x = UpdateObjectHeader(f, TRUE) /\ (w.hdr = None => w.dir = "deleted")
  /\ w.dir = "deleted" => ~HeldName(n, w)
CallsOk(n, t, o) ==
  /\ \A f \in Files : CallsFile(n, o[f], Left(t, f), f)
  /\ \A f, g \in Files : Acts(Left(t, f), o[f]) /\ Acts(Left(t, g), o[g]) => f = g
ValuesOk(n) ==
  \A b \in Blocks : \A p \in 1 .. Len(n[b]) :
    n[b][p] # Torn /\ n[b][p].chunk # 0 => n[b][p].val \in Values

StoreInv == ValuesOk(nand) /\ IF mounted THEN CallsOk(nand, todo, obj) ELSE todo = <<>>

(* A step that a user would not notice, for one file.                      *)
SameFile(n, w, q, m, v, p) ==
  /\ HeldName(n, w) <=> HeldName(m, v)
  /\ \A k \in 1 .. FileChunks : \A z : Shown(n, w, q, k, z) <=> Shown(m, v, p, k, z)
  /\ \A x : x \in q /\ Due(n, w, x) => x \in p /\ Due(m, v, x) /\ CallOn(v, x) = CallOn(w, x)
  /\ \A x : x \in p /\ Due(m, v, x) => x \in q /\ Due(n, w, x)
Matches(n, w, m, v) ==
  /\ v.dir = w.dir /\ v.size = w.size
  /\ v.hdr = None <=> w.hdr = None
  /\ w.hdr # None => At(m, v.hdr).dir = At(n, w.hdr).dir
  /\ \A k \in 1 .. FileChunks :
       /\ v.tnode[k] = None <=> w.tnode[k] = None
       /\ w.tnode[k] # None => At(m, v.tnode[k]).val = At(n, w.tnode[k]).val
StepFile(n, w, q, m, v, p, f) ==
  /\ SameFile(n, w, q, m, v, p) /\ CallsFile(m, v, p, f)
  /\ Acts(p, v) => Acts(q, w)

LEMMA MatchesSame ==
  ASSUME NEW n, NEW w, NEW q, NEW m, NEW v, NEW p, Matches(n, w, m, v),
         \A x : Acting(x) => (x \in q <=> x \in p)
  PROVE  SameFile(n, w, q, m, v, p)
<1>1. HeldName(n, w) <=> HeldName(m, v)
  BY DEF Matches, HeldName
<1>2. CutPending(q) <=> CutPending(p)
  BY DEF Acting, CutPending
<1>3. ASSUME NEW k \in 1 .. FileChunks, NEW z PROVE Shown(n, w, q, k, z) <=> Shown(m, v, p, k, z)
  <2>1. /\ v.dir = w.dir /\ v.size = w.size
        /\ v.tnode[k] = None <=> w.tnode[k] = None
        /\ w.tnode[k] # None => At(m, v.tnode[k]).val = At(n, w.tnode[k]).val
    BY DEF Matches
  <2>2. w.tnode[k] # None => (At(n, w.tnode[k]).val = z <=> At(m, v.tnode[k]).val = z)
    BY <2>1
  <2>3. CutPending(q) /\ w.dir = "root" /\ k > w.size <=> CutPending(p) /\ v.dir = "root" /\ k > v.size
    BY <1>2, <2>1
  <2>4. QED
    BY <1>1, <2>1, <2>2, <2>3, Zenon DEF Shown
<1>4. v.dir = w.dir /\ v.size = w.size
  BY DEF Matches
<1>5. \A x : Due(n, w, x) <=> Due(m, v, x)
  BY <1>1, <1>4, Zenon DEF Due
<1>6. \A x : CallOn(v, x) = CallOn(w, x)
  BY <1>4 DEF CallOn
<1>7. \A x : Due(n, w, x) => Acting(x)
  BY DEF Due, Acting
<1>8. QED
  BY <1>1, <1>3, <1>5, <1>6, <1>7 DEF SameFile

(* A file that the user cannot see, before and after.                      *)
LEMMA HiddenSame ==
  ASSUME NEW n, NEW w, NEW q, NEW m, NEW v, NEW p, ~HeldName(n, w), ~HeldName(m, v),
         \A x \in q : x.op = "header" => x.shrink \/ w.dir # "root",
         \A x \in p : x.op = "header" => x.shrink \/ v.dir # "root"
  PROVE  SameFile(n, w, q, m, v, p)
<1>1. \A k, z : ~Shown(n, w, q, k, z) /\ ~Shown(m, v, p, k, z)
  BY DEF Shown
<1>2. \A x \in q : ~Due(n, w, x)
  BY DEF Due
<1>3. \A x \in p : ~Due(m, v, x)
  BY DEF Due
<1>4. QED
  BY <1>1, <1>2, <1>3 DEF SameFile

LEMMA FileFacts ==
  ASSUME GutsInv, ScanInv, mounted, NEW f \in Files, NEW w, w = obj[f], NEW q, q = Left(todo, f),
         NEW C, C = LogOf(nand, bad), NEW s, s = nseq
  PROVE  /\ UseOk(nand, C, Bits(dev), Soft(dev), w, f) /\ HeaderOk(nand, C, s, w, q, f)
         /\ GoneOk(nand, C, s, Flagged(dev), w, f) /\ DataOk(nand, C, s, Flagged(dev), w, q, f)
         /\ ObjectOk(w, q) /\ CallOk(w, q) /\ OwnIn(nand, C, Bits(dev), w, f) /\ w \in Objects
         /\ Log = C /\ IsFiniteSet(C) /\ Live \subseteq C /\ Ordered(C, s)
         /\ \A c \in C : c \in Live <=> ~Older(nand, C, s, c) /\ ~CutBy(nand, C, s, c)
         /\ \A c \in C : Superseded(c) <=> Older(nand, C, s, c)
         /\ \A c : Tag(c) = At(nand, c)
<1>1. /\ nand \in Flash /\ nseq \in [Blocks -> Nat] /\ obj \in [Files -> Objects]
      /\ MountedScan(nand, nseq, bad, dev, obj, todo)
      /\ OwnIn(nand, LogOf(nand, bad), Bits(dev), obj[f], f)
  BY ScanFacts
<1>2. /\ FirstOk(nand) /\ Apart(nand, nseq, bad)
      /\ FileOk(nand, C, s, Bits(dev), Flagged(dev), Soft(dev), w, q, f)
  BY <1>1 DEF MountedScan
<1>3. /\ Log = C /\ IsFiniteSet(C) /\ Live \subseteq C /\ Ordered(C, s)
      /\ \A c \in C : c \in Live <=> ~Older(nand, C, s, c) /\ ~CutBy(nand, C, s, c)
      /\ \A c \in C : Superseded(c) <=> Older(nand, C, s, c)
      /\ \A c : Tag(c) = At(nand, c)
  BY <1>1, <1>2, ScannedLog
<1>4. /\ UseOk(nand, C, Bits(dev), Soft(dev), w, f) /\ HeaderOk(nand, C, s, w, q, f)
      /\ GoneOk(nand, C, s, Flagged(dev), w, f) /\ DataOk(nand, C, s, Flagged(dev), w, q, f)
      /\ ObjectOk(w, q) /\ CallOk(w, q)
  BY <1>2 DEF FileOk
<1>5. OwnIn(nand, C, Bits(dev), w, f) /\ w \in Objects
  BY <1>1
<1>6. QED
  BY <1>3, <1>4, <1>5

(* A scan finds the file in the user's directory if the header that memory *)
(* has for it says so, whatever memory itself says by now.                 *)
LEMMA NamedHeld ==
  ASSUME GutsInv, ScanInv, mounted, NEW f \in Files
  PROVE  Named(f) <=> HeldName(nand, obj[f])
<1>1. PICK w, q, C, s, F : /\ w = obj[f] /\ q = Left(todo, f) /\ C = LogOf(nand, bad) /\ s = nseq
                           /\ F = Flagged(dev)
  OBVIOUS
<1>2. /\ HeaderOk(nand, C, s, w, q, f) /\ GoneOk(nand, C, s, F, w, f) /\ OwnIn(nand, C, Bits(dev), w, f)
      /\ Log = C /\ IsFiniteSet(C) /\ Ordered(C, s)
      /\ \A c \in C : Superseded(c) <=> Older(nand, C, s, c)
      /\ \A c : Tag(c) = At(nand, c)
  BY <1>1, FileFacts
<1>3. \A h : IsHeaderOf(h, f) /\ h \in C <=>
               h \in Of(nand, C, f, 0) /\ \A c \in Of(nand, C, f, 0) : ~Later(s, c, h)
  BY <1>2 DEF IsHeaderOf, Of, Older
<1>4. CASE w.hdr # None
  <2>1. w.hdr \in Of(nand, C, f, 0) /\ \A c \in Of(nand, C, f, 0) : c = w.hdr \/ Later(s, w.hdr, c)
    BY <1>2, <1>4, OwnInParts DEF HeaderOk
  <2>2. \A c \in Of(nand, C, f, 0) : c \in C
    BY DEF Of
  <2>3. \A h : IsHeaderOf(h, f) /\ h \in C <=> h = w.hdr
    BY <1>2, <1>3, <2>1, <2>2 DEF Ordered
  <2>4. QED
    BY <1>1, <1>2, <1>4, <2>3 DEF Named, HeldName
<1>5. CASE w.hdr = None
  <2>1. ASSUME NEW h \in C, IsHeaderOf(h, f) PROVE At(nand, h).dir = "deleted"
    <3>1. h \in Of(nand, C, f, 0) /\ \A c \in Of(nand, C, f, 0) : ~Later(s, c, h)
      BY <1>3, <2>1
    <3>2. ~Buried(nand, C, s, F, h)
      BY <3>1 DEF Buried, Guard, Of
    <3>3. IsTomb(At(nand, h))
      BY <1>2, <1>5, <2>1, <3>1, <3>2 DEF GoneOk, Of
    <3>4. QED
      BY <3>3 DEF IsTomb
  <2>2. ~Named(f)
    BY <1>2, <2>1 DEF Named
  <2>3. QED
    BY <1>1, <1>5, <2>2 DEF HeldName
<1>6. QED
  BY <1>4, <1>5

(* Of a file with a name the live chunks are those that memory has, and    *)
(* those that are being cut off.                                           *)
LEMMA LiveHeld ==
  ASSUME GutsInv, ScanInv, mounted, NEW f \in Files, NEW w, w = obj[f], NEW q, q = Left(todo, f),
         HeldName(nand, w), NEW k \in 1 .. FileChunks, NEW t, t = w.tnode[k]
  PROVE  /\ t # None => /\ t \in Live /\ At(nand, t).file = f /\ At(nand, t).chunk = k
                        /\ \A e \in Live : At(nand, e).file = f /\ At(nand, e).chunk = k => e = t
         /\ t = None => \A e \in Live : At(nand, e).file = f /\ At(nand, e).chunk = k =>
                          CutPending(q) /\ w.dir = "root" /\ k > w.size
<1>1. PICK C, s, F : C = LogOf(nand, bad) /\ s = nseq /\ F = Flagged(dev)
  OBVIOUS
<1>2. /\ DataOk(nand, C, s, F, w, q, f) /\ OwnIn(nand, C, Bits(dev), w, f)
      /\ Live \subseteq C /\ Ordered(C, s)
      /\ \A c \in C : c \in Live <=> ~Older(nand, C, s, c) /\ ~CutBy(nand, C, s, c)
  BY <1>1, FileFacts
<1>3. w.hdr # None /\ At(nand, w.hdr).dir = "root"
  BY DEF HeldName
<1>4. \A e \in Of(nand, C, f, k) :
        /\ e = t => \A h \in C : At(nand, h).file = f /\ Later(s, h, e) => ~Cutter(At(nand, h), k)
        /\ t # None /\ e # t => Later(s, t, e)
        /\ t = None => Barred(nand, C, s, F, e) \/ (CutPending(q) /\ w.dir = "root" /\ k > w.size)
  BY <1>2, <1>3, Zenon DEF DataOk
<1>5. \A e \in Live : At(nand, e).file = f /\ At(nand, e).chunk = k => e \in Of(nand, C, f, k)
  BY <1>2 DEF Of
<1>6. ASSUME t # None
      PROVE  /\ t \in Live /\ At(nand, t).file = f /\ At(nand, t).chunk = k
             /\ \A e \in Live : At(nand, e).file = f /\ At(nand, e).chunk = k => e = t
  <2>1. t \in Of(nand, C, f, k) /\ t \in C /\ At(nand, t).file = f /\ At(nand, t).chunk = k
    BY <1>2, <1>6, OwnInParts
  <2>2. ~Older(nand, C, s, t)
    <3>1. SUFFICES ASSUME NEW e \in C, At(nand, e).file = f, At(nand, e).chunk = k, Later(s, e, t)
                   PROVE  FALSE
      BY <2>1 DEF Older
    <3>2. e \in Of(nand, C, f, k)
      BY <3>1 DEF Of
    <3>3. e # t
      BY <1>2, <2>1, <3>1 DEF Ordered
    <3>4. Later(s, t, e)
      BY <1>4, <1>6, <3>2, <3>3
    <3>5. QED
      BY <1>2, <2>1, <3>1, <3>4 DEF Ordered
  <2>3. ~CutBy(nand, C, s, t)
    <3>1. SUFFICES ASSUME NEW h \in C, At(nand, h).file = f, k > SizeLeft(At(nand, h)),
                          Later(s, h, t), Cuts(nand, C, s, h)
                   PROVE  FALSE
      BY <2>1 DEF CutBy
    <3>2. Cutter(At(nand, h), k)
      BY <3>1 DEF Cuts, Cutter
    <3>3. QED
      BY <1>4, <2>1, <3>1, <3>2
  <2>4. t \in Live
    BY <1>2, <2>1, <2>2, <2>3
  <2>5. ASSUME NEW e \in Live, At(nand, e).file = f, At(nand, e).chunk = k PROVE e = t
    <3>1. e \in Of(nand, C, f, k) /\ e \in C /\ ~Older(nand, C, s, e)
      BY <1>2, <1>5, <2>5
    <3>2. e # t => Later(s, t, e)
      BY <1>4, <1>6, <3>1
    <3>3. Later(s, t, e) => Older(nand, C, s, e)
      BY <2>1, <2>5 DEF Older
    <3>4. QED
      BY <3>1, <3>2, <3>3
  <2>6. QED
    BY <2>1, <2>4, <2>5
<1>7. ASSUME t = None, NEW e \in Live, At(nand, e).file = f, At(nand, e).chunk = k
      PROVE  CutPending(q) /\ w.dir = "root" /\ k > w.size
  <2>1. e \in Of(nand, C, f, k) /\ e \in C /\ ~CutBy(nand, C, s, e)
    BY <1>2, <1>5, <1>7
  <2>2. ~Barred(nand, C, s, F, e)
    <3>1. SUFFICES ASSUME Barred(nand, C, s, F, e) PROVE FALSE
      OBVIOUS
    <3>2. PICK h \in Of(nand, C, f, 0) :
            At(nand, h).shrink /\ k > SizeLeft(At(nand, h)) /\ Later(s, h, e)
      BY <1>7, <3>1 DEF Barred, Guard
    <3>3. h \in C /\ At(nand, h).file = f /\ Cuts(nand, C, s, h)
      BY <3>2 DEF Of, Cuts
    <3>4. CutBy(nand, C, s, e)
      BY <1>7, <3>2, <3>3 DEF CutBy
    <3>5. QED
      BY <2>1, <3>4
  <2>3. QED
    BY <1>4, <1>7, <2>1, <2>2
<1>8. QED
  BY <1>6, <1>7

(* The names N, data D and call P that a state maps to, said with objects. *)
ViewOf(n, o, t, N, D, P) ==
  /\ N \subseteq Files /\ D \subseteq N \X (1 .. FileChunks) \X Values
  /\ \A f \in Files : f \in N <=> HeldName(n, o[f])
  /\ \A f \in Files, k \in 1 .. FileChunks : \A v :
       <<f, k, v>> \in D <=> Shown(n, o[f], Left(t, f), k, v)
  /\ \A f \in Files : \A x \in Left(t, f) : Due(n, o[f], x) => P = CallOn(o[f], x)
  /\ (\A f \in Files : \A x \in Left(t, f) : ~Due(n, o[f], x)) => P = None

Viewed == ViewOf(nand, obj, todo, Names, Contents, Pending)

LEMMA CutsAgree ==
  ASSUME NEW f \in Files, CallsFile(nand, obj[f], Left(todo, f), f), NEW k
  PROVE  BeingCut(f, k) <=> CutPending(Left(todo, f)) /\ obj[f].dir = "root" /\ k > obj[f].size
<1>1. PICK q, x : q = Left(todo, f) /\ x = UpdateObjectHeader(f, TRUE)
  OBVIOUS
<1>2. x.op = "header" /\ x.shrink /\ x.file = f
  BY <1>1 DEF UpdateObjectHeader, Op
<1>3. CutPending(q) <=> x \in q
  BY <1>1, <1>2 DEF CutPending, CallsFile
<1>4. x \in q <=> \E i \in DOMAIN todo : todo[i] = x
  BY <1>1, <1>2 DEF Left
<1>5. QED
  BY <1>1, <1>3, <1>4 DEF BeingCut

LEMMA ContentsHeld ==
  ASSUME GutsInv, ScanInv, StoreInv, mounted, NEW f \in Files, NEW k \in 1 .. FileChunks, NEW v
  PROVE  <<f, k, v>> \in Contents <=> Shown(nand, obj[f], Left(todo, f), k, v)
<1>1. PICK w, q, t : w = obj[f] /\ q = Left(todo, f) /\ t = w.tnode[k]
  OBVIOUS
<1>2. \A c : Tag(c) = At(nand, c)
  BY FileFacts
<1>3. Named(f) <=> HeldName(nand, w)
  BY <1>1, NamedHeld
<1>4. CallsFile(nand, w, q, f)
  BY <1>1 DEF StoreInv, CallsOk
<1>5. BeingCut(f, k) <=> CutPending(q) /\ w.dir = "root" /\ k > w.size
  BY <1>1, <1>4, CutsAgree
<1>6. k \in Nat /\ k > 0
  BY Geometry
<1>7. <<f, k, v>> \in Contents <=>
        \E c \in Live : /\ At(nand, c).file = f /\ At(nand, c).chunk = k /\ At(nand, c).val = v
                        /\ Named(f) /\ ~BeingCut(f, k)
  <2>1. ASSUME <<f, k, v>> \in Contents
        PROVE  \E c \in Live : /\ At(nand, c).file = f /\ At(nand, c).chunk = k /\ At(nand, c).val = v
                               /\ Named(f) /\ ~BeingCut(f, k)
    <3>1. PICK c \in Live : /\ Tag(c).chunk > 0 /\ Named(Tag(c).file) /\ ~BeingCut(Tag(c).file, Tag(c).chunk)
                            /\ <<f, k, v>> = <<Tag(c).file, Tag(c).chunk, Tag(c).val>>
      BY <2>1 DEF Contents
    <3>2. f = Tag(c).file /\ k = Tag(c).chunk /\ v = Tag(c).val
      BY <3>1
    <3>3. QED
      BY <1>2, <3>1, <3>2
  <2>2. ASSUME NEW c \in Live, At(nand, c).file = f, At(nand, c).chunk = k, At(nand, c).val = v,
               Named(f), ~BeingCut(f, k)
        PROVE  <<f, k, v>> \in Contents
    BY <1>2, <1>6, <2>2 DEF Contents
  <2>3. QED
    BY <2>1, <2>2
<1>8. CASE ~HeldName(nand, w)
  BY <1>1, <1>3, <1>7, <1>8 DEF Shown
<1>9. CASE HeldName(nand, w)
  <2>1. /\ t # None => /\ t \in Live /\ At(nand, t).file = f /\ At(nand, t).chunk = k
                       /\ \A e \in Live : At(nand, e).file = f /\ At(nand, e).chunk = k => e = t
        /\ t = None => \A e \in Live : At(nand, e).file = f /\ At(nand, e).chunk = k =>
                         CutPending(q) /\ w.dir = "root" /\ k > w.size
    BY <1>1, <1>9, LiveHeld
  <2>2. Shown(nand, w, q, k, v) <=>
          t # None /\ At(nand, t).val = v /\ ~BeingCut(f, k)
    BY <1>1, <1>5, <1>9, Zenon DEF Shown
  <2>3. CASE t = None
    BY <1>1, <1>5, <1>7, <2>1, <2>2, <2>3
  <2>4. CASE t # None
    BY <1>1, <1>3, <1>7, <1>9, <2>1, <2>2, <2>4
  <2>5. QED
    BY <2>3, <2>4
<1>10. QED
  BY <1>8, <1>9

(* A file has one step left at most that may take effect.                  *)
LEMMA LeftActing ==
  ASSUME NEW t \in Seq(Ops), NEW o, NEW g, TodoOk(t, o, g), NEW f \in Files,
         NEW x \in Left(t, f), NEW y \in Left(t, f), Acting(x), Acting(y)
  PROVE  x = y
<1>1. PICK i \in DOMAIN t : x = t[i] /\ x.op # "gc" /\ x.file = f
  BY DEF Left
<1>2. PICK j \in DOMAIN t : y = t[j] /\ y.op # "gc" /\ y.file = f
  BY DEF Left
<1>3. i \in Int /\ j \in Int
  BY <1>1, <1>2
<1>4. x.op \in {"put", "header"} /\ y.op \in {"put", "header"}
  BY DEF Acting
<1>5. \A a, b \in DOMAIN t : a < b /\ On(t, a) /\ On(t, b) /\ t[a].file = t[b].file =>
        \/ t[a].op = "prune" /\ t[b].op \in {"prune", "header"}
        \/ t[a].op = "header" /\ t[b].op = "remove" /\ o[t[a].file].dir = "deleted"
  BY DEF TodoOk
<1>6. On(t, i) /\ On(t, j)
  BY <1>1, <1>2 DEF On
<1>7. ~(i < j) /\ ~(j < i)
  BY <1>1, <1>2, <1>4, <1>5, <1>6
<1>8. QED
  BY <1>1, <1>2, <1>3, <1>7

LEMMA DueActs ==
  ASSUME NEW n, NEW w, NEW q, NEW f, CallsFile(n, w, q, f), NEW x \in q, Due(n, w, x)
  PROVE  Acting(x) /\ Acts(q, w)
<1>1. Acting(x)
  BY DEF Due, Acting
<1>2. w.dir # "deleted"
  BY DEF Due, CallsFile
<1>3. QED
  BY <1>1, <1>2 DEF Acts

LEMMA PendingDue ==
  ASSUME GutsInv, ScanInv, StoreInv, mounted
  PROVE  /\ \A f \in Files : \A x \in Left(todo, f) :
              Due(nand, obj[f], x) => Pending = CallOn(obj[f], x)
         /\ (\A f \in Files : \A x \in Left(todo, f) : ~Due(nand, obj[f], x)) => Pending = None
<1>1. todo \in Seq(Ops) /\ TodoOk(todo, obj, gcBlock)
  BY ScanFacts
<1>2. CallsOk(nand, todo, obj)
  BY DEF StoreInv
<1>3. ASSUME NEW i \in DOMAIN todo, Effective(todo[i])
      PROVE  \E f \in Files : todo[i].file = f /\ todo[i] \in Left(todo, f) /\ Due(nand, obj[f], todo[i])
  <2>1. PICK x : x = todo[i]
    OBVIOUS
  <2>2. x.op \in {"put", "header"}
    BY <1>3, <2>1 DEF Effective
  <2>3. On(todo, i)
    BY <2>1, <2>2 DEF On
  <2>4. x.file \in Files
    BY <1>1, <2>1, <2>3 DEF TodoOk
  <2>5. PICK f \in Files : f = x.file
    BY <2>4
  <2>6. x \in Left(todo, f)
    BY <2>1, <2>3, <2>5 DEF Left, On
  <2>7. Named(f) <=> HeldName(nand, obj[f])
    BY NamedHeld
  <2>8. Effective(x)
    BY <1>3, <2>1
  <2>9. Due(nand, obj[f], x)
    BY <2>5, <2>7, <2>8 DEF Effective, Due
  <2>10. QED
    BY <2>1, <2>5, <2>6, <2>9
<1>4. ASSUME NEW f \in Files, NEW x \in Left(todo, f), Due(nand, obj[f], x)
      PROVE  Pending = CallOn(obj[f], x)
  <2>1. PICK i \in DOMAIN todo : todo[i] = x /\ x.file = f
    BY <1>4 DEF Left
  <2>2. Named(f) <=> HeldName(nand, obj[f])
    BY NamedHeld
  <2>3. Effective(todo[i])
    <3>1. \/ x.op = "put" /\ Named(f)
          \/ x.op = "header" /\ (Named(f) <=> x.shrink \/ obj[f].dir # "root")
      BY <1>4, <2>2, Zenon DEF Due
    <3>2. \/ x.op = "put" /\ Named(f)
          \/ x.op = "header" /\ Named(f) = (x.shrink \/ obj[f].dir # "root")
      BY <3>1 DEF Named
    <3>3. Effective(x)
      BY <2>1, <3>2, Zenon DEF Effective
    <3>4. QED
      BY <2>1, <3>3
  <2>4. PICK S : S = {j \in DOMAIN todo : Effective(todo[j])}
    OBVIOUS
  <2>5. S \in SUBSET Nat /\ S # {}
    BY <1>1, <2>3, <2>4
  <2>6. PICK j : j = Min(S)
    OBVIOUS
  <2>7. j \in S
    <3>1. \E a \in S : \A b \in S : a <= b
      BY <2>5, LeastLemma
    <3>2. QED
      BY <2>6, <3>1 DEF Min
  <2>8. PICK y : y = todo[j]
    OBVIOUS
  <2>9. PICK g \in Files : y.file = g /\ y \in Left(todo, g) /\ Due(nand, obj[g], y)
    BY <1>3, <2>4, <2>7, <2>8
  <2>10. CallsFile(nand, obj[f], Left(todo, f), f) /\ CallsFile(nand, obj[g], Left(todo, g), g)
    BY <1>2 DEF CallsOk
  <2>11. Acting(x) /\ Acts(Left(todo, f), obj[f])
    BY <1>4, <2>10, DueActs
  <2>12. Acting(y) /\ Acts(Left(todo, g), obj[g])
    BY <2>9, <2>10, DueActs
  <2>13. f = g
    BY <1>2, <2>11, <2>12 DEF CallsOk
  <2>14. x = y
    BY <1>1, <1>4, <2>9, <2>11, <2>12, <2>13, LeftActing
  <2>15. Pending = Call(y)
    BY <2>3, <2>4, <2>6, <2>8 DEF Pending
  <2>16. QED
    BY <2>1, <2>14, <2>15 DEF Call, CallOn
<1>5. ASSUME \A f \in Files : \A x \in Left(todo, f) : ~Due(nand, obj[f], x) PROVE Pending = None
  BY <1>3, <1>5 DEF Pending
<1>6. QED
  BY <1>4, <1>5

LEMMA StateTyped ==
  ASSUME GutsInv, StoreInv
  PROVE  Names \subseteq Files /\ Contents \subseteq Names \X (1 .. FileChunks) \X Values
<1>1. nand \in Flash /\ ValuesOk(nand)
  BY DEF GutsInv, StoreInv
<1>2. Names \subseteq Files
  BY DEF Names
<1>3. ASSUME NEW z \in Contents PROVE z \in Names \X (1 .. FileChunks) \X Values
  <2>1. PICK c \in Live : /\ Tag(c).chunk > 0 /\ Named(Tag(c).file)
                          /\ z = <<Tag(c).file, Tag(c).chunk, Tag(c).val>>
    BY <1>3 DEF Contents
  <2>2. c \in Addr /\ c[2] <= Len(nand[c[1]]) /\ nand[c[1]][c[2]] # Torn
    BY DEF Live, Log, Readable
  <2>3. PICK b \in Blocks, p \in Pages : c = <<b, p>>
    BY <2>2 DEF Addr
  <2>4. PICK y : y = nand[b][p]
    OBVIOUS
  <2>5. y = Tag(c) /\ y # Torn /\ p \in 1 .. Len(nand[b])
    <3>1. nand[b] \in Seq(PagesOfLog \cup {Torn})
      BY <1>1 DEF Flash
    <3>2. Len(nand[b]) \in Nat /\ p \in Nat /\ p >= 1
      BY <3>1, Geometry DEF Pages
    <3>3. QED
      BY <2>2, <2>3, <2>4, <3>2 DEF Tag
  <2>6. y \in PagesOfLog
    <3>1. nand[b] \in Seq(PagesOfLog \cup {Torn})
      BY <1>1 DEF Flash
    <3>2. \A i \in 1 .. Len(nand[b]) : nand[b][i] \in PagesOfLog \cup {Torn}
      BY <3>1
    <3>3. QED
      BY <2>4, <2>5, <3>2
  <2>7. y.chunk # 0 => y.val \in Values
    BY <1>1, <2>4, <2>5 DEF ValuesOk
  <2>8. y.file \in Files /\ y.chunk \in 1 .. FileChunks
    BY <2>1, <2>5, <2>6, Geometry DEF PagesOfLog
  <2>9. y.val \in Values
    BY <2>7, <2>8
  <2>10. y.file \in Names
    BY <2>1, <2>5, <2>8 DEF Names
  <2>11. QED
    BY <2>1, <2>5, <2>8, <2>9, <2>10
<1>4. QED
  BY <1>2, <1>3

LEMMA View ==
  GutsInv /\ ScanInv /\ StoreInv /\ mounted => Viewed
<1> SUFFICES ASSUME GutsInv, ScanInv, StoreInv, mounted PROVE Viewed
  OBVIOUS
<1>1. \A f \in Files : f \in Names <=> HeldName(nand, obj[f])
  BY NamedHeld DEF Names
<1>2. \A f \in Files, k \in 1 .. FileChunks : \A v :
        <<f, k, v>> \in Contents <=> Shown(nand, obj[f], Left(todo, f), k, v)
  BY ContentsHeld, Zenon
<1>3. QED
  BY <1>1, <1>2, PendingDue, StateTyped DEF Viewed, ViewOf

LEMMA ViewAgain ==
  (GutsInv /\ ScanInv /\ StoreInv /\ mounted)' => Viewed'
BY View, PTL

(* What a step may do to the store.                                        *)
StoreStep(N, D, P, M, E, Q) ==
  \/ M = N /\ E = D /\ Q = P
  \/ /\ P = None /\ Q \in Store!Calls /\ (Q.op # "create" => Q.file \in N)
     /\ E = Store!Kept(D, Q) /\ M = N
  \/ /\ P # None /\ Q = None
     /\ \/ P.op = "create" /\ M = N \cup {P.file} /\ E = D
        \/ P.op = "remove" /\ M = N \ {P.file} /\ E = {x \in D : x[1] # P.file}
        \/ /\ P.op = "write" /\ M = N
           /\ E = {x \in D : x[1] # P.file \/ x[2] # P.chunk} \cup {<<P.file, P.chunk, P.val>>}
        \/ M = N /\ E = D
        \/ /\ P.op = "cut" /\ M = N /\ E \subseteq N \X (1 .. FileChunks) \X Values
           /\ Store!Kept(E, P) = D

LEMMA StoreNext ==
  ASSUME StoreStep(Names, Contents, Pending, Names', Contents', Pending')
  PROVE  [Store!Next]_(Store!vars)
BY DEF StoreStep, Store!Next, Store!vars, Store!Begin, Store!End, Store!Created, Store!Removed,
       Store!Written, Store!Over, Store!CutTorn

LEMMA SameStep ==
  ASSUME NEW n, NEW o, NEW t, NEW N, NEW D, NEW P, ViewOf(n, o, t, N, D, P),
         NEW m, NEW p, NEW r, NEW M, NEW E, NEW Q, ViewOf(m, p, r, M, E, Q),
         \A f \in Files : SameFile(n, o[f], Left(t, f), m, p[f], Left(r, f))
  PROVE  M = N /\ E = D /\ Q = P
<1>1. M = N
  <2>1. \A f \in Files : f \in N <=> f \in M
    BY DEF ViewOf, SameFile
  <2>2. N \subseteq Files /\ M \subseteq Files
    BY DEF ViewOf
  <2>3. QED
    BY <2>1, <2>2
<1>2. \A f \in Files, k \in 1 .. FileChunks : \A v : <<f, k, v>> \in D <=> <<f, k, v>> \in E
  BY Zenon DEF ViewOf, SameFile
<1>3. E = D
  BY <1>2 DEF ViewOf
<1>4. Q = P
  <2>1. CASE \A f \in Files : \A x \in Left(t, f) : ~Due(n, o[f], x)
    <3>1. \A f \in Files : \A x \in Left(r, f) : ~Due(m, p[f], x)
      BY <2>1 DEF SameFile
    <3>2. P = None
      BY <2>1 DEF ViewOf
    <3>3. Q = None
      BY <3>1 DEF ViewOf
    <3>4. QED
      BY <3>2, <3>3
  <2>2. CASE \E f \in Files : \E x \in Left(t, f) : Due(n, o[f], x)
    <3>1. PICK f \in Files : \E x \in Left(t, f) : Due(n, o[f], x)
      BY <2>2
    <3>2. PICK x \in Left(t, f) : Due(n, o[f], x)
      BY <3>1
    <3>3. x \in Left(r, f) /\ Due(m, p[f], x) /\ CallOn(p[f], x) = CallOn(o[f], x)
      BY <3>2 DEF SameFile
    <3>4. P = CallOn(o[f], x)
      BY <3>2 DEF ViewOf
    <3>5. Q = CallOn(p[f], x)
      BY <3>3 DEF ViewOf
    <3>6. QED
      BY <3>3, <3>4, <3>5
  <2>3. QED
    BY <2>1, <2>2
<1>5. QED
  BY <1>1, <1>3, <1>4

(* The invariant after a step that gives no file a step it did not have.   *)
LEMMA StoreKept ==
  ASSUME StoreInv, mounted, mounted', NEW m, NEW p, NEW r, nand' = m, obj' = p, todo' = r, ValuesOk(m),
         \A f \in Files : /\ CallsFile(m, p[f], Left(r, f), f)
                          /\ Acts(Left(r, f), p[f]) => Acts(Left(todo, f), obj[f])
  PROVE  StoreInv'
<1>1. \A f, g \in Files : Acts(Left(todo, f), obj[f]) /\ Acts(Left(todo, g), obj[g]) => f = g
  BY DEF StoreInv, CallsOk
<1>2. CallsOk(m, r, p)
  BY <1>1 DEF CallsOk
<1>3. QED
  BY <1>2 DEF StoreInv

LEMMA Views ==
  ASSUME GutsInv, ScanInv, StoreInv, mounted, GutsInv', ScanInv', StoreInv', mounted',
         NEW m, NEW p, NEW r, nand' = m, obj' = p, todo' = r
  PROVE  /\ ViewOf(nand, obj, todo, Names, Contents, Pending)
         /\ ViewOf(m, p, r, Names', Contents', Pending')
<1>1. Viewed
  BY View
<1>2. Viewed'
  BY ViewAgain
<1>3. QED
  BY <1>1, <1>2 DEF Viewed

(* A step that no user notices.                                            *)
LEMMA QuietStep ==
  ASSUME GutsInv, ScanInv, StoreInv, mounted, GutsInv', ScanInv', mounted',
         NEW m, NEW p, NEW r, nand' = m, obj' = p, todo' = r, ValuesOk(m),
         \A f \in Files : StepFile(nand, obj[f], Left(todo, f), m, p[f], Left(r, f), f)
  PROVE  StoreInv' /\ StoreStep(Names, Contents, Pending, Names', Contents', Pending')
<1>1. \A f \in Files : /\ CallsFile(m, p[f], Left(r, f), f)
                       /\ Acts(Left(r, f), p[f]) => Acts(Left(todo, f), obj[f])
                       /\ SameFile(nand, obj[f], Left(todo, f), m, p[f], Left(r, f))
  BY DEF StepFile
<1>2. StoreInv'
  BY <1>1, StoreKept
<1>3. /\ ViewOf(nand, obj, todo, Names, Contents, Pending)
      /\ ViewOf(m, p, r, Names', Contents', Pending')
  BY <1>2, Views
<1>4. Names' = Names /\ Contents' = Contents /\ Pending' = Pending
  BY <1>1, <1>3, SameStep
<1>5. QED
  BY <1>2, <1>4 DEF StoreStep

LEMMA OthersSame ==
  ASSUME NEW n, NEW o, NEW t, NEW N, NEW D, NEW P, ViewOf(n, o, t, N, D, P),
         NEW m, NEW p, NEW r, NEW M, NEW E, NEW Q, ViewOf(m, p, r, M, E, Q), NEW h \in Files,
         SameFile(n, o[h], Left(t, h), m, p[h], Left(r, h))
  PROVE  /\ h \in N <=> h \in M
         /\ \A k \in 1 .. FileChunks : \A v : <<h, k, v>> \in D <=> <<h, k, v>> \in E
BY DEF ViewOf, SameFile

(* The step that decides the call of f.                                    *)
LEMMA Decided ==
  ASSUME NEW n, NEW o, NEW t, NEW N, NEW D, NEW P, ViewOf(n, o, t, N, D, P), CallsOk(n, t, o),
         NEW m, NEW p, NEW r, NEW M, NEW E, NEW Q, ViewOf(m, p, r, M, E, Q),
         NEW f \in Files, NEW x \in Left(t, f), Due(n, o[f], x),
         \A h \in Files \ {f} : SameFile(n, o[h], Left(t, h), m, p[h], Left(r, h)),
         \A y \in Left(r, f) : ~Due(m, p[f], y)
  PROVE  /\ P = CallOn(o[f], x) /\ Q = None
         /\ N \subseteq Files /\ M \subseteq Files
         /\ D \subseteq Files \X (1 .. FileChunks) \X Values /\ E \subseteq Files \X (1 .. FileChunks) \X Values
         /\ \A h \in Files \ {f} :
              /\ h \in N <=> h \in M
              /\ \A k \in 1 .. FileChunks : \A v : <<h, k, v>> \in D <=> <<h, k, v>> \in E
<1>1. P = CallOn(o[f], x)
  BY DEF ViewOf
<1>2. CallsFile(n, o[f], Left(t, f), f)
  BY DEF CallsOk
<1>3. Acts(Left(t, f), o[f])
  BY <1>2, DueActs
<1>4. ASSUME NEW h \in Files, NEW y \in Left(r, h) PROVE ~Due(m, p[h], y)
  <2>1. CASE h = f
    BY <1>4, <2>1
  <2>2. CASE h # f
    <3>1. SUFFICES ASSUME Due(m, p[h], y) PROVE FALSE
      OBVIOUS
    <3>2. y \in Left(t, h) /\ Due(n, o[h], y)
      BY <1>4, <2>2, <3>1 DEF SameFile
    <3>3. CallsFile(n, o[h], Left(t, h), h)
      BY DEF CallsOk
    <3>4. Acts(Left(t, h), o[h])
      BY <3>2, <3>3, DueActs
    <3>5. QED
      BY <1>3, <2>2, <3>4 DEF CallsOk
  <2>3. QED
    BY <2>1, <2>2
<1>5. Q = None
  BY <1>4 DEF ViewOf
<1>6. ASSUME NEW h \in Files \ {f}
      PROVE  /\ h \in N <=> h \in M
             /\ \A k \in 1 .. FileChunks : \A v : <<h, k, v>> \in D <=> <<h, k, v>> \in E
  BY <1>6, OthersSame
<1>7. /\ N \subseteq Files /\ M \subseteq Files
      /\ D \subseteq Files \X (1 .. FileChunks) \X Values /\ E \subseteq Files \X (1 .. FileChunks) \X Values
  BY DEF ViewOf
<1>8. QED
  BY <1>1, <1>5, <1>6, <1>7

(* The step that begins a call on f, when nothing else is left to do.      *)
LEMMA Began ==
  ASSUME NEW n, NEW o, NEW t, NEW N, NEW D, NEW P, ViewOf(n, o, t, N, D, P), \A h : Left(t, h) = {},
         NEW m, NEW p, NEW r, NEW M, NEW E, NEW Q, ViewOf(m, p, r, M, E, Q),
         NEW f \in Files, NEW x \in Left(r, f), Due(m, p[f], x),
         \A h \in Files \ {f} : SameFile(n, o[h], Left(t, h), m, p[h], Left(r, h))
  PROVE  /\ P = None /\ Q = CallOn(p[f], x)
         /\ N \subseteq Files /\ M \subseteq Files
         /\ D \subseteq Files \X (1 .. FileChunks) \X Values /\ E \subseteq Files \X (1 .. FileChunks) \X Values
         /\ \A h \in Files \ {f} :
              /\ h \in N <=> h \in M
              /\ \A k \in 1 .. FileChunks : \A v : <<h, k, v>> \in D <=> <<h, k, v>> \in E
<1>1. P = None
  BY DEF ViewOf
<1>2. Q = CallOn(p[f], x)
  BY DEF ViewOf
<1>3. ASSUME NEW h \in Files \ {f}
      PROVE  /\ h \in N <=> h \in M
             /\ \A k \in 1 .. FileChunks : \A v : <<h, k, v>> \in D <=> <<h, k, v>> \in E
  BY <1>3, OthersSame
<1>4. /\ N \subseteq Files /\ M \subseteq Files
      /\ D \subseteq Files \X (1 .. FileChunks) \X Values /\ E \subseteq Files \X (1 .. FileChunks) \X Values
  BY DEF ViewOf
<1>5. QED
  BY <1>1, <1>2, <1>3, <1>4
-----------------------------------------------------------------------------
(* The store, step by step.                                                *)
Stored == StoreInv' /\ StoreStep(Names, Contents, Pending, Names', Contents', Pending')

LEMMA StoreFacts ==
  ASSUME StoreInv, mounted
  PROVE  /\ ValuesOk(nand) /\ CallsOk(nand, todo, obj)
         /\ \A f \in Files : CallsFile(nand, obj[f], Left(todo, f), f)
BY DEF StoreInv, CallsOk

LEMMA CallTyped ==
  ASSUME None \notin Store!Calls, NEW f \in Files, NEW w, w \in Objects, NEW x, x.file = f,
         x.op = "put" => x.chunk \in 1 .. FileChunks /\ x.val \in Values, NEW c, c = CallOn(w, x)
  PROVE  /\ c \in Store!Calls /\ c # None /\ c.file = f
         /\ x.op = "put" => c.op = "write" /\ c.chunk = x.chunk /\ c.val = x.val
         /\ x.op # "put" /\ w.dir # "root" => c.op = "remove"
         /\ x.op # "put" /\ w.dir = "root" /\ x.shrink => c.op = "cut" /\ c.keep = w.size
         /\ x.op # "put" /\ w.dir = "root" /\ ~x.shrink => c.op = "create"
<1>1. w.size \in (1 .. FileChunks) \cup {0}
  BY ObjectFields, Geometry
<1>2. CASE x.op = "put"
  <2>1. c = [op |-> "write", file |-> f, chunk |-> x.chunk, val |-> x.val]
    BY <1>2 DEF CallOn
  <2>2. c \in Store!Calls
    BY <1>2, <2>1 DEF Store!Calls
  <2>3. QED
    BY <1>2, <2>1, <2>2
<1>3. CASE x.op # "put" /\ w.dir # "root"
  <2>1. c = [op |-> "remove", file |-> f]
    BY <1>3 DEF CallOn
  <2>2. c \in Store!Calls
    BY <2>1 DEF Store!Calls
  <2>3. QED
    BY <1>3, <2>1, <2>2
<1>4. CASE x.op # "put" /\ w.dir = "root" /\ x.shrink
  <2>1. c = [op |-> "cut", file |-> f, keep |-> w.size]
    BY <1>4 DEF CallOn
  <2>2. c \in Store!Calls
    BY <1>1, <2>1 DEF Store!Calls
  <2>3. QED
    BY <1>4, <2>1, <2>2
<1>5. CASE x.op # "put" /\ w.dir = "root" /\ ~x.shrink
  <2>1. c = [op |-> "create", file |-> f]
    BY <1>5 DEF CallOn
  <2>2. c \in Store!Calls
    BY <2>1 DEF Store!Calls
  <2>3. QED
    BY <1>5, <2>1, <2>2
<1>6. QED
  BY <1>2, <1>3, <1>4, <1>5

(* A file whose pages a step only moves.                                   *)
LEMMA MatchesStep ==
  ASSUME NEW n, NEW w, NEW q, NEW m, NEW v, NEW p, NEW f, Matches(n, w, m, v),
         \A x : Acting(x) => (x \in q <=> x \in p), CallsFile(n, w, q, f)
  PROVE  StepFile(n, w, q, m, v, p, f)
<1>1. SameFile(n, w, q, m, v, p)
  BY MatchesSame
<1>2. v.dir = w.dir /\ (v.hdr = None <=> w.hdr = None)
  BY DEF Matches
<1>3. HeldName(n, w) <=> HeldName(m, v)
  BY <1>1 DEF SameFile
<1>4. \A x \in p : x.op = "header" => x \in q
  BY DEF Acting
<1>5. CallsFile(m, v, p, f)
  BY <1>2, <1>3, <1>4 DEF CallsFile
<1>6. Acts(p, v) => Acts(q, w)
  BY <1>2 DEF Acts
<1>7. QED
  BY <1>1, <1>5, <1>6 DEF StepFile

LEMMA StillThere ==
  ASSUME NEW n, NEW w, NEW m,
         \A k \in 0 .. FileChunks : OwnOf(w, k) # None => At(m, OwnOf(w, k)) = At(n, OwnOf(w, k))
  PROVE  Matches(n, w, m, w)
<1>1. w.hdr # None => At(m, w.hdr) = At(n, w.hdr)
  <2>1. 0 \in 0 .. FileChunks /\ OwnOf(w, 0) = w.hdr
    BY Geometry, OwnKinds
  <2>2. QED
    BY <2>1
<1>2. \A k \in 1 .. FileChunks : w.tnode[k] # None => At(m, w.tnode[k]) = At(n, w.tnode[k])
  BY OwnKinds
<1>3. QED
  BY <1>1, <1>2 DEF Matches

LEMMA IdleStep ==
  ASSUME NEW n, NEW w, NEW q, NEW f, CallsFile(n, w, q, f)
  PROVE  StepFile(n, w, q, n, w, q, f)
<1>1. Matches(n, w, n, w)
  BY DEF Matches
<1>2. QED
  BY <1>1, MatchesStep

(* A file that has no name before or after.                                *)
LEMMA HiddenStep ==
  ASSUME NEW n, NEW w, NEW q, NEW m, NEW v, NEW p, NEW f, ~HeldName(n, w), ~HeldName(m, v),
         \A x \in q : x.op = "header" => x.shrink \/ w.dir # "root",
         \A x \in p : x.op = "header" => x.shrink \/ v.dir # "root",
         \A x \in p : x.op = "header" /\ x.shrink =>
            x = UpdateObjectHeader(f, TRUE) /\ (v.hdr = None => v.dir = "deleted"),
         Acts(p, v) => Acts(q, w)
  PROVE  StepFile(n, w, q, m, v, p, f)
<1>1. SameFile(n, w, q, m, v, p)
  BY HiddenSame
<1>2. QED
  BY <1>1 DEF StepFile, CallsFile

(* Steps that leave the pages of the log alone.                            *)
LEMMA KeptStep ==
  ASSUME GutsInv, ScanInv, StoreInv, mounted, GutsInv', ScanInv', mounted', nand' = nand,
         NEW p, NEW r, obj' = p, todo' = r,
         \A h \in Files :
           \/ p[h] = obj[h] /\ Left(r, h) = Left(todo, h)
           \/ StepFile(nand, obj[h], Left(todo, h), nand, p[h], Left(r, h), h)
  PROVE  Stored
<1>1. ValuesOk(nand) /\ \A h \in Files : CallsFile(nand, obj[h], Left(todo, h), h)
  BY StoreFacts
<1>2. \A h \in Files : StepFile(nand, obj[h], Left(todo, h), nand, p[h], Left(r, h), h)
  BY <1>1, IdleStep
<1>3. QED
  BY <1>1, <1>2, QuietStep DEF Stored

(* What may change for the store when all but the file f stays.            *)
OnlyFile(N, D, M, E, f) ==
  /\ N \subseteq Files /\ M \subseteq Files
  /\ D \subseteq Files \X (1 .. FileChunks) \X Values /\ E \subseteq Files \X (1 .. FileChunks) \X Values
  /\ \A h \in Files \ {f} :
       /\ h \in N <=> h \in M
       /\ \A k \in 1 .. FileChunks : \A v : <<h, k, v>> \in D <=> <<h, k, v>> \in E

LEMMA Triples ==
  ASSUME NEW D, D \subseteq Files \X (1 .. FileChunks) \X Values, NEW z \in D
  PROVE  /\ z = <<z[1], z[2], z[3]>> /\ z[1] \in Files /\ z[2] \in 1 .. FileChunks /\ z[3] \in Values
OBVIOUS

LEMMA SameTriples ==
  ASSUME NEW D, NEW E, D \subseteq Files \X (1 .. FileChunks) \X Values,
         E \subseteq Files \X (1 .. FileChunks) \X Values,
         \A h \in Files, k \in 1 .. FileChunks : \A v : <<h, k, v>> \in D <=> <<h, k, v>> \in E
  PROVE  D = E
<1>1. \A z \in D : z \in E
  <2>1. ASSUME NEW z \in D PROVE z \in E
    <3>1. PICK h, k, v : z = <<h, k, v>> /\ h \in Files /\ k \in 1 .. FileChunks
      BY Triples
    <3>2. QED
      BY <3>1
  <2>2. QED
    BY <2>1
<1>2. \A z \in E : z \in D
  <2>1. ASSUME NEW z \in E PROVE z \in D
    <3>1. PICK h, k, v : z = <<h, k, v>> /\ h \in Files /\ k \in 1 .. FileChunks
      BY Triples
    <3>2. QED
      BY <3>1
  <2>2. QED
    BY <2>1
<1>3. QED
  BY <1>1, <1>2

LEMMA SameNames ==
  ASSUME NEW N, NEW D, NEW M, NEW E, NEW f \in Files, OnlyFile(N, D, M, E, f), f \in N <=> f \in M
  PROVE  M = N
BY DEF OnlyFile

LEMMA StoreOver ==
  ASSUME NEW N, NEW D, NEW P, NEW M, NEW E, NEW Q, NEW f \in Files, OnlyFile(N, D, M, E, f),
         P # None, Q = None, f \in N <=> f \in M,
         \A k \in 1 .. FileChunks : \A v : <<f, k, v>> \in D <=> <<f, k, v>> \in E
  PROVE  StoreStep(N, D, P, M, E, Q)
<1>1. M = N
  BY SameNames
<1>2. E = D
  BY SameTriples DEF OnlyFile
<1>3. QED
  BY <1>1, <1>2 DEF StoreStep

LEMMA StoreCreates ==
  ASSUME NEW N, NEW D, NEW P, NEW M, NEW E, NEW Q, NEW f \in Files, OnlyFile(N, D, M, E, f),
         P # None, Q = None, P.op = "create", P.file = f, f \in M,
         \A k \in 1 .. FileChunks : \A v : <<f, k, v>> \in D <=> <<f, k, v>> \in E
  PROVE  StoreStep(N, D, P, M, E, Q)
<1>1. M = N \cup {f}
  BY DEF OnlyFile
<1>2. E = D
  BY SameTriples DEF OnlyFile
<1>3. QED
  BY <1>1, <1>2 DEF StoreStep

LEMMA StoreRemoves ==
  ASSUME NEW N, NEW D, NEW P, NEW M, NEW E, NEW Q, NEW f \in Files, OnlyFile(N, D, M, E, f),
         P # None, Q = None, P.op = "remove", P.file = f, f \notin M,
         \A k \in 1 .. FileChunks : \A v : <<f, k, v>> \notin E
  PROVE  StoreStep(N, D, P, M, E, Q)
<1>1. M = N \ {f}
  BY DEF OnlyFile
<1>2. PICK G : G = {x \in D : x[1] # f}
  OBVIOUS
<1>3. \A h, k, v : <<h, k, v>> \in G <=> <<h, k, v>> \in D /\ h # f
  BY <1>2
<1>4. G \subseteq Files \X (1 .. FileChunks) \X Values
  BY <1>2 DEF OnlyFile
<1>5. \A h \in Files, k \in 1 .. FileChunks : \A v : <<h, k, v>> \in E <=> <<h, k, v>> \in G
  BY <1>3, Zenon DEF OnlyFile
<1>6. E = G
  BY <1>4, <1>5, SameTriples DEF OnlyFile
<1>7. QED
  BY <1>1, <1>2, <1>6 DEF StoreStep

LEMMA StoreWrites ==
  ASSUME NEW N, NEW D, NEW P, NEW M, NEW E, NEW Q, NEW f \in Files, OnlyFile(N, D, M, E, f),
         P # None, Q = None, P.op = "write", P.file = f, f \in N <=> f \in M,
         NEW j \in 1 .. FileChunks, P.chunk = j, NEW y \in Values, P.val = y,
         \A k \in 1 .. FileChunks : \A v :
           <<f, k, v>> \in E <=> IF k = j THEN v = y ELSE <<f, k, v>> \in D
  PROVE  StoreStep(N, D, P, M, E, Q)
<1>1. M = N
  BY SameNames
<1>2. PICK A, B : A = {x \in D : x[1] # f \/ x[2] # j} /\ B = {<<f, j, y>>}
  OBVIOUS
<1>3. \A h, k, v : <<h, k, v>> \in A <=> <<h, k, v>> \in D /\ (h # f \/ k # j)
  BY <1>2
<1>4. \A h, k, v : <<h, k, v>> \in B <=> h = f /\ k = j /\ v = y
  BY <1>2
<1>5. PICK G : G = A \cup B
  OBVIOUS
<1>6. \A z : z \in G <=> z \in A \/ z \in B
  BY <1>5
<1>7. A \subseteq Files \X (1 .. FileChunks) \X Values
  BY <1>2 DEF OnlyFile
<1>8. B \subseteq Files \X (1 .. FileChunks) \X Values
  BY <1>2
<1>9. G \subseteq Files \X (1 .. FileChunks) \X Values
  BY <1>6, <1>7, <1>8
<1>10. ASSUME NEW h \in Files, NEW k \in 1 .. FileChunks, NEW v
       PROVE  <<h, k, v>> \in E <=> <<h, k, v>> \in G
  <2>1. <<h, k, v>> \in G <=> (<<h, k, v>> \in D /\ (h # f \/ k # j)) \/ (h = f /\ k = j /\ v = y)
    BY <1>3, <1>4, <1>6
  <2>2. CASE h # f
    BY <2>1, <2>2 DEF OnlyFile
  <2>3. CASE h = f
    BY <2>1, <2>3
  <2>4. QED
    BY <2>2, <2>3
<1>11. E = G
  BY <1>9, <1>10, SameTriples DEF OnlyFile
<1>12. QED
  BY <1>1, <1>2, <1>5, <1>11 DEF StoreStep

LEMMA StoreBegins ==
  ASSUME NEW N, NEW D, NEW P, NEW M, NEW E, NEW Q, NEW f \in Files, OnlyFile(N, D, M, E, f),
         P = None, Q \in Store!Calls, Q.file = f, Q.op # "create" => f \in N, f \in N <=> f \in M,
         \A k \in 1 .. FileChunks : \A v :
           <<f, k, v>> \in E <=> <<f, k, v>> \in D /\ (Q.op = "cut" => k <= Q.keep)
  PROVE  StoreStep(N, D, P, M, E, Q)
<1>1. M = N
  BY SameNames
<1>2. PICK G : G = Store!Kept(D, Q)
  OBVIOUS
<1>3. \A h, k, v : <<h, k, v>> \in G <=> <<h, k, v>> \in D /\ (Q.op = "cut" /\ h = f => k <= Q.keep)
  BY <1>2 DEF Store!Kept
<1>4. G \subseteq Files \X (1 .. FileChunks) \X Values
  BY <1>2 DEF OnlyFile, Store!Kept
<1>5. ASSUME NEW h \in Files, NEW k \in 1 .. FileChunks, NEW v
      PROVE  <<h, k, v>> \in E <=> <<h, k, v>> \in G
  <2>1. CASE h # f
    BY <1>3, <2>1 DEF OnlyFile
  <2>2. CASE h = f
    BY <1>3, <2>2
  <2>3. QED
    BY <2>1, <2>2
<1>6. E = G
  BY <1>4, <1>5, SameTriples DEF OnlyFile
<1>7. QED
  BY <1>1, <1>2, <1>6 DEF StoreStep

(* How a call on the file with the object w ends.                          *)
Outcome(n, w, l, m, v, q, x) ==
  \/ /\ HeldName(n, w) <=> HeldName(m, v)
     /\ \A k \in 1 .. FileChunks : \A z : Shown(n, w, l, k, z) <=> Shown(m, v, q, k, z)
  \/ /\ x.op = "put" /\ HeldName(m, v)
     /\ \A k \in 1 .. FileChunks : \A z :
          Shown(m, v, q, k, z) <=> IF k = x.chunk THEN z = x.val ELSE Shown(n, w, l, k, z)
  \/ /\ x.op = "header" /\ w.dir = "root" /\ ~x.shrink /\ HeldName(m, v)
     /\ \A k \in 1 .. FileChunks : \A z : Shown(n, w, l, k, z) <=> Shown(m, v, q, k, z)
  \/ x.op = "header" /\ w.dir # "root" /\ ~HeldName(m, v)

LEMMA OpTyped ==
  ASSUME GutsInv, mounted, NEW f \in Files, NEW x \in Left(todo, f)
  PROVE  /\ x.file = f /\ obj[f] \in Objects
         /\ x.op = "put" => x.chunk \in 1 .. FileChunks /\ x.val \in Values
<1>1. TodoOk(todo, obj, gcBlock) /\ obj \in [Files -> Objects]
  BY DEF GutsInv, MemoryOk
<1>2. PICK i \in DOMAIN todo : x = todo[i] /\ todo[i].op # "gc" /\ todo[i].file = f
  BY DEF Left
<1>3. On(todo, i)
  BY <1>2 DEF On
<1>4. QED
  BY <1>1, <1>2, <1>3 DEF TodoOk

LEMMA DecideStep ==
  ASSUME GutsInv, ScanInv, StoreInv, mounted, GutsInv', ScanInv', mounted', None \notin Store!Calls,
         NEW m, NEW p, NEW r, nand' = m, obj' = p, todo' = r, ValuesOk(m),
         NEW f \in Files, NEW w, w = obj[f], NEW l, l = Left(todo, f), NEW v, v = p[f], NEW q, q = Left(r, f),
         NEW x \in l, Due(nand, w, x),
         \A h \in Files \ {f} : StepFile(nand, obj[h], Left(todo, h), m, p[h], Left(r, h), h),
         CallsFile(m, v, q, f), Acts(q, v) => Acts(l, w), \A y \in q : ~Due(m, v, y),
         Outcome(nand, w, l, m, v, q, x)
  PROVE  Stored
<1>1. \A h \in Files : /\ CallsFile(m, p[h], Left(r, h), h)
                       /\ Acts(Left(r, h), p[h]) => Acts(Left(todo, h), obj[h])
  BY DEF StepFile
<1>2. StoreInv'
  BY <1>1, StoreKept
<1>3. PICK N, D, P, M, E, Q : /\ N = Names /\ D = Contents /\ P = Pending
                              /\ M = Names' /\ E = Contents' /\ Q = Pending'
  OBVIOUS
<1>4. ViewOf(nand, obj, todo, N, D, P) /\ ViewOf(m, p, r, M, E, Q)
  BY <1>2, <1>3, Views
<1>5. CallsOk(nand, todo, obj)
  BY StoreFacts
<1>6. \A h \in Files \ {f} : SameFile(nand, obj[h], Left(todo, h), m, p[h], Left(r, h))
  BY DEF StepFile
<1>7. P = CallOn(w, x) /\ Q = None /\ OnlyFile(N, D, M, E, f)
  BY <1>4, <1>5, <1>6, Decided DEF OnlyFile
<1>8. /\ f \in N <=> HeldName(nand, w)
      /\ f \in M <=> HeldName(m, v)
      /\ \A k \in 1 .. FileChunks : \A z : <<f, k, z>> \in D <=> Shown(nand, w, l, k, z)
      /\ \A k \in 1 .. FileChunks : \A z : <<f, k, z>> \in E <=> Shown(m, v, q, k, z)
  BY <1>4 DEF ViewOf
<1>9. /\ x.file = f /\ w \in Objects
      /\ x.op = "put" => x.chunk \in 1 .. FileChunks /\ x.val \in Values
  BY OpTyped
<1>10. /\ P # None /\ P.file = f
       /\ x.op = "put" => P.op = "write" /\ P.chunk = x.chunk /\ P.val = x.val
       /\ x.op # "put" /\ w.dir # "root" => P.op = "remove"
       /\ x.op # "put" /\ w.dir = "root" /\ ~x.shrink => P.op = "create"
  BY <1>7, <1>9, CallTyped
<1>11. StoreStep(N, D, P, M, E, Q)
  <2>1. CASE /\ HeldName(nand, w) <=> HeldName(m, v)
             /\ \A k \in 1 .. FileChunks : \A z : Shown(nand, w, l, k, z) <=> Shown(m, v, q, k, z)
    <3>1. f \in N <=> f \in M
      BY <1>8, <2>1
    <3>2. \A k \in 1 .. FileChunks : \A z : <<f, k, z>> \in D <=> <<f, k, z>> \in E
      BY <1>8, <2>1
    <3>3. QED
      BY <1>7, <1>10, <3>1, <3>2, StoreOver
  <2>2. CASE /\ x.op = "put" /\ HeldName(m, v)
             /\ \A k \in 1 .. FileChunks : \A z :
                  Shown(m, v, q, k, z) <=> IF k = x.chunk THEN z = x.val ELSE Shown(nand, w, l, k, z)
    <3>1. HeldName(nand, w)
      BY <2>2 DEF Due
    <3>2. f \in N <=> f \in M
      BY <1>8, <2>2, <3>1
    <3>3. PICK j, y : j = x.chunk /\ y = x.val
      OBVIOUS
    <3>4. j \in 1 .. FileChunks /\ y \in Values /\ P.op = "write" /\ P.chunk = j /\ P.val = y
      BY <1>9, <1>10, <2>2, <3>3
    <3>5. \A k \in 1 .. FileChunks : \A z :
            <<f, k, z>> \in E <=> IF k = j THEN z = y ELSE <<f, k, z>> \in D
      BY <1>8, <2>2, <3>3
    <3>6. QED
      BY <1>7, <1>10, <3>2, <3>4, <3>5, StoreWrites
  <2>3. CASE /\ x.op = "header" /\ w.dir = "root" /\ ~x.shrink /\ HeldName(m, v)
             /\ \A k \in 1 .. FileChunks : \A z : Shown(nand, w, l, k, z) <=> Shown(m, v, q, k, z)
    <3>1. f \in M /\ P.op = "create"
      BY <1>8, <1>10, <2>3
    <3>2. \A k \in 1 .. FileChunks : \A z : <<f, k, z>> \in D <=> <<f, k, z>> \in E
      BY <1>8, <2>3
    <3>3. QED
      BY <1>7, <1>10, <3>1, <3>2, StoreCreates
  <2>4. CASE x.op = "header" /\ w.dir # "root" /\ ~HeldName(m, v)
    <3>1. f \notin M /\ P.op = "remove"
      BY <1>8, <1>10, <2>4
    <3>2. \A k \in 1 .. FileChunks : \A z : <<f, k, z>> \notin E
      BY <1>8, <2>4 DEF Shown
    <3>3. QED
      BY <1>7, <1>10, <3>1, <3>2, StoreRemoves
  <2>5. QED
    BY <2>1, <2>2, <2>3, <2>4 DEF Outcome
<1>12. QED
  BY <1>2, <1>3, <1>11 DEF Stored

(* A call of the user: it begins here unless no user would notice it.      *)
LEMMA CallStored ==
  ASSUME GutsInv, ScanInv, StoreInv, GutsInv', ScanInv', None \notin Store!Calls,
         NEW t, UserCall(t), NEW o, obj' = o, NEW f \in Files,
         \A h \in Files \ {f} : o[h] = obj[h] /\ Left(t, h) = {},
         NEW q, q = Left(t, f), NEW w, w = obj[f], NEW v, v = o[f],
         CallsFile(nand, v, q, f), HeldName(nand, w) <=> HeldName(nand, v),
         \/ /\ \A y \in q : ~Due(nand, v, y)
            /\ \A k \in 1 .. FileChunks : \A z : Shown(nand, v, q, k, z) <=> Shown(nand, w, {}, k, z)
         \/ \E x \in q :
              /\ Due(nand, v, x)
              /\ \A k \in 1 .. FileChunks : \A z :
                   Shown(nand, v, q, k, z) <=>
                     Shown(nand, w, {}, k, z) /\ (CallOn(v, x).op = "cut" => k <= CallOn(v, x).keep)
  PROVE  Stored
<1>1. /\ mounted /\ mounted' /\ todo = <<>> /\ todo' = t /\ nand' = nand
  BY DEF UserCall, Idle, Quiet
<1>2. \A h : Left(todo, h) = {}
  BY <1>1 DEF Left
<1>3. /\ ValuesOk(nand) /\ \A h \in Files : CallsFile(nand, obj[h], Left(todo, h), h)
  BY <1>1, StoreFacts
<1>4. \A h \in Files \ {f} : SameFile(nand, obj[h], Left(todo, h), nand, o[h], Left(t, h))
  <2>1. ASSUME NEW h \in Files \ {f} PROVE SameFile(nand, obj[h], Left(todo, h), nand, o[h], Left(t, h))
    <3>1. StepFile(nand, obj[h], Left(todo, h), nand, obj[h], Left(todo, h), h)
      BY <1>3, IdleStep
    <3>2. o[h] = obj[h] /\ Left(t, h) = Left(todo, h)
      BY <1>2
    <3>3. QED
      BY <3>1, <3>2 DEF StepFile
  <2>2. QED
    BY <2>1
<1>5. CallsOk(nand, t, o)
  <2>1. ASSUME NEW h \in Files, h # f PROVE CallsFile(nand, o[h], Left(t, h), h) /\ ~Acts(Left(t, h), o[h])
    <3>1. CallsFile(nand, obj[h], Left(todo, h), h) /\ o[h] = obj[h] /\ Left(t, h) = {} /\ Left(todo, h) = {}
      BY <1>2, <1>3, <2>1
    <3>2. QED
      BY <3>1 DEF Acts
  <2>2. \A h \in Files : CallsFile(nand, o[h], Left(t, h), h)
    BY <2>1
  <2>3. \A g, h \in Files : Acts(Left(t, g), o[g]) /\ Acts(Left(t, h), o[h]) => g = h
    BY <2>1
  <2>4. QED
    BY <2>2, <2>3 DEF CallsOk
<1>6. StoreInv'
  BY <1>1, <1>3, <1>5 DEF StoreInv
<1>7. PICK N, D, P, M, E, Q : /\ N = Names /\ D = Contents /\ P = Pending
                              /\ M = Names' /\ E = Contents' /\ Q = Pending'
  OBVIOUS
<1>8. ViewOf(nand, obj, todo, N, D, P) /\ ViewOf(nand, o, t, M, E, Q)
  BY <1>1, <1>6, <1>7, Views
<1>9. /\ f \in N <=> HeldName(nand, w)
      /\ f \in M <=> HeldName(nand, v)
      /\ \A k \in 1 .. FileChunks : \A z : <<f, k, z>> \in D <=> Shown(nand, w, {}, k, z)
      /\ \A k \in 1 .. FileChunks : \A z : <<f, k, z>> \in E <=> Shown(nand, v, q, k, z)
  BY <1>2, <1>8 DEF ViewOf
<1>10. StoreStep(N, D, P, M, E, Q)
  <2>1. CASE /\ \A y \in q : ~Due(nand, v, y)
             /\ \A k \in 1 .. FileChunks : \A z : Shown(nand, v, q, k, z) <=> Shown(nand, w, {}, k, z)
    <3>1. SameFile(nand, w, {}, nand, v, q)
      BY <2>1 DEF SameFile
    <3>2. \A h \in Files : SameFile(nand, obj[h], Left(todo, h), nand, o[h], Left(t, h))
      BY <1>2, <1>4, <3>1
    <3>3. M = N /\ E = D /\ Q = P
      BY ONLY <1>8, <3>2, SameStep
    <3>4. QED
      BY <3>3 DEF StoreStep
  <2>2. ASSUME NEW x \in q, Due(nand, v, x),
               \A k \in 1 .. FileChunks : \A z :
                   Shown(nand, v, q, k, z) <=>
                     Shown(nand, w, {}, k, z) /\ (CallOn(v, x).op = "cut" => k <= CallOn(v, x).keep)
        PROVE  StoreStep(N, D, P, M, E, Q)
    <3>1. P = None /\ Q = CallOn(v, x) /\ OnlyFile(N, D, M, E, f)
      BY <1>2, <1>4, <1>8, <2>2, Began DEF OnlyFile
    <3>2. /\ x.file = f /\ v \in Objects
          /\ x.op = "put" => x.chunk \in 1 .. FileChunks /\ x.val \in Values
      <4>1. TodoOk(t, o, gcBlock') /\ o \in [Files -> Objects]
        BY <1>1 DEF GutsInv, MemoryOk
      <4>2. PICK i \in DOMAIN t : x = t[i] /\ t[i].op # "gc" /\ t[i].file = f
        BY DEF Left
      <4>3. On(t, i)
        BY <4>2 DEF On
      <4>4. QED
        BY <4>1, <4>2, <4>3 DEF TodoOk
    <3>3. /\ Q \in Store!Calls /\ Q.file = f
          /\ x.op # "put" /\ v.dir = "root" /\ ~x.shrink => Q.op = "create"
      BY <3>1, <3>2, CallTyped
    <3>4. Q.op # "create" => f \in N
      <4>1. ~HeldName(nand, v) => x.op # "put" /\ v.dir = "root" /\ ~x.shrink
        BY <2>2 DEF Due
      <4>2. QED
        BY <1>9, <3>3, <4>1
    <3>5. f \in N <=> f \in M
      BY <1>9
    <3>6. \A k \in 1 .. FileChunks : \A z :
            <<f, k, z>> \in E <=> <<f, k, z>> \in D /\ (Q.op = "cut" => k <= Q.keep)
      BY <1>9, <2>2, <3>1
    <3>7. QED
      BY <3>1, <3>3, <3>4, <3>5, <3>6, StoreBegins
  <2>3. QED
    BY <2>1, <2>2
<1>11. QED
  BY <1>6, <1>7, <1>10 DEF Stored

(* The calls of the user.                                                  *)
LEMMA IdleHeld ==
  ASSUME GutsInv, ScanInv, mounted, todo = <<>>, NEW f \in Files, NEW w, w = obj[f]
  PROVE  /\ w.here => w.hdr # None /\ (HeldName(nand, w) <=> w.dir = "root")
         /\ ~w.here => w.hdr = None
         /\ w \in Objects
<1>1. PICK q, C, s : q = Left(todo, f) /\ C = LogOf(nand, bad) /\ s = nseq
  OBVIOUS
<1>2. HeaderOk(nand, C, s, w, q, f) /\ CallOk(w, q) /\ OwnIn(nand, C, Bits(dev), w, f) /\ w \in Objects
  BY <1>1, FileFacts
<1>3. q = {}
  BY <1>1 DEF Left
<1>4. ~w.here => w.hdr = None
  BY <1>2, OwnInParts
<1>5. w.here => w.hdr # None
  BY <1>2, <1>3 DEF CallOk
<1>6. w.hdr # None => At(nand, w.hdr).dir = w.dir
  BY <1>2, <1>3 DEF HeaderOk, HeaderPending
<1>7. QED
  BY <1>2, <1>4, <1>5, <1>6 DEF HeldName

(* The call of a single step.                                              *)
LEMMA SingleStored ==
  ASSUME GutsInv, ScanInv, StoreInv, GutsInv', ScanInv', None \notin Store!Calls,
         NEW t, UserCall(t), NEW o, obj' = o, NEW f \in Files,
         \A h \in Files \ {f} : o[h] = obj[h],
         NEW x, Left(t, f) = {x}, \A h : h # f => Left(t, h) = {}, ~x.shrink,
         NEW w, w = obj[f], NEW v, v = o[f],
         v.hdr = w.hdr, v.tnode = w.tnode, v.dir # "deleted"
  PROVE  Stored
<1>1. PICK q : q = {x}
  OBVIOUS
<1>2. CallsFile(nand, v, q, f)
  BY <1>1 DEF CallsFile
<1>3. HeldName(nand, w) <=> HeldName(nand, v)
  BY DEF HeldName
<1>4. ~CutPending(q) /\ ~CutPending({})
  BY <1>1 DEF CutPending
<1>5. \A k, z : Shown(nand, v, q, k, z) <=> Shown(nand, w, {}, k, z)
  BY <1>3, <1>4 DEF Shown
<1>6. CallOn(v, x).op # "cut"
  <2>1. CASE x.op = "put"
    BY <2>1 DEF CallOn
  <2>2. CASE x.op # "put" /\ v.dir # "root"
    BY <2>2 DEF CallOn
  <2>3. CASE x.op # "put" /\ v.dir = "root"
    BY <2>3 DEF CallOn
  <2>4. QED
    BY <2>1, <2>2, <2>3
<1>7. QED
  BY <1>1, <1>2, <1>3, <1>5, <1>6, CallStored

LEMMA CreateStore ==
  ASSUME GutsInv, ScanInv, StoreInv, GutsInv', ScanInv', None \notin Store!Calls,
         NEW f \in Files, Create(f)
  PROVE  Stored
<1>1. mounted /\ todo = <<>> /\ ~obj[f].here
  BY DEF Create, UserCall, Idle, Quiet
<1>2. PICK t, x : x = UpdateObjectHeader(f, FALSE) /\ t = AfterGc(x)
  OBVIOUS
<1>3. x \in Ops /\ x.op = "header" /\ x.file = f /\ ~x.shrink
  BY <1>2, OpType, HeaderOps
<1>4. Left(t, f) = {x} /\ \A h : h # f => Left(t, h) = {}
  BY <1>2, <1>3, LeftAfterGc
<1>5. PICK v, w : v = [NoObject EXCEPT !.here = TRUE] /\ w = obj[f]
  OBVIOUS
<1>6. PICK o : o = [obj EXCEPT ![f] = v]
  OBVIOUS
<1>7. UserCall(t) /\ obj' = o
  BY <1>2, <1>5, <1>6 DEF Create, AfterGc
<1>8. o[f] = v /\ \A h \in Files \ {f} : o[h] = obj[h]
  BY <1>1, <1>6, ScanFacts
<1>9. w.hdr = None
  BY <1>1, <1>5, IdleHeld
<1>10. v.hdr = None /\ v.dir = "root"
  BY <1>5 DEF NoObject
<1>11. ~HeldName(nand, w) /\ ~HeldName(nand, v)
  BY <1>9, <1>10 DEF HeldName
<1>12. PICK q : q = {x}
  OBVIOUS
<1>13. CallsFile(nand, v, q, f)
  BY <1>3, <1>11, <1>12 DEF CallsFile
<1>14. Due(nand, v, x)
  BY <1>3, <1>10, <1>11 DEF Due
<1>15. \A k, z : ~Shown(nand, v, q, k, z) /\ ~Shown(nand, w, {}, k, z)
  BY <1>11 DEF Shown
<1>16. \A h \in Files \ {f} : o[h] = obj[h] /\ Left(t, h) = {}
  BY <1>4, <1>8
<1>17. QED
  BY <1>4, <1>5, <1>7, <1>8, <1>11, <1>12, <1>13, <1>14, <1>15, <1>16, CallStored

LEMMA FlushFileStore ==
  ASSUME GutsInv, ScanInv, StoreInv, GutsInv', ScanInv', None \notin Store!Calls,
         NEW f \in Files, FlushFile(f)
  PROVE  Stored
<1>1. Open(f) /\ obj' = obj
  BY DEF FlushFile
<1>2. PICK t, x : x = UpdateObjectHeader(f, FALSE) /\ t = AfterGc(x)
  OBVIOUS
<1>3. x \in Ops /\ x.op = "header" /\ x.file = f /\ ~x.shrink
  BY <1>2, OpType, HeaderOps
<1>4. Left(t, f) = {x} /\ \A h : h # f => Left(t, h) = {}
  BY <1>2, <1>3, LeftAfterGc
<1>5. UserCall(t)
  BY <1>2 DEF FlushFile, AfterGc
<1>6. PICK o : o = obj
  OBVIOUS
<1>7. o[f].dir # "deleted"
  BY <1>1, <1>6 DEF Open
<1>8. QED
  BY <1>1, <1>3, <1>4, <1>5, <1>6, <1>7, SingleStored

LEMMA WriteFileStore ==
  ASSUME GutsInv, ScanInv, StoreInv, GutsInv', ScanInv', None \notin Store!Calls,
         NEW f \in Files, NEW k \in 1 .. FileChunks, NEW z \in Values, WriteFile(f, k, z)
  PROVE  Stored
<1>1. Open(f) /\ obj' = obj
  BY DEF WriteFile
<1>2. PICK t, x : x = PutOp(f, k, z) /\ t = AfterGc(x)
  OBVIOUS
<1>3. x \in Ops /\ x.op = "put" /\ x.file = f /\ ~x.shrink
  <2>1. x \in Ops /\ x.op = "put" /\ x.file = f
    BY <1>2, PutType
  <2>2. ~x.shrink
    BY <1>2 DEF PutOp, Op
  <2>3. QED
    BY <2>1, <2>2
<1>4. Left(t, f) = {x} /\ \A h : h # f => Left(t, h) = {}
  BY <1>2, <1>3, LeftAfterGc
<1>5. UserCall(t)
  BY <1>2 DEF WriteFile, AfterGc, PutOp
<1>6. PICK o : o = obj
  OBVIOUS
<1>7. o[f].dir # "deleted"
  BY <1>1, <1>6 DEF Open
<1>8. QED
  BY <1>1, <1>3, <1>4, <1>5, <1>6, <1>7, SingleStored

LEMMA DeleteInodeStore ==
  ASSUME GutsInv, ScanInv, StoreInv, GutsInv', ScanInv', None \notin Store!Calls,
         NEW f \in Files, DeleteInode(f)
  PROVE  Stored
<1>1. Open(f) /\ obj' = obj
  BY DEF DeleteInode
<1>2. PICK t, x : x = Op("destroy", f) /\ t = <<x>>
  OBVIOUS
<1>3. x \in Ops /\ x.op = "destroy" /\ x.file = f /\ ~x.shrink
  <2>1. x \in Ops /\ x.op = "destroy" /\ x.file = f
    BY <1>2, OpType DEF Steps
  <2>2. ~x.shrink
    BY <1>2 DEF Op
  <2>3. QED
    BY <2>1, <2>2
<1>4. Left(t, f) = {x} /\ \A h : h # f => Left(t, h) = {}
  <2>1. \A h : Left(<<x>>, h) = IF x.op # "gc" /\ x.file = h THEN {x} ELSE {}
    BY <1>3, LeftOne
  <2>2. QED
    BY <1>2, <1>3, <2>1
<1>5. UserCall(t)
  BY <1>2 DEF DeleteInode
<1>6. PICK o : o = obj
  OBVIOUS
<1>7. o[f].dir # "deleted"
  BY <1>1, <1>6 DEF Open
<1>8. QED
  BY <1>1, <1>3, <1>4, <1>5, <1>6, <1>7, SingleStored

LEMMA UnlinkStore ==
  ASSUME GutsInv, ScanInv, StoreInv, GutsInv', ScanInv', None \notin Store!Calls,
         NEW f \in Files, Unlink(f)
  PROVE  Stored
<1>1. mounted /\ Open(f)
  BY DEF Unlink, UserCall, Idle, Quiet
<1>2. PICK t, x : x = UpdateObjectHeader(f, FALSE) /\ t = AfterGc(x)
  OBVIOUS
<1>3. x \in Ops /\ x.op = "header" /\ x.file = f /\ ~x.shrink
  BY <1>2, OpType, HeaderOps
<1>4. Left(t, f) = {x} /\ \A h : h # f => Left(t, h) = {}
  BY <1>2, <1>3, LeftAfterGc
<1>5. obj \in [Files -> Objects]
  BY <1>1, ScanFacts
<1>6. PICK v : v = [obj[f] EXCEPT !.dir = "unlinked", !.dirty = TRUE]
  OBVIOUS
<1>7. PICK o : o = [obj EXCEPT ![f] = v]
  OBVIOUS
<1>8. UserCall(t) /\ obj' = o
  BY <1>2, <1>5, <1>6, <1>7 DEF Unlink, AfterGc
<1>9. v.hdr = obj[f].hdr /\ v.tnode = obj[f].tnode /\ v.dir = "unlinked"
  BY <1>5, <1>6 DEF Objects
<1>10. o[f] = v /\ \A h \in Files \ {f} : o[h] = obj[h]
  BY <1>5, <1>7
<1>11. QED
  BY <1>3, <1>4, <1>8, <1>9, <1>10, SingleStored

LEMMA ResizeFileStore ==
  ASSUME GutsInv, ScanInv, StoreInv, GutsInv', ScanInv', None \notin Store!Calls,
         NEW f \in Files, NEW n \in 0 .. FileChunks, ResizeFile(f, n)
  PROVE  Stored
<1>1. mounted /\ todo = <<>> /\ Open(f) /\ obj[f].here /\ obj[f].dir \in {"root", "unlinked"}
  BY DEF ResizeFile, UserCall, Idle, Quiet, Open
<1>2. PICK w : w = obj[f]
  OBVIOUS
<1>3. w \in Objects /\ w.hdr # None /\ (HeldName(nand, w) <=> w.dir = "root")
  BY <1>1, <1>2, IdleHeld
<1>4. n \in Nat /\ \A k \in 1 .. FileChunks : k \in Nat
  BY Geometry
<1>5. PICK t \in Seq(Ops), x \in Ops : \E o, v, P : Resized(f, n, t, x, o, v, P)
  BY ResizeSteps
<1>6. PICK o, v, P : Resized(f, n, t, x, o, v, P)
  BY <1>5
<1>7. UserCall(t) /\ obj' = o /\ o[f] = v /\ \A h \in Files \ {f} : o[h] = obj[h] /\ Left(t, h) = {}
  BY <1>6 DEF Resized
<1>8. v.hdr = w.hdr /\ v.tnode = w.tnode /\ v.dir = w.dir /\ v.size = n
  BY <1>2, <1>3, <1>6 DEF Objects, Resized
<1>9. PICK q : q = Left(t, f)
  OBVIOUS
<1>10. x.op = "header" /\ (x.shrink <=> n < w.size) /\ q = P \cup (IF w.dir = "root" THEN {x} ELSE {})
       /\ \A z \in P : z.op = "prune"
  BY <1>2, <1>6, <1>9 DEF Resized
<1>11. x.shrink => x = UpdateObjectHeader(f, TRUE)
  <2>1. x.shrink => (n < w.size) = TRUE
    BY <1>10
  <2>2. x = UpdateObjectHeader(f, n < w.size)
    BY <1>2, <1>6 DEF Resized
  <2>3. QED
    BY <2>1, <2>2
<1>12. CallsFile(nand, v, q, f)
  BY <1>1, <1>2, <1>3, <1>8, <1>10, <1>11 DEF CallsFile
<1>13. HeldName(nand, w) <=> HeldName(nand, v)
  BY <1>8 DEF HeldName
<1>14. CutPending(q) <=> w.dir = "root" /\ x.shrink
  BY <1>10 DEF CutPending
<1>15. ~CutPending({})
  BY DEF CutPending
<1>16. CASE w.dir = "root" /\ x.shrink
  <2>1. x \in q /\ Due(nand, v, x)
    BY <1>3, <1>8, <1>10, <1>13, <1>16 DEF Due
  <2>2. PICK c : c = CallOn(v, x)
    OBVIOUS
  <2>3. c.op = "cut" /\ c.keep = n
    BY <1>8, <1>10, <1>16, <2>2 DEF CallOn
  <2>4. ASSUME NEW k \in 1 .. FileChunks, NEW z
        PROVE  Shown(nand, v, q, k, z) <=> Shown(nand, w, {}, k, z) /\ (c.op = "cut" => k <= c.keep)
    <3>1. k <= n <=> ~(k > n)
      BY <1>4
    <3>2. QED
      BY <1>8, <1>13, <1>14, <1>15, <1>16, <2>3, <3>1, Zenon DEF Shown
  <2>5. QED
    BY <1>2, <1>7, <1>9, <1>12, <1>13, <2>1, <2>2, <2>4, CallStored
<1>17. CASE ~(w.dir = "root" /\ x.shrink)
  <2>1. \A y \in q : ~Due(nand, v, y)
    BY <1>3, <1>8, <1>10, <1>13, <1>17 DEF Due
  <2>2. \A k \in 1 .. FileChunks : \A z : Shown(nand, v, q, k, z) <=> Shown(nand, w, {}, k, z)
    BY <1>8, <1>13, <1>14, <1>15, <1>17, Zenon DEF Shown
  <2>3. QED
    BY <1>2, <1>7, <1>9, <1>12, <1>13, <2>1, <2>2, CallStored
<1>18. QED
  BY <1>16, <1>17

-----------------------------------------------------------------------------
(* The steps of a call that leave the flash alone.                         *)
LEMMA CallKinds ==
  ASSUME GutsInv, ScanInv, StoreInv, mounted, NEW f \in Files, NEW w, w = obj[f], NEW q, q = Left(todo, f)
  PROVE  /\ CallOk(w, q) /\ ObjectOk(w, q) /\ CallsFile(nand, w, q, f) /\ w \in Objects
         /\ ~HeaderPending(q) /\ w.dir # "root" => ~HeldName(nand, w)
         /\ w.hdr = None => ~HeldName(nand, w)
<1>1. PICK C, s : C = LogOf(nand, bad) /\ s = nseq
  OBVIOUS
<1>2. HeaderOk(nand, C, s, w, q, f) /\ CallOk(w, q) /\ ObjectOk(w, q) /\ w \in Objects
  BY <1>1, FileFacts
<1>3. CallsFile(nand, w, q, f)
  BY StoreFacts
<1>4. ~HeaderPending(q) /\ w.dir # "root" => ~HeldName(nand, w)
  BY <1>2 DEF HeaderOk, HeldName
<1>5. QED
  BY <1>2, <1>3, <1>4 DEF HeldName

LEMMA SkipUnerasedStore ==
  ASSUME GutsInv, ScanInv, StoreInv, GutsInv', ScanInv', SkipUnerased
  PROVE  Stored
<1>1. /\ mounted /\ mounted' /\ nand' = nand /\ obj' = obj /\ todo' = todo
  BY DEF SkipUnerased, NextIsWrite, Doing, Collecting, Quiet
<1>2. PICK p, r : p = obj /\ r = todo
  OBVIOUS
<1>3. obj' = p /\ todo' = r /\ \A h \in Files : p[h] = obj[h] /\ Left(r, h) = Left(todo, h)
  BY <1>1, <1>2
<1>4. QED
  BY <1>1, <1>3, KeptStep

LEMMA CheckGarbageCollectionStore ==
  ASSUME GutsInv, ScanInv, StoreInv, GutsInv', ScanInv', CheckGarbageCollection
  PROVE  Stored
<1>1. Doing("gc")
  BY Zenon DEF CheckGarbageCollection
<1>2. /\ mounted /\ todo # <<>> /\ Head(todo).op = "gc" /\ todo \in Seq(Ops) /\ Rest \in Seq(Ops)
  BY <1>1, DoingFacts
<1>3. mounted' /\ nand' = nand /\ obj' = obj
  BY <1>2, Zenon DEF CheckGarbageCollection
<1>4. PICK t, r : t = todo /\ r = Rest
  OBVIOUS
<1>5. r = Tail(t) /\ t \in Seq(Ops) /\ t # <<>> /\ Head(t).op = "gc" /\ r \in Seq(Ops)
  BY <1>2, <1>4 DEF Rest
<1>6. \A f : Left(r, f) = Left(t, f)
  <2>1. ASSUME NEW f PROVE Left(r, f) = Left(t, f)
    <3>1. Left(t, f) = Left(Tail(t), f) \cup (IF Head(t).op # "gc" /\ Head(t).file = f THEN {Head(t)} ELSE {})
      BY <1>5, LeftTail
    <3>2. QED
      BY <1>5, <3>1
  <2>2. QED
    BY <2>1
<1>7. PICK x \in Ops : x = Gc(2) /\ x.op = "gc"
  BY GcType
<1>8. PICK y : y = <<x>>
  OBVIOUS
<1>9. PICK z : z = y \o r
  OBVIOUS
<1>10. \A f : Left(z, f) = Left(t, f)
  <2>1. y \in Seq(Ops)
    BY <1>8
  <2>2. \A f : Left(z, f) = Left(y, f) \cup Left(r, f)
    BY <1>5, <1>9, <2>1, LeftConcat
  <2>3. \A f : Left(y, f) = {}
    BY <1>7, <1>8, LeftOne
  <2>4. QED
    BY <1>6, <2>2, <2>3
<1>11. todo' = r \/ todo' = z
  BY <1>4, <1>7, <1>8, <1>9, Zenon DEF CheckGarbageCollection
<1>12. PICK v, o : v = todo' /\ (v = r \/ v = z) /\ o = obj
  BY <1>11
<1>13. \A h \in Files : o[h] = obj[h] /\ Left(v, h) = Left(todo, h)
  BY <1>4, <1>6, <1>10, <1>12
<1>14. obj' = o /\ todo' = v
  BY <1>3, <1>12
<1>15. QED
  BY <1>2, <1>3, <1>13, <1>14, KeptStep

LEMMA GcDropStore ==
  ASSUME GutsInv, ScanInv, StoreInv, GutsInv', ScanInv', GcDrop
  PROVE  Stored
<1>1. Collecting
  BY DEF GcDrop
<1>2. mounted
  BY <1>1, CollectingFacts
<1>3. mounted' /\ nand' = nand /\ todo' = todo
  BY <1>2 DEF GcDrop
<1>4. obj \in [Files -> Objects] /\ obj' \in [Files -> Objects]
  BY <1>2, <1>3 DEF GutsInv, MemoryOk
<1>5. PICK o, r : o = obj' /\ r = todo
  OBVIOUS
<1>6. \A h \in Files : /\ o[h].dir = obj[h].dir /\ o[h].size = obj[h].size /\ o[h].hdr = obj[h].hdr
                       /\ o[h].tnode = obj[h].tnode
  <2>1. CASE ~OldOwned
    BY <1>5, <2>1 DEF GcDrop
  <2>2. CASE OldOwned
    <3>1. PICK f : f = Tag(OldChunk).file
      OBVIOUS
    <3>2. o = [obj EXCEPT ![f].nData = @ - 1]
      BY <1>5, <2>2, <3>1 DEF GcDrop
    <3>3. ASSUME NEW h \in Files PROVE o[h] = obj[h] \/ o[h] = [obj[h] EXCEPT !.nData = @ - 1]
      BY <1>4, <3>2
    <3>4. ASSUME NEW h \in Files
          PROVE  /\ o[h].dir = obj[h].dir /\ o[h].size = obj[h].size /\ o[h].hdr = obj[h].hdr
                 /\ o[h].tnode = obj[h].tnode
      <4>1. obj[h] \in Objects
        BY <1>4
      <4>2. QED
        BY <3>3, <4>1 DEF Objects
    <3>5. QED
      BY <3>4
  <2>3. QED
    BY <2>1, <2>2
<1>7. ASSUME NEW h \in Files PROVE StepFile(nand, obj[h], Left(todo, h), nand, o[h], Left(r, h), h)
  <2>1. Matches(nand, obj[h], nand, o[h])
    BY <1>6 DEF Matches
  <2>2. CallsFile(nand, obj[h], Left(todo, h), h) /\ Left(r, h) = Left(todo, h)
    BY <1>2, <1>5, StoreFacts
  <2>3. QED
    BY <2>1, <2>2, MatchesStep
<1>8. obj' = o /\ todo' = r
  BY <1>3, <1>5
<1>9. QED
  BY <1>2, <1>3, <1>7, <1>8, KeptStep

LEMMA RemoveObjectStore ==
  ASSUME GutsInv, ScanInv, StoreInv, GutsInv', ScanInv', RemoveObject
  PROVE  Stored
<1>1. Doing("remove")
  BY DEF RemoveObject
<1>2. /\ mounted /\ todo # <<>> /\ Head(todo).op = "remove" /\ todo \in Seq(Ops) /\ TodoOk(todo, obj, None)
      /\ obj \in [Files -> Objects]
  BY <1>1, DoingFacts
<1>3. PICK y, f, w, t : y = Head(todo) /\ f = y.file /\ w = obj[f] /\ t = Tail(todo)
  OBVIOUS
<1>4. f \in Files /\ y.op = "remove"
  BY <1>2, <1>3, HeadOk
<1>5. PICK v, o : v = NoObject /\ o = [obj EXCEPT ![f] = v]
  OBVIOUS
<1>6. mounted' /\ nand' = nand /\ obj' = o /\ todo' = t
  BY <1>2, <1>3, <1>5 DEF RemoveObject, Rest
<1>7. o[f] = v /\ \A h \in Files \ {f} : o[h] = obj[h]
  BY <1>2, <1>4, <1>5
<1>8. PICK q, p : q = Left(todo, f) /\ p = Left(t, f)
  OBVIOUS
<1>9. q = {y} /\ p = {} /\ \A h : h # f => Left(todo, h) = Left(t, h)
  <2>1. /\ Left(todo, f) = Left(t, f) \cup {y} /\ \A h : h # f => Left(todo, h) = Left(t, h)
        /\ Left(t, f) = {}
    BY <1>2, <1>3, LeftRest
  <2>2. QED
    BY <1>8, <2>1
<1>10. CallOk(w, q) /\ CallsFile(nand, w, q, f)
  BY <1>2, <1>3, <1>4, <1>8, CallKinds
<1>11. w.dir = "deleted" /\ ~HeldName(nand, w)
  BY <1>4, <1>9, <1>10 DEF CallOk, CallsFile
<1>12. ~HeldName(nand, v)
  BY <1>5 DEF NoObject, HeldName
<1>13. StepFile(nand, w, q, nand, v, p, f)
  <2>1. \A x \in q : x.op = "header" => x.shrink \/ w.dir # "root"
    BY <1>11
  <2>2. ~Acts(p, v) /\ \A x : x \notin p
    BY <1>9 DEF Acts
  <2>3. QED
    BY <1>11, <1>12, <2>1, <2>2, HiddenStep
<1>14. \A h \in Files :
         \/ o[h] = obj[h] /\ Left(t, h) = Left(todo, h)
         \/ StepFile(nand, obj[h], Left(todo, h), nand, o[h], Left(t, h), h)
  BY <1>3, <1>7, <1>8, <1>9, <1>13
<1>15. QED
  BY <1>2, <1>6, <1>14, KeptStep

(* The file that yaffs_DoGenericObjectDeletion is to remove.               *)
LEMMA BuriedStep ==
  ASSUME NEW f \in Files, NEW n, NEW w, w \in Objects, NEW q, NEW v, v = [w EXCEPT !.dir = "deleted"],
         NEW p, ~HeldName(n, w), \A x \in q : x.op # "header",
         \A x \in p : x.op = "header" => x = UpdateObjectHeader(f, TRUE)
  PROVE  StepFile(n, w, q, n, v, p, f)
<1>1. v.dir = "deleted" /\ v.hdr = w.hdr
  BY DEF Objects
<1>2. ~HeldName(n, v)
  BY <1>1 DEF HeldName
<1>3. \A x \in p : x.op = "header" => x.shrink \/ v.dir # "root"
  BY <1>1
<1>4. ~Acts(p, v)
  BY <1>1 DEF Acts
<1>5. QED
  BY <1>1, <1>2, <1>3, <1>4, HiddenStep

LEMMA DeleteFileStore ==
  ASSUME GutsInv, ScanInv, StoreInv, GutsInv', ScanInv', DeleteFile
  PROVE  Stored
<1>1. Doing("destroy")
  BY DEF DeleteFile
<1>2. /\ mounted /\ todo # <<>> /\ Head(todo).op = "destroy" /\ todo \in Seq(Ops) /\ TodoOk(todo, obj, None)
      /\ obj \in [Files -> Objects]
  BY <1>1, DoingFacts
<1>3. PICK y, f, w, t : y = Head(todo) /\ f = y.file /\ w = obj[f] /\ t = Tail(todo)
  OBVIOUS
<1>4. f \in Files /\ y.op = "destroy" /\ t \in Seq(Ops)
  BY <1>2, <1>3, HeadOk
<1>5. PICK q : q = Left(todo, f)
  OBVIOUS
<1>6. q = {y} /\ Left(t, f) = {} /\ \A h : h # f => Left(todo, h) = Left(t, h)
  <2>1. /\ Left(todo, f) = Left(t, f) \cup {y} /\ \A h : h # f => Left(todo, h) = Left(t, h)
        /\ Left(t, f) = {}
    BY <1>2, <1>3, LeftRest
  <2>2. QED
    BY <1>5, <2>1
<1>7. /\ CallOk(w, q) /\ w \in Objects
      /\ ~HeaderPending(q) /\ w.dir # "root" => ~HeldName(nand, w)
      /\ w.hdr = None => ~HeldName(nand, w)
  BY <1>2, <1>3, <1>4, <1>5, CallKinds
<1>8. \A x \in q : x.op # "header"
  BY <1>4, <1>6
<1>9. ~HeldName(nand, w)
  BY <1>4, <1>6, <1>7, <1>8 DEF CallOk, HeaderPending
<1>10. mounted' /\ nand' = nand
  BY <1>2 DEF DeleteFile
<1>11. CASE w.nData > 0
  <2>1. PICK v, o : /\ v = [w EXCEPT !.deleted = TRUE, !.tnode = NoObject.tnode]
                    /\ o = [obj EXCEPT ![f] = v]
    OBVIOUS
  <2>2. obj' = o /\ todo' = t
    <3>1. obj' = [obj EXCEPT ![f].deleted = TRUE, ![f].tnode = NoObject.tnode]
      BY <1>3, <1>11 DEF DeleteFile
    <3>2. todo' = t
      BY <1>3, <1>11 DEF DeleteFile, Rest
    <3>3. QED
      BY <1>2, <1>3, <1>4, <2>1, <3>1, <3>2
  <2>3. o[f] = v /\ \A h \in Files \ {f} : o[h] = obj[h]
    BY <1>2, <1>4, <2>1
  <2>4. v.hdr = w.hdr
    BY <1>7, <2>1 DEF Objects
  <2>5. PICK p : p = Left(t, f)
    OBVIOUS
  <2>6. StepFile(nand, w, q, nand, v, p, f)
    <3>1. ~HeldName(nand, v)
      BY <1>9, <2>4 DEF HeldName
    <3>2. ~Acts(p, v) /\ \A x : x \notin p
      BY <1>6, <2>5 DEF Acts
    <3>3. QED
      BY <1>8, <1>9, <3>1, <3>2, HiddenStep
  <2>7. \A h \in Files :
           \/ o[h] = obj[h] /\ Left(t, h) = Left(todo, h)
           \/ StepFile(nand, obj[h], Left(todo, h), nand, o[h], Left(t, h), h)
    BY <1>3, <1>5, <1>6, <2>3, <2>5, <2>6
  <2>8. QED
    BY <1>2, <1>10, <2>2, <2>7, KeptStep
<1>12. CASE ~(w.nData > 0)
  <2>1. PICK v : v = [w EXCEPT !.dir = "deleted"]
    OBVIOUS
  <2>2. PICK o, r : o = [obj EXCEPT ![f] = v] /\ r = DoGenericObjectDeletion(f, <<Gc(1)>>)
    OBVIOUS
  <2>3. PICK z : z = r \o t
    OBVIOUS
  <2>4. obj' = o /\ todo' = z
    <3>1. obj' = [obj EXCEPT ![f].dir = "deleted"]
      BY <1>3, <1>12 DEF DeleteFile
    <3>2. obj' = o
      BY <1>2, <1>3, <1>4, <2>1, <2>2, <3>1
    <3>3. todo' = z
      BY <1>3, <1>12, <2>2, <2>3 DEF DeleteFile, Rest
    <3>4. QED
      BY <3>2, <3>3
  <2>5. o[f] = v /\ \A h \in Files \ {f} : o[h] = obj[h]
    BY <1>2, <1>4, <2>2
  <2>6. PICK p : p = Left(r, f)
    OBVIOUS
  <2>7. /\ r \in Seq(Ops) /\ \A h : h # f => Left(r, h) = {}
        /\ \A x \in p : x.op = "header" => x = UpdateObjectHeader(f, TRUE)
    BY <1>4, <2>2, <2>6, RemovalHeader
  <2>8. \A h : Left(z, h) = Left(r, h) \cup Left(t, h)
    BY <1>4, <2>3, <2>7, LeftConcat
  <2>9. Left(z, f) = p /\ \A h : h # f => Left(z, h) = Left(todo, h)
    BY <1>6, <2>6, <2>7, <2>8
  <2>10. StepFile(nand, w, q, nand, v, p, f)
    BY <1>4, <1>7, <1>8, <1>9, <2>1, <2>7, BuriedStep
  <2>11. \A h \in Files :
           \/ o[h] = obj[h] /\ Left(z, h) = Left(todo, h)
           \/ StepFile(nand, obj[h], Left(todo, h), nand, o[h], Left(z, h), h)
    BY <1>3, <1>5, <2>5, <2>9, <2>10
  <2>12. QED
    BY <1>2, <1>10, <2>4, <2>11, KeptStep
<1>13. QED
  BY <1>11, <1>12

LEMMA GcCleanupStore ==
  ASSUME GutsInv, ScanInv, StoreInv, GutsInv', ScanInv', GcCleanup
  PROVE  Stored
<1>1. mounted /\ gcBlock # None
  BY Zenon DEF GcCleanup, Quiet
<1>2. /\ obj \in [Files -> Objects] /\ todo \in Seq(Ops) /\ TodoOk(todo, obj, gcBlock)
  BY <1>1, ScanFacts
<1>3. mounted' /\ nand' = nand
  BY <1>1, Zenon DEF GcCleanup
<1>4. PICK S : S = {f \in Files : obj[f].here /\ obj[f].deleted /\ obj[f].nData = 0}
  OBVIOUS
<1>5. PICK o : o = [f \in Files |-> IF f \in S THEN [obj[f] EXCEPT !.dir = "deleted"] ELSE obj[f]]
  OBVIOUS
<1>6. obj' = o
  BY <1>4, <1>5, Zenon DEF GcCleanup
<1>7. PICK D, it : /\ \A f \in S : D[f] = DoGenericObjectDeletion(f, <<>>)
                   /\ Strung(D, todo, S, it) /\ todo' = it[S]
  BY <1>2, <1>4, CleanupStrung
<1>8. PICK z, t : z = it[S] /\ t = todo
  OBVIOUS
<1>9. \A h : Left(z, h) = (IF h \in S THEN Left(D[h], h) ELSE {}) \cup Left(t, h)
  <2>1. S \in SUBSET Files
    BY <1>4
  <2>2. t \in Seq(Ops) /\ Strung(D, t, S, it) /\ \A f \in S : D[f] = DoGenericObjectDeletion(f, <<>>)
    BY <1>2, <1>7, <1>8
  <2>3. \A h : Left(it[S], h) = (IF h \in S THEN Left(D[h], h) ELSE {}) \cup Left(t, h)
    BY ONLY <2>1, <2>2, LeftStrung
  <2>4. QED
    BY <1>8, <2>3
<1>10. ASSUME NEW f \in S PROVE StepFile(nand, obj[f], Left(t, f), nand, o[f], Left(z, f), f)
  <2>1. PICK w, q, v, p : w = obj[f] /\ q = Left(t, f) /\ v = o[f] /\ p = Left(z, f)
    OBVIOUS
  <2>2. f \in Files /\ w.deleted /\ w \in Objects
    BY <1>2, <1>4, <2>1
  <2>3. q = {}
    <3>1. ASSUME NEW i \in DOMAIN t, t[i].op # "gc", t[i].file = f PROVE FALSE
      BY <1>1, <1>2, <1>8, <2>1, <2>2, <3>1, StepOk DEF On
    <3>2. QED
      BY <2>1, <3>1 DEF Left
  <2>4. w.dir # "root" /\ ~HeldName(nand, w)
    <3>1. /\ ObjectOk(w, q)
          /\ ~HeaderPending(q) /\ w.dir # "root" => ~HeldName(nand, w)
      BY <1>1, <1>8, <2>1, <2>2, CallKinds
    <3>2. QED
      BY <2>2, <2>3, <3>1 DEF ObjectOk, HeaderPending
  <2>5. v = [w EXCEPT !.dir = "deleted"]
    BY <1>5, <2>1, <2>2
  <2>6. p = Left(D[f], f)
    BY <1>9, <2>1, <2>3
  <2>7. \A x \in p : x.op = "header" => x = UpdateObjectHeader(f, TRUE)
    <3>1. D[f] = DoGenericObjectDeletion(f, <<>>)
      BY <1>7
    <3>2. QED
      BY <2>2, <2>6, <3>1, RemovalHeader
  <2>8. \A x \in q : x.op # "header"
    BY <2>3
  <2>9. StepFile(nand, w, q, nand, v, p, f)
    BY <2>2, <2>4, <2>5, <2>7, <2>8, BuriedStep
  <2>10. QED
    BY <2>1, <2>9
<1>11. \A h \in Files :
         \/ o[h] = obj[h] /\ Left(z, h) = Left(todo, h)
         \/ StepFile(nand, obj[h], Left(todo, h), nand, o[h], Left(z, h), h)
  <2>1. ASSUME NEW h \in Files, h \notin S PROVE o[h] = obj[h] /\ Left(z, h) = Left(t, h)
    BY <1>5, <1>9, <2>1
  <2>2. QED
    BY <1>8, <1>10, <2>1
<1>12. todo' = z
  BY <1>7, <1>8
<1>13. QED
  BY <1>1, <1>3, <1>6, <1>11, <1>12, KeptStep

(* A file that loses chunks that no user can see any more.                 *)
LEMMA ShrunkStep ==
  ASSUME NEW n, NEW w, NEW q, NEW v, NEW p, NEW f, CallsFile(n, w, q, f),
         v.dir = w.dir, v.size = w.size, v.hdr = w.hdr, \A x : Acting(x) => (x \in q <=> x \in p),
         \A k \in 1 .. FileChunks :
           \/ v.tnode[k] = w.tnode[k]
           \/ v.tnode[k] = None /\ (~HeldName(n, w) \/ (CutPending(q) /\ w.dir = "root" /\ k > w.size))
  PROVE  StepFile(n, w, q, n, v, p, f)
<1>1. HeldName(n, w) <=> HeldName(n, v)
  BY DEF HeldName
<1>2. CutPending(q) <=> CutPending(p)
  BY DEF Acting, CutPending
<1>3. ASSUME NEW k \in 1 .. FileChunks, NEW z PROVE Shown(n, w, q, k, z) <=> Shown(n, v, p, k, z)
  BY <1>1, <1>2, Zenon DEF Shown
<1>4. \A x : Due(n, w, x) <=> Due(n, v, x)
  BY <1>1, Zenon DEF Due
<1>5. \A x : CallOn(v, x) = CallOn(w, x)
  BY DEF CallOn
<1>6. \A x : Due(n, w, x) => Acting(x)
  BY DEF Due, Acting
<1>7. SameFile(n, w, q, n, v, p)
  BY <1>1, <1>3, <1>4, <1>5, <1>6 DEF SameFile
<1>8. \A x \in p : x.op = "header" => x \in q
  BY DEF Acting
<1>9. CallsFile(n, v, p, f)
  BY <1>1, <1>8 DEF CallsFile
<1>10. Acts(p, v) => Acts(q, w)
  BY DEF Acts
<1>11. QED
  BY <1>7, <1>9, <1>10 DEF StepFile

LEMMA PruneResizedChunkStore ==
  ASSUME GutsInv, ScanInv, StoreInv, GutsInv', ScanInv', PruneResizedChunk
  PROVE  Stored
<1>1. Doing("prune")
  BY DEF PruneResizedChunk
<1>2. /\ mounted /\ todo # <<>> /\ Head(todo).op = "prune" /\ todo \in Seq(Ops) /\ TodoOk(todo, obj, None)
      /\ obj \in [Files -> Objects]
  BY <1>1, DoingFacts
<1>3. PICK y, f, k : y = Head(todo) /\ f = y.file /\ k = y.chunk
  OBVIOUS
<1>4. f \in Files /\ k \in 1 .. FileChunks /\ y.op = "prune"
  BY <1>2, <1>3, HeadOk
<1>5. PICK w, t : w = obj[f] /\ t = Tail(todo)
  OBVIOUS
<1>6. PICK q, p : q = Left(todo, f) /\ p = Left(t, f)
  OBVIOUS
<1>7. q = p \cup {y} /\ \A h : h # f => Left(todo, h) = Left(t, h)
  BY <1>2, <1>3, <1>5, <1>6, LeftRest
<1>8. /\ CallOk(w, q) /\ w \in Objects /\ CallsFile(nand, w, q, f)
      /\ ~HeaderPending(q) /\ w.dir # "root" => ~HeldName(nand, w)
  BY <1>2, <1>4, <1>5, <1>6, CallKinds
<1>9. ~HeldName(nand, w) \/ (CutPending(q) /\ w.dir = "root" /\ k > w.size)
  <2>1. y \in q
    BY <1>7
  <2>2. IF w.dir = "root" THEN y.chunk > w.size /\ CutPending(q) ELSE ~HeaderPending(q)
    BY <1>4, <1>8, <2>1 DEF CallOk
  <2>3. QED
    BY <1>3, <1>8, <2>2
<1>10. mounted' /\ nand' = nand /\ todo' = t
  BY <1>2, <1>5 DEF PruneResizedChunk, Rest
<1>11. PICK v : v = IF w.tnode[k] = None THEN w ELSE [w EXCEPT !.tnode[k] = None, !.nData = @ - 1]
  OBVIOUS
<1>12. PICK o : o = IF w.tnode[k] = None THEN obj ELSE [obj EXCEPT ![f] = v]
  OBVIOUS
<1>13. obj' = o
  <2>1. obj' = IF obj[f].tnode[k] = None THEN obj
               ELSE [obj EXCEPT ![f].tnode[k] = None, ![f].nData = @ - 1]
    BY <1>3 DEF PruneResizedChunk
  <2>2. QED
    BY <1>2, <1>4, <1>5, <1>11, <1>12, <2>1
<1>14. o[f] = v /\ \A h \in Files \ {f} : o[h] = obj[h]
  BY <1>2, <1>4, <1>5, <1>11, <1>12
<1>15. /\ v.hdr = w.hdr /\ v.dir = w.dir /\ v.size = w.size
       /\ v.tnode[k] = None /\ \A j \in 1 .. FileChunks \ {k} : v.tnode[j] = w.tnode[j]
  <2>1. CASE w.tnode[k] = None
    BY <1>11, <2>1
  <2>2. CASE w.tnode[k] # None
    <3>1. v = [w EXCEPT !.tnode[k] = None, !.nData = @ - 1]
      BY <1>11, <2>2
    <3>2. /\ v.dir = w.dir /\ v.hdr = w.hdr /\ v.size = w.size /\ v.tnode = [w.tnode EXCEPT ![k] = None]
      BY <1>8, <3>1 DEF Objects
    <3>3. w.tnode \in [1 .. FileChunks -> Addr \cup {None}]
      BY <1>8, ObjectFields
    <3>4. QED
      BY <1>4, <3>2, <3>3
  <2>3. QED
    BY <2>1, <2>2
<1>16. \A x : Acting(x) => (x \in q <=> x \in p)
  BY <1>4, <1>7 DEF Acting
<1>17. StepFile(nand, w, q, nand, v, p, f)
  BY <1>8, <1>9, <1>15, <1>16, ShrunkStep
<1>18. \A h \in Files :
         \/ o[h] = obj[h] /\ Left(t, h) = Left(todo, h)
         \/ StepFile(nand, obj[h], Left(todo, h), nand, o[h], Left(t, h), h)
  BY <1>5, <1>6, <1>7, <1>14, <1>17
<1>19. QED
  BY <1>2, <1>10, <1>13, <1>18, KeptStep

-----------------------------------------------------------------------------
(* The steps that program a page.                                          *)
LEMMA ValuesGrown ==
  ASSUME nand \in Flash, ValuesOk(nand), NEW b \in Blocks, NEW page \in PagesOfLog \cup {Torn},
         page # Torn /\ page.chunk # 0 => page.val \in Values, NEW m, m = Programmed(nand, b, page)
  PROVE  ValuesOk(m)
<1>1. PICK s : s = nand[b]
  OBVIOUS
<1>2. PICK t : t = Append(s, page)
  OBVIOUS
<1>3. s \in Seq(PagesOfLog \cup {Torn})
  BY <1>1 DEF Flash
<1>4. m[b] = t /\ \A x \in Blocks \ {b} : m[x] = nand[x]
  BY <1>1, <1>2 DEF Programmed, Flash
<1>5. Len(t) = Len(s) + 1 /\ t[Len(s) + 1] = page /\ \A p \in 1 .. Len(s) : t[p] = s[p]
  BY <1>2, <1>3
<1>6. \A p \in 1 .. Len(s) : s[p] # Torn /\ s[p].chunk # 0 => s[p].val \in Values
  BY <1>1 DEF ValuesOk
<1>7. Len(s) \in Nat
  BY <1>3
<1>8. ASSUME NEW p \in 1 .. Len(t), t[p] # Torn, t[p].chunk # 0 PROVE t[p].val \in Values
  <2>1. CASE p = Len(s) + 1
    BY <1>5, <1>8, <2>1
  <2>2. CASE p # Len(s) + 1
    <3>1. p \in 1 .. Len(s)
      BY <1>5, <1>7, <2>2
    <3>2. QED
      BY <1>5, <1>6, <1>8, <3>1
  <2>3. QED
    BY <2>1, <2>2
<1>9. ASSUME NEW x \in Blocks, x # b, NEW p \in 1 .. Len(m[x]), m[x][p] # Torn, m[x][p].chunk # 0
      PROVE  m[x][p].val \in Values
  BY <1>4, <1>9 DEF ValuesOk
<1>10. QED
  BY <1>4, <1>8, <1>9 DEF ValuesOk

(* A file whose pages a step leaves where they are.                        *)
LEMMA PagesHeld ==
  ASSUME GutsInv, ScanInv, StoreInv, mounted, NEW m, NEW f \in Files,
         \A a \in LogOf(nand, bad) : At(nand, a).file = f /\ a \in Bits(dev) => At(m, a) = At(nand, a)
  PROVE  /\ Matches(nand, obj[f], m, obj[f])
         /\ StepFile(nand, obj[f], Left(todo, f), m, obj[f], Left(todo, f), f)
<1>1. PICK w, q : w = obj[f] /\ q = Left(todo, f)
  OBVIOUS
<1>2. OwnIn(nand, LogOf(nand, bad), Bits(dev), w, f)
  BY <1>1, ScanFacts
<1>3. \A k \in 0 .. FileChunks : OwnOf(w, k) # None => At(m, OwnOf(w, k)) = At(nand, OwnOf(w, k))
  BY <1>2 DEF OwnIn
<1>4. Matches(nand, w, m, w)
  BY <1>3, StillThere
<1>5. CallsFile(nand, w, q, f)
  BY <1>1, StoreFacts
<1>6. StepFile(nand, w, q, m, w, q, f)
  BY <1>4, <1>5, MatchesStep
<1>7. QED
  BY <1>1, <1>4, <1>6

LEMMA GcCopyStore ==
  ASSUME GutsInv, ScanInv, StoreInv, GutsInv', ScanInv', GcCopy, ReserveSuffices
  PROVE  Stored
<1>1. Collecting /\ OldOwned /\ ~OldSoftDeleted
  BY DEF GcCopy
<1>2. /\ mounted /\ gcBlock \in Blocks /\ dev.blk[gcBlock].state = "collecting"
      /\ OldChunk \in Addr /\ OldChunk[1] = gcBlock /\ OldChunk[2] \in dev.blk[gcBlock].bits
      /\ Tag(OldChunk) \in PagesOfLog /\ obj[Tag(OldChunk).file].here
  BY <1>1, CollectingFacts
<1>3. /\ nand \in Flash /\ obj \in [Files -> Objects]
      /\ MountedScan(nand, nseq, bad, dev, obj, todo)
  BY <1>2, ScanFacts
<1>4. PICK old, t, f, k : old = OldChunk /\ t = Tag(old) /\ f = t.file /\ k = t.chunk
  OBVIOUS
<1>5. t \in PagesOfLog /\ f \in Files /\ k \in 0 .. FileChunks
  BY <1>2, <1>4, CopiedType
<1>6. PICK w, q : w = obj[f] /\ q = Left(todo, f)
  OBVIOUS
<1>7. w.here /\ ~(w.deleted /\ k # 0)
  BY <1>1, <1>2, <1>4, <1>5, <1>6 DEF OldSoftDeleted
<1>8. PICK C : C = LogOf(nand, bad)
  OBVIOUS
<1>9. SideOk(nand, nseq, bad, dev)
  BY <1>3 DEF MountedScan
<1>10. old \in C /\ old \in Bits(dev) /\ At(nand, old) = t
  <2>1. old[1] \notin bad
    BY <1>2, <1>4, <1>9 DEF SideOk, BlockSide
  <2>2. QED
    BY <1>1, <1>2, <1>4, <1>8, <2>1 DEF OldOwned, LogOf, Readable, At, Tag, Bits
<1>11. /\ UseOk(nand, C, Bits(dev), Soft(dev), w, f) /\ OwnIn(nand, C, Bits(dev), w, f) /\ w \in Objects
  BY <1>2, <1>5, <1>6, <1>8, FileFacts
<1>12. OwnOf(w, k) = old
  BY <1>4, <1>7, <1>10, <1>11 DEF UseOk
<1>13. PICK d : d = Ready(dev)
  OBVIOUS
<1>14. Fits(d, TRUE) /\ d.alloc # None /\ Erased(d)
  BY <1>1, <1>13 DEF ReserveSuffices, Fits, GcCopy
<1>15. PICK page : page = Copied(t)
  OBVIOUS
<1>16. /\ page \in PagesOfLog /\ page.chunk = k /\ page.val = t.val /\ page.dir = t.dir
  BY <1>4, <1>5, <1>15 DEF PagesOfLog, Copied
<1>17. PICK b, e, c, m, u : /\ b = d.alloc /\ e = DeleteChunk(Allocated(d), old) /\ c = NextChunk(d)
                            /\ m = Programmed(nand, d.alloc, page) /\ u = Numbered(nseq, d.alloc, d.seq)
  OBVIOUS
<1>18. /\ Appended(nand, C, nseq, m, LogOf(m, bad), u, c)
       /\ c # None /\ At(m, c) = page /\ b \in Blocks
  BY <1>2, <1>8, <1>10, <1>13, <1>14, <1>16, <1>17, WriteScan
<1>19. \A a \in C : At(m, a) = At(nand, a)
  BY <1>18 DEF Appended
<1>20. /\ mounted' /\ todo' = todo /\ nand' = m
  BY <1>2, <1>4, <1>13, <1>14, <1>15, <1>17 DEF GcCopy, Program, Programmed
<1>21. obj' = IF k = 0 THEN [obj EXCEPT ![f].hdr = c] ELSE [obj EXCEPT ![f].tnode[k] = c]
  BY <1>4, <1>13, <1>14, <1>17 DEF GcCopy
<1>22. ValuesOk(m)
  <2>1. ValuesOk(nand)
    BY <1>2, StoreFacts
  <2>2. t.chunk # 0 => t.val \in Values
    <3>1. old[1] \in Blocks /\ old[2] \in 1 .. Len(nand[old[1]]) /\ t = nand[old[1]][old[2]] /\ t # Torn
      <4>1. PICK a, p : old = <<a, p>> /\ a \in Blocks /\ p \in Pages
        BY <1>2, <1>4 DEF Addr
      <4>2. p <= Len(nand[a]) /\ nand[a][p] # Torn /\ t = nand[a][p]
        BY <1>1, <1>4, <4>1 DEF OldOwned, Readable, Tag
      <4>3. p \in 1 .. Len(nand[a])
        <5>1. nand[a] \in Seq(PagesOfLog \cup {Torn})
          BY <1>3, <4>1 DEF Flash
        <5>2. Len(nand[a]) \in Nat
          BY <5>1
        <5>3. QED
          BY <4>1, <4>2, <5>2 DEF Pages
      <4>4. QED
        BY <4>1, <4>2, <4>3
    <3>2. QED
      BY <2>1, <3>1 DEF ValuesOk
  <2>3. page \in PagesOfLog \cup {Torn} /\ (page # Torn /\ page.chunk # 0 => page.val \in Values)
    BY <1>4, <1>16, <2>2
  <2>4. QED
    BY <1>3, <1>17, <1>18, <2>1, <2>3, ValuesGrown
<1>23. \A h \in Files : StepFile(nand, obj[h], Left(todo, h), m, obj[h], Left(todo, h), h)
  BY <1>2, <1>8, <1>19, PagesHeld
<1>24. \A j \in 0 .. FileChunks : OwnOf(w, j) # None => At(m, OwnOf(w, j)) = At(nand, OwnOf(w, j))
  BY <1>11, <1>19 DEF OwnIn
<1>25. w.hdr # None => At(m, w.hdr) = At(nand, w.hdr)
  BY <1>24, OwnKinds, Geometry
<1>26. \A j \in 1 .. FileChunks : w.tnode[j] # None => At(m, w.tnode[j]) = At(nand, w.tnode[j])
  BY <1>24, OwnKinds
<1>27. old # None
  BY <1>2, <1>4, Distinct
<1>28. ASSUME NEW v, Matches(nand, w, m, v), NEW o, obj' = o, o[f] = v, \A h \in Files \ {f} : o[h] = obj[h]
       PROVE  Stored
  <2>1. CallsFile(nand, w, q, f)
    BY <1>2, <1>5, <1>6, StoreFacts
  <2>2. StepFile(nand, w, q, m, v, q, f)
    BY <1>28, <2>1, MatchesStep
  <2>3. PICK r : r = todo
    OBVIOUS
  <2>4. \A h \in Files : StepFile(nand, obj[h], Left(todo, h), m, o[h], Left(r, h), h)
    BY <1>6, <1>23, <1>28, <2>2, <2>3
  <2>5. todo' = r
    BY <1>20, <2>3
  <2>6. QED
    BY <1>2, <1>20, <1>22, <1>28, <2>4, <2>5, QuietStep DEF Stored
<1>29. CASE k = 0
  <2>1. PICK v : v = [w EXCEPT !.hdr = c]
    OBVIOUS
  <2>2. PICK o : o = [obj EXCEPT ![f] = v]
    OBVIOUS
  <2>3. obj' = o
    BY <1>6, <1>21, <1>29, <2>1, <2>2
  <2>4. o[f] = v /\ \A h \in Files \ {f} : o[h] = obj[h]
    BY <1>3, <1>5, <2>2
  <2>5. v.hdr = c /\ v.dir = w.dir /\ v.tnode = w.tnode /\ v.size = w.size
    BY <1>11, <2>1 DEF Objects
  <2>6. w.hdr = old
    BY <1>12, <1>29 DEF OwnOf
  <2>7. Matches(nand, w, m, v)
    BY <1>10, <1>16, <1>18, <1>26, <1>27, <2>5, <2>6 DEF Matches
  <2>8. QED
    BY <1>28, <2>3, <2>4, <2>7
<1>30. CASE k # 0
  <2>1. k \in 1 .. FileChunks /\ w.tnode[k] = old
    BY <1>5, <1>12, <1>30, Geometry DEF OwnOf
  <2>2. w.tnode \in [1 .. FileChunks -> Addr \cup {None}]
    BY <1>11, ObjectFields
  <2>3. PICK z : z = [w.tnode EXCEPT ![k] = c]
    OBVIOUS
  <2>4. z[k] = c /\ \A j \in 1 .. FileChunks \ {k} : z[j] = w.tnode[j]
    BY <2>1, <2>2, <2>3
  <2>5. PICK v : v = [w EXCEPT !.tnode = z]
    OBVIOUS
  <2>6. PICK o : o = [obj EXCEPT ![f] = v]
    OBVIOUS
  <2>7. v = [w EXCEPT !.tnode[k] = c]
    BY <1>11, <2>3, <2>5 DEF Objects
  <2>8. obj' = o
    BY <1>6, <1>21, <1>30, <2>6, <2>7
  <2>9. o[f] = v /\ \A h \in Files \ {f} : o[h] = obj[h]
    BY <1>3, <1>5, <2>6
  <2>10. v.hdr = w.hdr /\ v.dir = w.dir /\ v.tnode = z /\ v.size = w.size
    BY <1>11, <2>5 DEF Objects
  <2>11. ASSUME NEW j \in 1 .. FileChunks
         PROVE  /\ v.tnode[j] = None <=> w.tnode[j] = None
                /\ w.tnode[j] # None => At(m, v.tnode[j]).val = At(nand, w.tnode[j]).val
    <3>1. CASE j = k
      BY <1>10, <1>16, <1>18, <1>27, <2>1, <2>4, <2>10, <3>1
    <3>2. CASE j # k
      BY <1>26, <2>4, <2>10, <3>2
    <3>3. QED
      BY <3>1, <3>2
  <2>12. Matches(nand, w, m, v)
    BY <1>25, <2>10, <2>11 DEF Matches
  <2>13. QED
    BY <1>28, <2>8, <2>9, <2>12
<1>31. QED
  BY <1>29, <1>30

LEMMA BlockBecameDirtyStore ==
  ASSUME GutsInv, ScanInv, StoreInv, GutsInv', ScanInv', BlockBecameDirty
  PROVE  Stored
<1>1. mounted /\ mounted' /\ obj' = obj /\ todo' = todo
  BY DEF BlockBecameDirty
<1>2. PICK b \in Blocks : dev.blk[b].state = "dirty" /\ (nand' = [nand EXCEPT ![b] = <<>>] \/ nand' = nand)
  BY Zenon DEF BlockBecameDirty, InState
<1>3. PICK m : nand' = m
  OBVIOUS
<1>4. nand \in Flash /\ DevOk(dev, obj, nand, gcBlock)
  BY <1>1, ScanFacts
<1>5. ValuesOk(nand)
  BY <1>1, StoreFacts
<1>6. m[b] \in {<<>>, nand[b]} /\ \A a \in Blocks \ {b} : m[a] = nand[a]
  BY <1>2, <1>3, <1>4 DEF Flash
<1>7. \A a \in Bits(dev) : At(m, a) = At(nand, a)
  <2>1. dev.blk[b].bits = {}
    BY <1>2, <1>4 DEF DevOk, BlockOk
  <2>2. \A a \in Bits(dev) : a[1] \in Blocks \ {b}
    BY <2>1, AddrPair DEF Bits
  <2>3. QED
    BY <1>6, <2>2 DEF At
<1>8. ValuesOk(m)
  <2>1. Len(<<>>) = 0 /\ \A p \in 1 .. 0 : FALSE
    OBVIOUS
  <2>2. QED
    BY <1>5, <1>6, <2>1 DEF ValuesOk
<1>9. PICK o, r : o = obj /\ r = todo
  OBVIOUS
<1>10. \A h \in Files : StepFile(nand, obj[h], Left(todo, h), m, o[h], Left(r, h), h)
  BY <1>1, <1>7, <1>9, PagesHeld
<1>11. obj' = o /\ todo' = r
  BY <1>1, <1>9
<1>12. QED
  BY <1>1, <1>3, <1>8, <1>10, <1>11, QuietStep DEF Stored

(* The chunk of a write is in the log, or there was no room for it.        *)
LEMMA PutEnds ==
  ASSUME GutsInv, ScanInv, StoreInv, mounted, GutsInv', ScanInv', mounted', None \notin Store!Calls,
         NEW m, NEW p, NEW r, nand' = m, obj' = p, todo' = r, ValuesOk(m),
         NEW f \in Files, NEW w, w = obj[f], NEW y, Left(todo, f) = {y}, y.op = "put",
         NEW v, v = p[f], Left(r, f) = {},
         \A h \in Files \ {f} : StepFile(nand, obj[h], Left(todo, h), m, p[h], Left(r, h), h),
         v.dir = w.dir, HeldName(nand, w) <=> HeldName(m, v),
         \/ \A k \in 1 .. FileChunks : \A z : Shown(nand, w, {}, k, z) <=> Shown(m, v, {}, k, z)
         \/ HeldName(nand, w) =>
              \A k \in 1 .. FileChunks : \A z :
                Shown(m, v, {}, k, z) <=> IF k = y.chunk THEN z = y.val ELSE Shown(nand, w, {}, k, z)
  PROVE  Stored
<1>1. PICK l, q : l = {y} /\ q = {}
  OBVIOUS
<1>2. ~CutPending(l) /\ ~CutPending({})
  BY <1>1 DEF CutPending
<1>3. \A k, z : Shown(nand, w, l, k, z) <=> Shown(nand, w, {}, k, z)
  BY <1>2, Zenon DEF Shown
<1>4. CallsFile(nand, w, l, f)
  BY <1>1, StoreFacts
<1>5. CallsFile(m, v, q, f)
  BY <1>1, <1>4 DEF CallsFile
<1>6. ~Acts(q, v) /\ \A x : x \notin q
  BY <1>1 DEF Acts
<1>7. CASE HeldName(nand, w)
  <2>1. y \in l /\ Due(nand, w, y)
    BY <1>1, <1>7 DEF Due
  <2>2. Outcome(nand, w, l, m, v, q, y)
    <3>1. CASE \A k \in 1 .. FileChunks : \A z : Shown(nand, w, {}, k, z) <=> Shown(m, v, {}, k, z)
      <4>1. \A k \in 1 .. FileChunks : \A z : Shown(nand, w, l, k, z) <=> Shown(m, v, q, k, z)
        BY <1>1, <1>3, <3>1
      <4>2. QED
        BY <4>1 DEF Outcome
    <3>2. CASE \A k \in 1 .. FileChunks : \A z :
                 Shown(m, v, {}, k, z) <=> IF k = y.chunk THEN z = y.val ELSE Shown(nand, w, {}, k, z)
      <4>1. \A k \in 1 .. FileChunks : \A z :
              Shown(m, v, q, k, z) <=> IF k = y.chunk THEN z = y.val ELSE Shown(nand, w, l, k, z)
        BY <1>1, <1>3, <3>2
      <4>2. QED
        BY <1>7, <4>1 DEF Outcome
    <3>3. QED
      BY <1>7, <3>1, <3>2
  <2>3. /\ l = Left(todo, f) /\ q = Left(r, f)
        /\ Acts(q, v) => Acts(l, w)
        /\ \A x \in q : ~Due(m, v, x)
    BY <1>1, <1>6
  <2>4. QED
    BY <1>5, <2>1, <2>2, <2>3, DecideStep
<1>8. CASE ~HeldName(nand, w)
  <2>1. StepFile(nand, w, l, m, v, q, f)
    BY <1>1, <1>6, <1>8, HiddenStep
  <2>2. \A h \in Files : StepFile(nand, obj[h], Left(todo, h), m, p[h], Left(r, h), h)
    BY <1>1, <2>1
  <2>3. QED
    BY <2>2, QuietStep DEF Stored
<1>9. QED
  BY <1>7, <1>8

LEMMA WriteChunkDataStore ==
  ASSUME GutsInv, ScanInv, StoreInv, GutsInv', ScanInv', WriteChunkData, None \notin Store!Calls
  PROVE  Stored
<1>1. Doing("put")
  BY DEF WriteChunkData
<1>2. mounted /\ todo # <<>> /\ Head(todo).op = "put" /\ gcBlock = None
  BY <1>1, DoingFacts
<1>3. /\ nand \in Flash /\ obj \in [Files -> Objects] /\ todo \in Seq(Ops)
      /\ DevOk(dev, obj, nand, None) /\ TodoOk(todo, obj, None)
  BY <1>2, ScanFacts
<1>4. PICK y, f, k, z : y = Head(todo) /\ f = y.file /\ k = y.chunk /\ z = y.val
  OBVIOUS
<1>5. f \in Files /\ k \in 1 .. FileChunks /\ z \in Values /\ y.op = "put"
  BY <1>2, <1>3, <1>4, HeadOk
<1>6. PICK w, t : w = obj[f] /\ t = Tail(todo)
  OBVIOUS
<1>7. PICK d, old : d = Ready(dev) /\ old = w.tnode[k]
  OBVIOUS
<1>8. PICK C, K : C = LogOf(nand, bad) /\ K = Bits(dev)
  OBVIOUS
<1>9. PICK l, q : l = {y} /\ q = {}
  OBVIOUS
<1>10. Left(t, f) = q /\ Left(todo, f) = l /\ \A h : h # f => Left(todo, h) = Left(t, h)
  <2>1. /\ Left(todo, f) = Left(t, f) \cup {y} /\ \A h : h # f => Left(todo, h) = Left(t, h)
        /\ Left(t, f) = {}
    BY <1>2, <1>3, <1>4, <1>6, LeftRest
  <2>2. QED
    BY <1>9, <2>1
<1>11. OwnIn(nand, C, K, w, f) /\ w \in Objects
  BY <1>2, <1>5, <1>6, <1>8, FileFacts
<1>12. mounted' /\ todo' = t
  BY <1>2, <1>6 DEF WriteChunkData, Rest
<1>13. ValuesOk(nand)
  BY <1>2, StoreFacts
<1>14. CASE ~Fits(d, FALSE)
  <2>1. PICK v : v = [w EXCEPT !.dirty = TRUE]
    OBVIOUS
  <2>2. PICK o : o = [obj EXCEPT ![f] = v]
    OBVIOUS
  <2>3. nand' = nand
    BY <1>4, <1>7, <1>14 DEF WriteChunkData
  <2>4. obj' = o
    <3>1. obj' = [obj EXCEPT ![f].dirty = TRUE]
      BY <1>4, <1>7, <1>14 DEF WriteChunkData
    <3>2. QED
      BY <1>3, <1>5, <1>6, <2>1, <2>2, <3>1
  <2>5. o[f] = v /\ \A h \in Files \ {f} : o[h] = obj[h]
    BY <1>3, <1>5, <2>2
  <2>6. v.dir = w.dir /\ v.size = w.size /\ v.hdr = w.hdr /\ v.tnode = w.tnode
    BY <1>11, <2>1 DEF Objects
  <2>7. HeldName(nand, w) <=> HeldName(nand, v)
    BY <2>6 DEF HeldName
  <2>8. \A j \in 1 .. FileChunks : \A x : Shown(nand, w, {}, j, x) <=> Shown(nand, v, {}, j, x)
    BY <2>6, <2>7, Zenon DEF Shown
  <2>9. \A h \in Files \ {f} : StepFile(nand, obj[h], Left(todo, h), nand, o[h], Left(t, h), h)
    <3>1. \A h \in Files : CallsFile(nand, obj[h], Left(todo, h), h)
      BY <1>2, StoreFacts
    <3>2. \A h \in Files \ {f} : StepFile(nand, obj[h], Left(todo, h), nand, obj[h], Left(todo, h), h)
      BY <3>1, IdleStep
    <3>3. QED
      BY <1>10, <2>5, <3>2
  <2>10. mounted /\ mounted' /\ nand' = nand /\ obj' = o /\ todo' = t
    BY <1>2, <1>12, <2>3, <2>4
  <2>11. /\ w = obj[f] /\ Left(todo, f) = {y} /\ y.op = "put" /\ v = o[f] /\ Left(t, f) = {}
         /\ v.dir = w.dir
    BY <1>5, <1>6, <1>9, <1>10, <2>5, <2>6
  <2>12. QED
    BY ONLY GutsInv, ScanInv, StoreInv, GutsInv', ScanInv', None \notin Store!Calls, <1>5,
            <1>13, <2>7, <2>8, <2>9, <2>10, <2>11, PutEnds
<1>15. CASE Fits(d, FALSE)
  <2>1. d.alloc # None /\ Erased(d)
    BY <1>4, <1>7, <1>15 DEF Fits, WriteChunkData
  <2>2. PICK page : page = Data(f, k, z)
    OBVIOUS
  <2>3. page \in PagesOfLog /\ page.file = f /\ page.chunk = k /\ page.val = z
    BY <1>5, <2>2, DataType, Geometry DEF Data
  <2>4. old = None \/ old \in Bits(dev)
    BY <1>5, <1>7, <1>8, <1>11, OwnInParts
  <2>5. PICK b, e, c, m, u : /\ b = d.alloc /\ e = DeleteChunk(Allocated(d), old) /\ c = NextChunk(d)
                             /\ m = Programmed(nand, d.alloc, page) /\ u = Numbered(nseq, d.alloc, d.seq)
    OBVIOUS
  <2>6. /\ Appended(nand, C, nseq, m, LogOf(m, bad), u, c)
        /\ c # None /\ At(m, c) = page /\ b \in Blocks
    BY <1>2, <1>7, <1>8, <2>1, <2>3, <2>4, <2>5, WriteScan
  <2>7. \A a \in C : At(m, a) = At(nand, a)
    BY <2>6 DEF Appended
  <2>8. ValuesOk(m)
    BY <1>3, <1>5, <1>13, <2>3, <2>5, <2>6, ValuesGrown
  <2>9. PICK v : v = [w EXCEPT !.tnode[k] = c, !.nData = IF old = None THEN @ + 1 ELSE @,
                               !.size = Max({@, k}), !.dirty = TRUE]
    OBVIOUS
  <2>10. PICK o : o = [obj EXCEPT ![f] = v]
    OBVIOUS
  <2>11. nand' = m
    BY <1>4, <1>6, <1>7, <1>15, <2>2, <2>5, Zenon DEF WriteChunkData, Program, Programmed
  <2>12. obj' = o
    BY <1>4, <1>6, <1>7, <1>15, <2>5, <2>9, <2>10, Zenon DEF WriteChunkData
  <2>13. o[f] = v /\ \A h \in Files \ {f} : o[h] = obj[h]
    BY <1>3, <1>5, <2>10
  <2>14. v.dir = w.dir /\ v.hdr = w.hdr /\ v.tnode = [w.tnode EXCEPT ![k] = c]
    BY <1>11, <2>9 DEF Objects
  <2>15. v.tnode[k] = c /\ \A j \in 1 .. FileChunks \ {k} : v.tnode[j] = w.tnode[j]
    <3>1. w.tnode \in [1 .. FileChunks -> Addr \cup {None}]
      BY <1>11, ObjectFields
    <3>2. QED
      BY <1>5, <2>14, <3>1
  <2>16. w.hdr # None => At(m, w.hdr) = At(nand, w.hdr)
    BY <1>11, <2>7, OwnInParts
  <2>17. \A j \in 1 .. FileChunks : w.tnode[j] # None => At(m, w.tnode[j]) = At(nand, w.tnode[j])
    BY <1>11, <2>7, OwnInParts
  <2>18. HeldName(nand, w) <=> HeldName(m, v)
    BY <2>14, <2>16 DEF HeldName
  <2>19. ASSUME HeldName(nand, w), NEW j \in 1 .. FileChunks, NEW x
         PROVE  Shown(m, v, {}, j, x) <=> IF j = y.chunk THEN x = y.val ELSE Shown(nand, w, {}, j, x)
    <3>1. ~CutPending({}) /\ HeldName(m, v)
      BY <2>18, <2>19 DEF CutPending
    <3>2. CASE j = k
      <4>1. Shown(m, v, {}, j, x) <=> x = z
        BY <2>3, <2>6, <2>15, <3>1, <3>2 DEF Shown
      <4>2. QED
        BY <1>4, <3>2, <4>1
    <3>3. CASE j # k
      <4>1. v.tnode[j] = w.tnode[j] /\ (w.tnode[j] # None => At(m, w.tnode[j]).val = At(nand, w.tnode[j]).val)
        BY <2>15, <2>17, <3>3
      <4>2. Shown(m, v, {}, j, x) <=> w.tnode[j] # None /\ At(m, w.tnode[j]).val = x
        BY <3>1, <4>1, Zenon DEF Shown
      <4>3. Shown(nand, w, {}, j, x) <=> w.tnode[j] # None /\ At(nand, w.tnode[j]).val = x
        BY <2>19, <3>1, Zenon DEF Shown
      <4>4. Shown(m, v, {}, j, x) <=> Shown(nand, w, {}, j, x)
        BY <4>1, <4>2, <4>3
      <4>5. QED
        BY <1>4, <3>3, <4>4
    <3>4. QED
      BY <3>2, <3>3
  <2>20. \A h \in Files \ {f} : StepFile(nand, obj[h], Left(todo, h), m, o[h], Left(t, h), h)
    <3>1. \A h \in Files : StepFile(nand, obj[h], Left(todo, h), m, obj[h], Left(todo, h), h)
      BY <1>2, <1>8, <2>7, PagesHeld
    <3>2. QED
      BY <1>10, <2>13, <3>1
  <2>21. mounted /\ mounted' /\ nand' = m /\ obj' = o /\ todo' = t
    BY <1>2, <1>12, <2>11, <2>12
  <2>22. /\ w = obj[f] /\ Left(todo, f) = {y} /\ y.op = "put" /\ v = o[f] /\ Left(t, f) = {}
         /\ v.dir = w.dir
    BY <1>5, <1>6, <1>9, <1>10, <2>13, <2>14
  <2>23. HeldName(nand, w) =>
           \A j \in 1 .. FileChunks : \A x :
             Shown(m, v, {}, j, x) <=> IF j = y.chunk THEN x = y.val ELSE Shown(nand, w, {}, j, x)
    BY <2>19
  <2>24. QED
    BY ONLY GutsInv, ScanInv, StoreInv, GutsInv', ScanInv', None \notin Store!Calls, <1>5,
            <2>8, <2>18, <2>20, <2>21, <2>22, <2>23, PutEnds
<1>16. QED
  BY <1>14, <1>15

(* The header of a file is in the log.                                     *)
Headed(m, w, l, v, q, y) ==
  /\ y.op = "header" /\ l = q \cup {y} /\ \A x \in q : x.op = "remove"
  /\ v.dir = w.dir /\ v.size = w.size /\ v.tnode = w.tnode
  /\ v.hdr # None /\ At(m, v.hdr).dir = w.dir
  /\ \A k \in 1 .. FileChunks : w.tnode[k] # None => At(m, w.tnode[k]) = At(nand, w.tnode[k])

LEMMA HeaderEnds ==
  ASSUME GutsInv, ScanInv, StoreInv, mounted, GutsInv', ScanInv', mounted', None \notin Store!Calls,
         NEW m, NEW p, NEW t, nand' = m, obj' = p, todo' = t, ValuesOk(m),
         NEW f \in Files, NEW w, w = obj[f], NEW l, l = Left(todo, f), NEW q, q = Left(t, f),
         NEW v, v = p[f], NEW y, Headed(m, w, l, v, q, y),
         \A h \in Files \ {f} : StepFile(nand, obj[h], Left(todo, h), m, p[h], Left(t, h), h)
  PROVE  Stored
<1> SUFFICES ASSUME y.op = "header", l = q \cup {y}, \A x \in q : x.op = "remove",
                    v.dir = w.dir, v.size = w.size, v.tnode = w.tnode,
                    v.hdr # None, At(m, v.hdr).dir = w.dir,
                    \A k \in 1 .. FileChunks :
                      w.tnode[k] # None => At(m, w.tnode[k]) = At(nand, w.tnode[k])
             PROVE  Stored
  BY DEF Headed
<1>1. PICK C, s : C = LogOf(nand, bad) /\ s = nseq
  OBVIOUS
<1>2. HeaderOk(nand, C, s, w, l, f) /\ ObjectOk(w, l) /\ CallsFile(nand, w, l, f)
  BY <1>1, FileFacts, StoreFacts
<1>3. HeldName(m, v) <=> w.dir = "root"
  BY DEF HeldName
<1>4. ~CutPending(q) /\ (CutPending(l) <=> y.shrink)
  BY DEF CutPending
<1>5. ~Acts(q, v)
  BY DEF Acts, Acting
<1>6. \A x \in q : ~Due(m, v, x)
  BY DEF Due
<1>7. CallsFile(m, v, q, f)
  BY <1>3 DEF CallsFile
<1>8. y \in l
  OBVIOUS
<1>9. ASSUME Due(nand, w, y), Outcome(nand, w, l, m, v, q, y) PROVE Stored
  <2>1. Acts(q, v) => Acts(l, w)
    BY <1>5
  <2>2. mounted /\ mounted' /\ nand' = m /\ obj' = p /\ todo' = t
    OBVIOUS
  <2>3. f \in Files /\ w = obj[f] /\ l = Left(todo, f) /\ v = p[f] /\ q = Left(t, f)
    OBVIOUS
  <2>4. ValuesOk(m) /\ None \notin Store!Calls
    OBVIOUS
  <2>5. GutsInv /\ ScanInv /\ StoreInv /\ GutsInv' /\ ScanInv'
    OBVIOUS
  <2>6. \A h \in Files \ {f} : StepFile(nand, obj[h], Left(todo, h), m, p[h], Left(t, h), h)
    OBVIOUS
  <2>7. QED
    BY ONLY <1>6, <1>7, <1>8, <1>9, <2>1, <2>2, <2>3, <2>4, <2>5, <2>6, DecideStep
<1>10. ASSUME StepFile(nand, w, l, m, v, q, f) PROVE Stored
  <2>1. \A h \in Files : StepFile(nand, obj[h], Left(todo, h), m, p[h], Left(t, h), h)
    BY <1>10
  <2>2. QED
    BY <2>1, QuietStep DEF Stored
<1>11. CASE w.dir # "root" /\ HeldName(nand, w)
  <2>1. Due(nand, w, y)
    BY <1>11 DEF Due
  <2>2. Outcome(nand, w, l, m, v, q, y)
    BY <1>3, <1>11 DEF Outcome
  <2>3. QED
    BY <1>9, <2>1, <2>2
<1>12. CASE w.dir # "root" /\ ~HeldName(nand, w)
  <2>1. \A x \in l : x.op = "header" => x.shrink \/ w.dir # "root"
    BY <1>12
  <2>2. StepFile(nand, w, l, m, v, q, f)
    BY <1>3, <1>5, <1>12, <2>1, HiddenStep
  <2>3. QED
    BY <1>10, <2>2
<1>13. CASE w.dir = "root" /\ w.hdr = None
  <2>1. ~HeldName(nand, w) /\ HeldName(m, v)
    BY <1>3, <1>13 DEF HeldName
  <2>2. ~y.shrink
    BY <1>2, <1>8, <1>13 DEF CallsFile
  <2>3. Due(nand, w, y)
    BY <1>13, <2>1, <2>2 DEF Due
  <2>4. \A k \in 1 .. FileChunks : \A z : Shown(nand, w, l, k, z) <=> Shown(m, v, q, k, z)
    <3>1. \A k \in 1 .. FileChunks : w.tnode[k] = None
      BY <1>2, <1>13 DEF ObjectOk
    <3>2. QED
      BY <3>1 DEF Shown
  <2>5. Outcome(nand, w, l, m, v, q, y)
    BY <1>13, <2>1, <2>2, <2>4 DEF Outcome
  <2>6. QED
    BY <1>9, <2>3, <2>5
<1>14. CASE w.dir = "root" /\ w.hdr # None
  <2>1. HeldName(nand, w) /\ HeldName(m, v)
    BY <1>2, <1>3, <1>14 DEF HeldName, HeaderOk
  <2>2. \A k \in 1 .. FileChunks : w.tnode[k] # None => k <= w.size
    <3>1. \A k : ~PrunePending(l, k)
      BY DEF PrunePending
    <3>2. QED
      BY <1>2, <1>14, <3>1 DEF ObjectOk
  <2>3. w.size \in Nat
    BY ScanFacts
  <2>4. \A k \in 1 .. FileChunks : w.tnode[k] # None => ~(k > w.size)
    BY <2>2, <2>3, Geometry
  <2>5. ASSUME NEW k \in 1 .. FileChunks, NEW z PROVE Shown(nand, w, l, k, z) <=> Shown(m, v, q, k, z)
    <3>1. w.tnode[k] # None => ~(k > w.size) /\ At(m, w.tnode[k]) = At(nand, w.tnode[k])
      BY <2>4
    <3>2. Shown(nand, w, l, k, z) <=> w.tnode[k] # None /\ At(nand, w.tnode[k]).val = z
      BY <2>1, <3>1, Zenon DEF Shown
    <3>3. Shown(m, v, q, k, z) <=> w.tnode[k] # None /\ At(m, w.tnode[k]).val = z
      BY <1>4, <2>1, Zenon DEF Shown
    <3>4. QED
      BY <3>1, <3>2, <3>3
  <2>6. CASE y.shrink
    <3>1. Due(nand, w, y)
      BY <2>1, <2>6 DEF Due
    <3>2. Outcome(nand, w, l, m, v, q, y)
      BY <2>1, <2>5 DEF Outcome
    <3>3. QED
      BY <1>9, <3>1, <3>2
  <2>7. CASE ~y.shrink
    <3>1. ~Due(nand, w, y)
      BY <1>14, <2>1, <2>7 DEF Due
    <3>2. \A x \in l : ~Due(nand, w, x)
      <4>1. \A x \in q : ~Due(nand, w, x)
        BY DEF Due
      <4>2. QED
        BY <3>1, <4>1
    <3>3. SameFile(nand, w, l, m, v, q)
      BY <1>6, <2>1, <2>5, <3>2 DEF SameFile
    <3>4. StepFile(nand, w, l, m, v, q, f)
      BY <1>5, <1>7, <3>3 DEF StepFile
    <3>5. QED
      BY <1>10, <3>4
  <2>8. QED
    BY <2>6, <2>7
<1>15. QED
  BY <1>11, <1>12, <1>13, <1>14

LEMMA WriteHeaderStore ==
  ASSUME GutsInv, ScanInv, StoreInv, GutsInv', ScanInv', WriteHeader, ReserveSuffices, None \notin Store!Calls
  PROVE  Stored
<1>1. Doing("header")
  BY Zenon DEF WriteHeader
<1>2. mounted /\ todo # <<>> /\ Head(todo).op = "header" /\ gcBlock = None
  BY <1>1, DoingFacts
<1>3. /\ nand \in Flash /\ obj \in [Files -> Objects] /\ todo \in Seq(Ops)
      /\ DevOk(dev, obj, nand, None) /\ TodoOk(todo, obj, None)
  BY <1>2, ScanFacts
<1>4. PICK y, f, x : y = Head(todo) /\ f = y.file /\ x = y.shrink
  OBVIOUS
<1>5. f \in Files /\ y.op = "header" /\ x \in BOOLEAN
  <2>1. y \in Ops
    BY <1>2, <1>3, <1>4
  <2>2. x \in BOOLEAN
    BY <1>4, <2>1 DEF Ops
  <2>3. QED
    BY <1>2, <1>3, <1>4, <2>2, HeadOk
<1>6. PICK w, t : w = obj[f] /\ t = Tail(todo)
  OBVIOUS
<1>7. t \in Seq(Ops)
  BY <1>2, <1>3, <1>6
<1>8. PICK d, old : d = Ready(dev) /\ old = w.hdr
  OBVIOUS
<1>9. PICK C : C = LogOf(nand, bad)
  OBVIOUS
<1>10. PICK r, l : r = Left(t, f) /\ l = r \cup {y}
  OBVIOUS
<1>11. /\ Left(todo, f) = l /\ \A h : h # f => Left(todo, h) = Left(t, h)
       /\ \A z \in r : z.op = "remove" /\ w.dir = "deleted"
  BY <1>2, <1>3, <1>4, <1>6, <1>10, LeftRest
<1>12. OwnIn(nand, C, Bits(dev), w, f) /\ w \in Objects
  BY <1>2, <1>5, <1>6, <1>9, FileFacts
<1>13. mounted'
  BY <1>2, Zenon DEF WriteHeader
<1>14. /\ ValuesOk(nand) /\ CallsFile(nand, w, l, f)
       /\ \A h \in Files : CallsFile(nand, obj[h], Left(todo, h), h)
  BY <1>2, <1>5, <1>6, <1>11, StoreFacts
<1>15. CASE ~Fits(d, old # None)
  <2>1. old = None
    <3>1. old # None => Fits(d, TRUE)
      BY <1>1, <1>4, <1>6, <1>8 DEF ReserveSuffices
    <3>2. CASE old # None
      <4>1. (old # None) = TRUE
        BY <3>2
      <4>2. Fits(d, old # None)
        BY <3>1, <3>2, <4>1
      <4>3. QED
        BY <1>15, <4>2
    <3>3. QED
      BY <3>2
  <2>2. nand' = nand /\ obj' = obj
    BY <1>4, <1>6, <1>8, <1>15 DEF WriteHeader
  <2>3. ~HeldName(nand, w)
    BY <1>8, <2>1 DEF HeldName
  <2>4. PICK o : o = obj
    OBVIOUS
  <2>5. obj' = o /\ o[f] = w
    BY <1>6, <2>2, <2>4
  <2>6. CASE w.dir = "root"
    <3>1. PICK x1 : x1 = Op("destroy", f)
      OBVIOUS
    <3>2. x1 \in Ops /\ x1.op = "destroy" /\ x1.file = f
      BY <1>5, <3>1, OpType DEF Steps
    <3>3. PICK s1 : s1 = <<x1>>
      OBVIOUS
    <3>4. PICK z : z = s1 \o t
      OBVIOUS
    <3>5. todo' = z
      BY <1>4, <1>6, <1>8, <1>15, <2>1, <2>6, <3>1, <3>3, <3>4 DEF WriteHeader, Rest
    <3>6. \A h : Left(z, h) = Left(s1, h) \cup Left(t, h)
      <4>1. s1 \in Seq(Ops)
        BY <3>2, <3>3
      <4>2. QED
        BY <1>7, <3>4, <4>1, LeftConcat
    <3>7. Left(s1, f) = {x1} /\ \A h : h # f => Left(s1, h) = {}
      BY <3>2, <3>3, LeftOne
    <3>8. Left(t, f) = {}
      BY <1>10, <1>11, <2>6
    <3>9. PICK q : q = {x1}
      OBVIOUS
    <3>10. Left(z, f) = q /\ \A h \in Files \ {f} : Left(z, h) = Left(todo, h)
      BY <1>11, <3>6, <3>7, <3>8, <3>9
    <3>11. ~x
      BY <1>4, <1>5, <1>8, <1>10, <1>14, <2>1, <2>6 DEF CallsFile
    <3>12. y \in l /\ Due(nand, w, y)
      BY <1>4, <1>5, <1>10, <2>3, <2>6, <3>11 DEF Due
    <3>13. CallsFile(nand, w, q, f)
      BY <2>3, <3>2, <3>9 DEF CallsFile
    <3>14. ~Acts(q, w)
      BY <3>2, <3>9 DEF Acts, Acting
    <3>15. \A a \in q : ~Due(nand, w, a)
      BY <3>2, <3>9 DEF Due
    <3>16. Outcome(nand, w, l, nand, w, q, y)
      BY <2>3 DEF Outcome, Shown
    <3>17. \A h \in Files \ {f} : StepFile(nand, obj[h], Left(todo, h), nand, o[h], Left(z, h), h)
      BY <1>14, <2>4, <3>10, IdleStep
    <3>18. PICK v, m : v = w /\ m = nand
      OBVIOUS
    <3>19. mounted /\ mounted' /\ nand' = m /\ obj' = o /\ todo' = z
      BY <1>2, <1>13, <2>2, <2>5, <3>5, <3>18
    <3>20. f \in Files /\ w = obj[f] /\ l = Left(todo, f) /\ v = o[f] /\ q = Left(z, f)
      BY <1>5, <1>6, <1>11, <2>5, <3>10, <3>18
    <3>21. ValuesOk(m) /\ CallsFile(m, v, q, f) /\ Outcome(nand, w, l, m, v, q, y)
      BY <1>14, <3>13, <3>16, <3>18
    <3>22. Acts(q, v) => Acts(l, w)
      BY <3>14, <3>18
    <3>23. \A a \in q : ~Due(m, v, a)
      BY <3>15, <3>18
    <3>24. \A h \in Files \ {f} : StepFile(nand, obj[h], Left(todo, h), m, o[h], Left(z, h), h)
      BY <3>17, <3>18
    <3>25. GutsInv /\ ScanInv /\ StoreInv /\ GutsInv' /\ ScanInv' /\ None \notin Store!Calls
      OBVIOUS
    <3>26. QED
      BY ONLY <3>12, <3>19, <3>20, <3>21, <3>22, <3>23, <3>24, <3>25, DecideStep
  <2>7. CASE w.dir # "root"
    <3>1. todo' = t
      BY <1>4, <1>6, <1>8, <1>15, <2>7 DEF WriteHeader, Rest
    <3>2. \A a \in l : a.op = "header" => a.shrink \/ w.dir # "root"
      BY <2>7
    <3>3. \A a \in r : a.op # "header"
      BY <1>11
    <3>4. ~Acts(r, w)
      BY <1>11 DEF Acts, Acting
    <3>5. StepFile(nand, w, l, nand, w, r, f)
      BY <2>3, <3>2, <3>3, <3>4, HiddenStep
    <3>6. \A h \in Files :
            \/ o[h] = obj[h] /\ Left(t, h) = Left(todo, h)
            \/ StepFile(nand, obj[h], Left(todo, h), nand, o[h], Left(t, h), h)
      BY <1>6, <1>10, <1>11, <2>4, <3>5
    <3>7. QED
      BY <1>2, <1>13, <2>2, <2>5, <3>1, <3>6, KeptStep
  <2>8. QED
    BY <2>6, <2>7
<1>16. CASE Fits(d, old # None)
  <2>1. d.alloc # None /\ Erased(d)
    BY <1>4, <1>6, <1>8, <1>16, Zenon DEF Fits, WriteHeader
  <2>2. PICK size : size = IF w.dir = "root" THEN w.size ELSE 0
    OBVIOUS
  <2>3. PICK page : page = Header(f, w.dir, size, x)
    OBVIOUS
  <2>4. page \in PagesOfLog /\ page.chunk = 0 /\ page.dir = w.dir
    <3>1. w.dir \in Dirs /\ w.size \in 0 .. FileChunks /\ 0 \in 0 .. FileChunks
      BY <1>12, ObjectFields, Geometry
    <3>2. size \in 0 .. FileChunks
      BY <2>2, <3>1
    <3>3. QED
      BY <1>5, <2>3, <3>1, <3>2, HeaderType DEF Header
  <2>5. old = None \/ old \in Bits(dev)
    BY <1>8, <1>12, OwnInParts
  <2>6. PICK b, e, c, m, u : /\ b = d.alloc /\ e = DeleteChunk(Allocated(d), old) /\ c = NextChunk(d)
                             /\ m = Programmed(nand, d.alloc, page) /\ u = Numbered(nseq, d.alloc, d.seq)
    OBVIOUS
  <2>7. /\ Appended(nand, C, nseq, m, LogOf(m, bad), u, c)
        /\ c # None /\ At(m, c) = page /\ b \in Blocks
    BY <1>2, <1>8, <1>9, <2>1, <2>4, <2>5, <2>6, WriteScan
  <2>8. \A a \in C : At(m, a) = At(nand, a)
    BY <2>7 DEF Appended
  <2>9. ValuesOk(m)
    BY <1>3, <1>14, <2>4, <2>6, <2>7, ValuesGrown
  <2>10. PICK o : o = HeadedOf(obj, f, c)
    OBVIOUS
  <2>11. nand' = m
    BY <1>4, <1>6, <1>8, <1>16, <2>2, <2>3, <2>6, Zenon DEF WriteHeader, Program, Programmed
  <2>12. obj' = o /\ todo' = t
    BY <1>4, <1>6, <1>8, <1>16, <2>6, <2>10, Zenon DEF WriteHeader, HeadedOf, Rest
  <2>13. PICK v : v = [w EXCEPT !.hdr = c, !.dirty = FALSE]
    OBVIOUS
  <2>14. o[f] = v /\ \A h \in Files \ {f} : o[h] = obj[h]
    BY <1>3, <1>5, <1>6, <2>10, <2>13 DEF HeadedOf
  <2>15. v.hdr = c /\ v.dir = w.dir /\ v.tnode = w.tnode /\ v.size = w.size
    BY <1>12, <2>13 DEF Objects
  <2>16. \A k \in 1 .. FileChunks : w.tnode[k] # None => At(m, w.tnode[k]) = At(nand, w.tnode[k])
    BY <1>12, <2>8, OwnInParts
  <2>17. \A h \in Files \ {f} : StepFile(nand, obj[h], Left(todo, h), m, o[h], Left(t, h), h)
    <3>1. \A h \in Files : StepFile(nand, obj[h], Left(todo, h), m, obj[h], Left(todo, h), h)
      BY <1>2, <1>9, <2>8, PagesHeld
    <3>2. QED
      BY <1>11, <2>14, <3>1
  <2>18. mounted /\ mounted' /\ nand' = m /\ obj' = o /\ todo' = t
    BY <1>2, <1>13, <2>11, <2>12
  <2>19. f \in Files /\ w = obj[f] /\ l = Left(todo, f) /\ r = Left(t, f) /\ v = o[f]
    BY <1>5, <1>6, <1>10, <1>11, <2>14
  <2>20. v.dir = w.dir /\ v.size = w.size /\ v.tnode = w.tnode /\ v.hdr # None
    BY <2>7, <2>15
  <2>21. At(m, v.hdr).dir = w.dir
    BY <2>4, <2>7, <2>15
  <2>22. y.op = "header" /\ l = r \cup {y}
    BY <1>5, <1>10
  <2>23. \A a \in r : a.op = "remove"
    BY <1>11
  <2>24. Headed(m, w, l, v, r, y)
    BY <2>16, <2>20, <2>21, <2>22, <2>23 DEF Headed
  <2>25. GutsInv /\ ScanInv /\ StoreInv /\ GutsInv' /\ ScanInv' /\ None \notin Store!Calls
    OBVIOUS
  <2>26. QED
    BY ONLY <2>9, <2>17, <2>18, <2>19, <2>24, <2>25, HeaderEnds
<1>17. QED
  BY <1>15, <1>16

-----------------------------------------------------------------------------
(* Power cuts and mounts.                                                  *)
LEMMA SamePages ==
  ASSUME Log' = Log, \A c \in Log : Tag(c)' = Tag(c), nseq' = nseq
  PROVE  /\ Live' = Live /\ Names' = Names
         /\ \A f : Named(f)' <=> Named(f)
<1>1. Live' = Live /\ \A f : \A c \in Log : IsHeaderOf(c, f)' <=> IsHeaderOf(c, f)
  BY LiveSame
<1>2. \A f : Named(f)' <=> Named(f)
  BY <1>1 DEF Named
<1>3. Names' = Names
  BY <1>2 DEF Names
<1>4. QED
  BY <1>1, <1>2, <1>3

NoneLeft == todo = <<>>

LEMMA NonePending ==
  \A f, k : NoneLeft => Pending = None /\ ~BeingCut(f, k)
<1> SUFFICES ASSUME NEW f, NEW k, NoneLeft PROVE Pending = None /\ ~BeingCut(f, k)
  OBVIOUS
<1>1. \A i \in DOMAIN todo : FALSE
  BY DEF NoneLeft
<1>2. Pending = None
  BY <1>1, Zenon DEF Pending
<1>3. ~BeingCut(f, k)
  BY <1>1, Zenon DEF BeingCut
<1>4. QED
  BY <1>2, <1>3

LEMMA NonePendingAgain ==
  (\A f, k : NoneLeft => Pending = None /\ ~BeingCut(f, k))'
BY NonePending, PTL

LEMMA InContents ==
  \A f, k, v :
    <<f, k, v>> \in Contents <=>
      \E c \in Live : /\ Tag(c).file = f /\ Tag(c).chunk = k /\ Tag(c).val = v
                      /\ k > 0 /\ Named(f) /\ ~BeingCut(f, k)
<1> SUFFICES ASSUME NEW f, NEW k, NEW v
             PROVE  <<f, k, v>> \in Contents <=>
                      \E c \in Live : /\ Tag(c).file = f /\ Tag(c).chunk = k /\ Tag(c).val = v
                                      /\ k > 0 /\ Named(f) /\ ~BeingCut(f, k)
  BY Zenon
<1>1. ASSUME <<f, k, v>> \in Contents
      PROVE  \E c \in Live : /\ Tag(c).file = f /\ Tag(c).chunk = k /\ Tag(c).val = v
                             /\ k > 0 /\ Named(f) /\ ~BeingCut(f, k)
  <2>1. PICK c \in Live : /\ Tag(c).chunk > 0 /\ Named(Tag(c).file) /\ ~BeingCut(Tag(c).file, Tag(c).chunk)
                          /\ <<f, k, v>> = <<Tag(c).file, Tag(c).chunk, Tag(c).val>>
    BY <1>1 DEF Contents
  <2>2. f = Tag(c).file /\ k = Tag(c).chunk /\ v = Tag(c).val
    BY <2>1
  <2>3. QED
    BY <2>1, <2>2
<1>2. ASSUME NEW c \in Live, Tag(c).file = f, Tag(c).chunk = k, Tag(c).val = v,
             k > 0, Named(f), ~BeingCut(f, k)
      PROVE  <<f, k, v>> \in Contents
  BY <1>2 DEF Contents
<1>3. QED
  BY <1>1, <1>2

LEMMA InContentsAgain ==
  (\A f, k, v :
     <<f, k, v>> \in Contents <=>
       \E c \in Live : /\ Tag(c).file = f /\ Tag(c).chunk = k /\ Tag(c).val = v
                       /\ k > 0 /\ Named(f) /\ ~BeingCut(f, k))'
BY InContents, PTL

Typed == Names \subseteq Files /\ Contents \subseteq Names \X (1 .. FileChunks) \X Values

LEMMA StoreTyped ==
  GutsInv /\ StoreInv => Typed
BY StateTyped DEF Typed

LEMMA TypedAgain ==
  (GutsInv /\ StoreInv)' => Typed'
BY StoreTyped, PTL

(* What the store holds while the pages of the log stay as they are.       *)
LEMMA SameContents ==
  ASSUME Log' = Log, \A c \in Log : Tag(c)' = Tag(c), nseq' = nseq,
         NEW f, NEW k, NEW v, ~BeingCut(f, k)'
  PROVE  <<f, k, v>> \in Contents <=> (<<f, k, v>> \in Contents)' /\ ~BeingCut(f, k)
<1>1. Live' = Live /\ (Named(f)' <=> Named(f))
  BY SamePages
<1>2. \A c \in Live : Tag(c)' = Tag(c)
  BY DEF Live
<1>3. <<f, k, v>> \in Contents <=>
        \E c \in Live : /\ Tag(c).file = f /\ Tag(c).chunk = k /\ Tag(c).val = v
                        /\ k > 0 /\ Named(f) /\ ~BeingCut(f, k)
  BY InContents
<1>4. (<<f, k, v>> \in Contents)' <=>
        \E c \in Live' : /\ Tag(c)'.file = f /\ Tag(c)'.chunk = k /\ Tag(c)'.val = v
                         /\ k > 0 /\ Named(f)' /\ ~BeingCut(f, k)'
  BY InContentsAgain
<1>5. QED
  BY <1>1, <1>2, <1>3, <1>4

(* The chunks being cut off are those of the call in progress.             *)
LEMMA CutPends ==
  ASSUME GutsInv, ScanInv, StoreInv, mounted, None \notin Store!Calls,
         NEW P, P = Pending, NEW f \in Files, Named(f), NEW k
  PROVE  BeingCut(f, k) <=> P # None /\ P.op = "cut" /\ P.file = f /\ k > P.keep
<1>1. PICK w, q : w = obj[f] /\ q = Left(todo, f)
  OBVIOUS
<1>2. HeldName(nand, w)
  BY <1>1, NamedHeld
<1>3. CallsFile(nand, w, q, f)
  BY <1>1, StoreFacts
<1>4. BeingCut(f, k) <=> CutPending(q) /\ w.dir = "root" /\ k > w.size
  BY <1>1, <1>3, CutsAgree
<1>5. \A x \in q : x.file = f
  BY <1>1 DEF Left
<1>6. ASSUME BeingCut(f, k) PROVE P # None /\ P.op = "cut" /\ P.file = f /\ k > P.keep
  <2>1. PICK x \in q : x.op = "header" /\ x.shrink
    BY <1>4, <1>6 DEF CutPending
  <2>2. w.dir = "root" /\ k > w.size
    BY <1>4, <1>6
  <2>3. Due(nand, w, x)
    BY <1>2, <2>1 DEF Due
  <2>4. P = CallOn(w, x)
    BY <1>1, <2>3, PendingDue
  <2>5. P = [op |-> "cut", file |-> x.file, keep |-> w.size]
    BY <2>1, <2>2, <2>4 DEF CallOn
  <2>6. P \in Store!Calls
    <3>1. x.file = f /\ w \in Objects
      BY <1>1, <1>5, FileFacts
    <3>2. x.op # "put"
      BY <2>1
    <3>3. QED
      BY <2>4, <3>1, <3>2, CallTyped
  <2>7. P.op = "cut" /\ P.file = x.file /\ P.keep = w.size
    BY <2>5
  <2>8. P # None
    BY <2>6
  <2>9. QED
    BY <1>5, <2>1, <2>2, <2>7, <2>8
<1>7. ASSUME P # None, P.op = "cut", P.file = f, k > P.keep PROVE BeingCut(f, k)
  <2>1. PICK g \in Files : \E a \in Left(todo, g) : Due(nand, obj[g], a)
    BY <1>7, PendingDue
  <2>2. PICK x \in Left(todo, g) : Due(nand, obj[g], x)
    BY <2>1
  <2>3. P = CallOn(obj[g], x)
    BY <2>2, PendingDue
  <2>4. x.op # "put" /\ obj[g].dir = "root" /\ x.shrink
    <3>1. CASE x.op = "put"
      BY <1>7, <2>3, <3>1 DEF CallOn
    <3>2. CASE x.op # "put" /\ obj[g].dir # "root"
      BY <1>7, <2>3, <3>2 DEF CallOn
    <3>3. CASE x.op # "put" /\ obj[g].dir = "root" /\ ~x.shrink
      BY <1>7, <2>3, <3>3 DEF CallOn
    <3>4. QED
      BY <3>1, <3>2, <3>3
  <2>5. P = [op |-> "cut", file |-> x.file, keep |-> obj[g].size]
    BY <2>3, <2>4 DEF CallOn
  <2>6. x.file = g
    BY <2>2 DEF Left
  <2>7. g = f
    BY <1>7, <2>5, <2>6
  <2>8. x.op = "header" /\ x \in q
    BY <1>1, <2>2, <2>4, <2>7 DEF Due
  <2>9. CutPending(q)
    BY <2>4, <2>8 DEF CutPending
  <2>10. QED
    BY <1>1, <1>4, <1>7, <2>4, <2>5, <2>7, <2>9
<1>8. QED
  BY <1>6, <1>7

(* The power cut ends the call in progress.                                *)
LEMMA StoreCut ==
  ASSUME NEW N, NEW D, NEW P, NEW E, N \subseteq Files, D \subseteq N \X (1 .. FileChunks) \X Values,
         E \subseteq N \X (1 .. FileChunks) \X Values,
         \A f \in N : \A k, v :
           <<f, k, v>> \in D <=>
             <<f, k, v>> \in E /\ ~(P # None /\ P.op = "cut" /\ P.file = f /\ k > P.keep),
         P # None /\ P.op = "cut" => P.keep \in Nat
  PROVE  StoreStep(N, D, P, N, E, None)
<1>1. D \subseteq Files \X (1 .. FileChunks) \X Values /\ E \subseteq Files \X (1 .. FileChunks) \X Values
  OBVIOUS
<1>2. \A f, k, v : (<<f, k, v>> \in D => f \in N) /\ (<<f, k, v>> \in E => f \in N)
  BY Zenon
<1>3. CASE P # None /\ P.op = "cut"
  <2>1. PICK G : G = Store!Kept(E, P)
    OBVIOUS
  <2>2. \A f, k, v : <<f, k, v>> \in G <=> <<f, k, v>> \in E /\ (f = P.file => k <= P.keep)
    BY <1>3, <2>1, Zenon DEF Store!Kept
  <2>3. G \subseteq Files \X (1 .. FileChunks) \X Values
    BY <1>1, <2>1 DEF Store!Kept
  <2>4. ASSUME NEW f \in Files, NEW k \in 1 .. FileChunks, NEW v
        PROVE  <<f, k, v>> \in D <=> <<f, k, v>> \in G
    <3>1. k > P.keep <=> ~(k <= P.keep)
      BY <1>3, <2>4, Geometry
    <3>2. QED
      BY <1>2, <1>3, <2>2, <3>1
  <2>5. D = G
    BY <1>1, <2>3, <2>4, SameTriples
  <2>6. QED
    BY <1>3, <2>1, <2>5 DEF StoreStep
<1>4. CASE ~(P # None /\ P.op = "cut")
  <2>1. \A f \in Files, k \in 1 .. FileChunks : \A v : <<f, k, v>> \in D <=> <<f, k, v>> \in E
    BY <1>2, <1>4, Zenon
  <2>2. D = E
    BY <1>1, <2>1, SameTriples
  <2>3. QED
    BY <2>2 DEF StoreStep
<1>5. QED
  BY <1>3, <1>4

LEMMA PowerCutStore ==
  ASSUME GutsInv, ScanInv, StoreInv, GutsInv', PowerCut, None \notin Store!Calls,
         TornFrom \in Nat, TornFrom >= 2
  PROVE  Stored
<1>1. mounted /\ ~mounted' /\ todo' = <<>> /\ nseq' = nseq
  BY DEF PowerCut
<1>2. /\ Log' = Log /\ \A c \in Log : Tag(c)' = Tag(c)
      /\ nand' = nand \/ \E b \in Blocks : nand' = Programmed(nand, b, Torn)
  BY PowerCutLog
<1>3. PICK m : m = nand'
  OBVIOUS
<1>4. ValuesOk(m)
  <2>1. nand \in Flash /\ ValuesOk(nand)
    BY <1>1, ScanFacts, StoreFacts
  <2>2. ASSUME NEW b \in Blocks, m = Programmed(nand, b, Torn) PROVE ValuesOk(m)
    BY <2>1, <2>2, ValuesGrown
  <2>3. QED
    BY <1>2, <1>3, <2>1, <2>2
<1>5. StoreInv'
  BY <1>1, <1>3, <1>4 DEF StoreInv
<1>6. Pending' = None /\ \A f, k : ~BeingCut(f, k)'
  BY <1>1, NonePendingAgain DEF NoneLeft
<1>7. PICK N, D, P, E : N = Names /\ D = Contents /\ P = Pending /\ E = Contents'
  OBVIOUS
<1>8. Names' = N
  BY <1>1, <1>2, <1>7, SamePages
<1>9. N \subseteq Files /\ D \subseteq N \X (1 .. FileChunks) \X Values /\ E \subseteq N \X (1 .. FileChunks) \X Values
  BY <1>5, <1>7, <1>8, StoreTyped, TypedAgain DEF Typed
<1>10. ASSUME NEW f \in N, NEW k, NEW v
       PROVE  <<f, k, v>> \in D <=>
                <<f, k, v>> \in E /\ ~(P # None /\ P.op = "cut" /\ P.file = f /\ k > P.keep)
  <2>1. <<f, k, v>> \in Contents <=> (<<f, k, v>> \in Contents)' /\ ~BeingCut(f, k)
    BY <1>1, <1>2, <1>6, SameContents
  <2>2. f \in Files /\ Named(f)
    BY <1>7, <1>10 DEF Names
  <2>3. BeingCut(f, k) <=> P # None /\ P.op = "cut" /\ P.file = f /\ k > P.keep
    BY <1>1, <1>7, <2>2, CutPends
  <2>4. QED
    BY <1>7, <2>1, <2>3
<1>11. P # None /\ P.op = "cut" => P.keep \in Nat
  <2>1. SUFFICES ASSUME P # None, P.op = "cut" PROVE P.keep \in Nat
    OBVIOUS
  <2>2. PICK g \in Files : \E a \in Left(todo, g) : Due(nand, obj[g], a)
    BY <1>1, <1>7, <2>1, PendingDue
  <2>3. PICK x \in Left(todo, g) : Due(nand, obj[g], x)
    BY <2>2
  <2>4. P = CallOn(obj[g], x)
    BY <1>1, <1>7, <2>3, PendingDue
  <2>5. P = [op |-> "cut", file |-> x.file, keep |-> obj[g].size]
    BY <2>1, <2>4 DEF CallOn
  <2>6. obj[g].size \in Nat
    BY <1>1, ScanFacts
  <2>7. QED
    BY <2>5, <2>6
<1>12. StoreStep(N, D, P, N, E, None)
  BY <1>9, <1>10, <1>11, StoreCut
<1>13. QED
  BY <1>5, <1>6, <1>7, <1>8, <1>12 DEF Stored

LEMMA MountStore ==
  ASSUME GutsInv, ScanInv, StoreInv, GutsInv', ScanInv', Mount
  PROVE  Stored
<1>1. ~mounted /\ mounted' /\ nand' = nand /\ nseq' = nseq /\ bad' = bad
  BY DEF Mount
<1>2. nand \in Flash /\ nseq \in [Blocks -> Nat] /\ ValuesOk(nand) /\ todo = <<>>
  BY <1>1 DEF GutsInv, StoreInv
<1>3. PICK o : o = ScannedObjects
  OBVIOUS
<1>4. obj' = o
  BY <1>3 DEF Mount, ScannedObjects
<1>5. PICK t : todo' = t /\ \A f \in Files : \A x \in Left(t, f) : x.op = "destroy"
  BY <1>2, <1>3, <1>4, MountLeft
<1>6. PICK C : C = LogOf(nand, bad)
  OBVIOUS
<1>7. \A f \in Files : HeaderOk(nand, C, nseq, o[f], Left(t, f), f)
  <2>1. \A f \in Files :
          FileOk(nand, LogOf(nand, bad), nseq, Bits(dev)', Flagged(dev)', Soft(dev)', o[f], Left(t, f), f)
    BY <1>1, <1>4, <1>5 DEF ScanInv
  <2>2. QED
    BY <1>6, <2>1 DEF FileOk
<1>8. ASSUME NEW f \in Files PROVE CallsFile(nand, o[f], Left(t, f), f) /\ ~Acts(Left(t, f), o[f])
  <2>1. PICK w, q : w = o[f] /\ q = Left(t, f)
    OBVIOUS
  <2>2. \A x \in q : x.op = "destroy"
    BY <1>5, <2>1
  <2>3. w.hdr # None => At(nand, w.hdr).dir = w.dir
    BY <1>7, <2>1, <2>2 DEF HeaderOk, HeaderPending
  <2>4. w.dir = "deleted" => ~HeldName(nand, w)
    BY <2>3 DEF HeldName
  <2>5. QED
    BY <2>1, <2>2, <2>4 DEF CallsFile, Acts, Acting
<1>9. StoreInv'
  <2>1. CallsOk(nand, t, o)
    BY <1>8 DEF CallsOk
  <2>2. QED
    BY <1>1, <1>2, <1>4, <1>5, <2>1 DEF StoreInv
<1>10. Pending' = None
  <2>1. (GutsInv /\ ScanInv /\ StoreInv /\ mounted)'
    BY <1>1, <1>9
  <2>2. Viewed'
    BY <2>1, ViewAgain
  <2>3. ViewOf(nand, o, t, Names', Contents', Pending')
    BY <1>1, <1>4, <1>5, <2>2 DEF Viewed
  <2>4. \A f \in Files : \A x \in Left(t, f) : ~Due(nand, o[f], x)
    BY <1>5 DEF Due
  <2>5. QED
    BY <2>3, <2>4 DEF ViewOf
<1>11. Pending = None /\ \A f, k : ~BeingCut(f, k)
  BY <1>2, NonePending DEF NoneLeft
<1>12. \A f \in Files : \A k : ~BeingCut(f, k)'
  <2>1. SUFFICES ASSUME NEW f \in Files, NEW k, BeingCut(f, k)' PROVE FALSE
    OBVIOUS
  <2>2. PICK i \in DOMAIN t : t[i] = UpdateObjectHeader(f, TRUE)
    BY <1>5, <2>1 DEF BeingCut
  <2>3. PICK x : x = t[i]
    OBVIOUS
  <2>4. x.op = "header" /\ x.file = f
    BY <2>2, <2>3 DEF UpdateObjectHeader, Op
  <2>5. x \in Left(t, f)
    BY <2>2, <2>3, <2>4 DEF Left
  <2>6. QED
    BY <1>5, <2>4, <2>5
<1>13. Log' = Log /\ \A c \in Log : Tag(c)' = Tag(c)
  BY <1>1 DEF Log, Readable, NeedsScanning, Tag
<1>14. PICK N, D, E : N = Names /\ D = Contents /\ E = Contents'
  OBVIOUS
<1>15. Names' = N
  BY <1>1, <1>13, <1>14, SamePages
<1>16. N \subseteq Files /\ D \subseteq N \X (1 .. FileChunks) \X Values /\ E \subseteq N \X (1 .. FileChunks) \X Values
  BY <1>9, <1>14, <1>15, StoreTyped, TypedAgain DEF Typed
<1>17. D = E
  <2>1. \A f \in Files, k \in 1 .. FileChunks : \A v : <<f, k, v>> \in D <=> <<f, k, v>> \in E
    BY <1>1, <1>11, <1>12, <1>13, <1>14, SameContents, Zenon
  <2>2. D \subseteq Files \X (1 .. FileChunks) \X Values /\ E \subseteq Files \X (1 .. FileChunks) \X Values
    BY <1>16
  <2>3. QED
    BY <2>1, <2>2, SameTriples
<1>18. QED
  BY <1>9, <1>10, <1>11, <1>14, <1>15, <1>17 DEF Stored, StoreStep

LEMMA UnchangedStore ==
  ASSUME GutsInv, ScanInv, StoreInv, GutsInv', ScanInv', UNCHANGED vars
  PROVE  Stored
<1>1. /\ nand' = nand /\ nseq' = nseq /\ bad' = bad /\ mounted' = mounted
      /\ obj' = obj /\ todo' = todo
  BY DEF vars
<1>2. CASE mounted
  <2>1. PICK o, t : o = obj /\ t = todo
    OBVIOUS
  <2>2. obj' = o /\ todo' = t /\ mounted'
    BY <1>1, <1>2, <2>1
  <2>3. QED
    BY <1>1, <1>2, <2>1, <2>2, KeptStep
<1>3. CASE ~mounted
  <2>1. ValuesOk(nand) /\ todo = <<>>
    BY <1>3 DEF StoreInv
  <2>2. StoreInv'
    BY <1>1, <1>3, <2>1 DEF StoreInv
  <2>3. Pending = None /\ \A f, k : ~BeingCut(f, k)
    BY <2>1, NonePending DEF NoneLeft
  <2>4. todo' = <<>>
    BY <1>1, <2>1
  <2>5. Pending' = None /\ \A f, k : ~BeingCut(f, k)'
    BY <2>4, NonePendingAgain DEF NoneLeft
  <2>6. Log' = Log /\ \A c \in Log : Tag(c)' = Tag(c)
    BY <1>1 DEF Log, Readable, NeedsScanning, Tag
  <2>7. PICK N, D, E : N = Names /\ D = Contents /\ E = Contents'
    OBVIOUS
  <2>8. Names' = N
    BY <1>1, <2>6, <2>7, SamePages
  <2>9. N \subseteq Files /\ D \subseteq N \X (1 .. FileChunks) \X Values /\ E \subseteq N \X (1 .. FileChunks) \X Values
    BY <2>2, <2>7, <2>8, StoreTyped, TypedAgain DEF Typed
  <2>10. D = E
    <3>1. \A f \in Files, k \in 1 .. FileChunks : \A v : <<f, k, v>> \in D <=> <<f, k, v>> \in E
      BY <1>1, <2>3, <2>5, <2>6, <2>7, SameContents, Zenon
    <3>2. D \subseteq Files \X (1 .. FileChunks) \X Values /\ E \subseteq Files \X (1 .. FileChunks) \X Values
      BY <2>9
    <3>3. QED
      BY <3>1, <3>2, SameTriples
  <2>11. QED
    BY <2>2, <2>3, <2>5, <2>7, <2>8, <2>10 DEF Stored, StoreStep
<1>4. QED
  BY <1>2, <1>3

LEMMA NextStore ==
  ASSUME GutsInv, ScanInv, StoreInv, GutsInv', ScanInv', ReserveSuffices, [Next]_vars,
         None \notin Store!Calls, TornFrom \in Nat, TornFrom >= 2
  PROVE  Stored
<1>1. CASE CheckGarbageCollection
  BY <1>1, CheckGarbageCollectionStore
<1>2. CASE GcDrop
  BY <1>2, GcDropStore
<1>3. CASE GcCopy
  BY <1>3, GcCopyStore
<1>4. CASE GcCleanup
  BY <1>4, GcCleanupStore
<1>5. CASE BlockBecameDirty
  BY <1>5, BlockBecameDirtyStore
<1>6. CASE WriteChunkData
  BY <1>6, WriteChunkDataStore
<1>7. CASE WriteHeader
  BY <1>7, WriteHeaderStore
<1>8. CASE SkipUnerased
  BY <1>8, SkipUnerasedStore
<1>9. CASE PruneResizedChunk
  BY <1>9, PruneResizedChunkStore
<1>10. CASE DeleteFile
  BY <1>10, DeleteFileStore
<1>11. CASE RemoveObject
  BY <1>11, RemoveObjectStore
<1>12. ASSUME NEW f \in Files, Create(f) \/ FlushFile(f) \/ Unlink(f) \/ DeleteInode(f) PROVE Stored
  BY <1>12, CreateStore, FlushFileStore, UnlinkStore, DeleteInodeStore
<1>13. ASSUME NEW f \in Files, NEW k \in 1 .. FileChunks, NEW v \in Values, WriteFile(f, k, v) PROVE Stored
  BY <1>13, WriteFileStore
<1>14. ASSUME NEW f \in Files, NEW n \in 0 .. FileChunks, ResizeFile(f, n) PROVE Stored
  BY <1>14, ResizeFileStore
<1>15. CASE PowerCut
  BY <1>15, PowerCutStore
<1>16. CASE Mount
  BY <1>16, MountStore
<1>17. CASE UNCHANGED vars
  BY <1>17, UnchangedStore
<1>18. QED
  BY <1>1, <1>2, <1>3, <1>4, <1>5, <1>6, <1>7, <1>8, <1>9, <1>10, <1>11, <1>12, <1>13, <1>14,
     <1>15, <1>16, <1>17 DEF Next

(* A run that starts with an erased flash.                                 *)
LEMMA ImageErased ==
  ASSUME Prefill = 0, NEW f, NEW v, NEW n, n = Image(f, v), NEW b \in Blocks
  PROVE  Len(n[b]) = 0
<1> DEFINE place(q) == (b - 1) * ChunksPerBlock + q
           Q == {q \in Pages : place(q) <= Prefill}
<1>1. Q = {}
  <2>1. SUFFICES ASSUME NEW q \in Pages, place(q) <= 0 PROVE FALSE
    OBVIOUS
  <2>2. b - 1 \in Nat /\ ChunksPerBlock \in Nat
    BY Geometry
  <2>3. PICK m : m = (b - 1) * ChunksPerBlock
    OBVIOUS
  <2>4. m \in Nat
    BY <2>2, <2>3
  <2>5. m + q <= 0
    BY <2>1, <2>3
  <2>6. q \in Int /\ q >= 1
    BY Geometry DEF Pages
  <2>7. QED
    BY <2>4, <2>5, <2>6
<1>2. \E g : n[b] = [p \in 1 .. Cardinality(Q) |-> g[p]]
  <2>1. n[b] = [p \in 1 .. Cardinality(Q) |->
                  IF place(p) = 1 THEN Header(f, "root", 0, FALSE) ELSE Data(f, place(p) - 1, v)]
    BY Zenon DEF Image
  <2>2. n[b] = [p \in 1 .. Cardinality(Q) |-> n[b][p]]
    BY <2>1
  <2>3. QED
    BY <2>2
<1> HIDE DEF Q, place
<1>3. Cardinality(Q) = 0
  BY <1>1, FS_EmptySet
<1>4. PICK g : n[b] = [p \in 1 .. 0 |-> g[p]]
  BY <1>2, <1>3
<1>5. QED
  BY <1>4

LEMMA InitStore ==
  ASSUME Prefill = 0
  PROVE  Init => StoreInv /\ Store!Init
<1> SUFFICES ASSUME Init PROVE StoreInv /\ Store!Init
  OBVIOUS
<1>1. \A b \in Blocks : Len(nand[b]) = 0
  BY ImageErased DEF Init
<1>2. ~mounted /\ todo = <<>>
  BY DEF Init
<1>3. ValuesOk(nand)
  BY <1>1 DEF ValuesOk
<1>4. Log = {}
  <2>1. ASSUME NEW c \in Addr PROVE ~(c[2] <= Len(nand[c[1]]))
    <3>1. c[1] \in Blocks /\ c[2] \in Nat /\ c[2] >= 1
      BY AddrPair, Geometry DEF Pages
    <3>2. QED
      BY <1>1, <3>1
  <2>2. QED
    BY <2>1 DEF Log, Readable
<1>5. Names = {}
  BY <1>4 DEF Names, Named
<1>6. Contents = {}
  BY <1>4 DEF Contents, Live
<1>7. Pending = None
  BY <1>2, NonePending DEF NoneLeft
<1>8. QED
  BY <1>2, <1>3, <1>5, <1>6, <1>7 DEF StoreInv, Store!Init

-----------------------------------------------------------------------------
(* The flash and the scan of yaffs_guts.c implement the store: at every    *)
(* moment a scan of the flash would find a set of files and their chunks   *)
(* that changes at one instant of a call, or at no instant of it when the  *)
(* power is cut or no room is left; the collector, erasures, mounts and    *)
(* power cuts change nothing, but for a cut in the middle of a resize.     *)
(* The hypotheses of ScanCorrect, on a flash that starts erased; no call   *)
(* is the model value None.                                                *)
THEOREM StoreCorrect ==
  ASSUME ~StrayCuts, TornFrom \in Nat, TornFrom >= 2, Prefill = 0, None \notin Store!Calls
  PROVE  Spec /\ []ReserveSuffices => ImplementsStore
<1>1. Init => GutsInv /\ ScanInv /\ StoreInv /\ Store!Init
  BY GutsInit, InitScan, InitStore
<1>2. GutsInv /\ ScanInv /\ ReserveSuffices /\ [Next]_vars => (GutsInv /\ ScanInv)'
  BY GutsNext, NextScan
<1>3. /\ GutsInv /\ ScanInv /\ StoreInv /\ ReserveSuffices /\ [Next]_vars /\ (GutsInv /\ ScanInv)'
      => StoreInv' /\ [Store!Next]_(Store!vars)
  BY NextStore, StoreNext DEF Stored
<1>4. QED
  BY <1>1, <1>2, <1>3, PTL DEF Spec, ImplementsStore, Store!Spec
=============================================================================
