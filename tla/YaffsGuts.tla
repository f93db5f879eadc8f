------------------------------ MODULE YaffsGuts ------------------------------
(***************************************************************************)
(* The YAFFS2 log of yaffs_guts.c on one NAND partition, mounted with      *)
(* no-cache and no-checkpoint: allocation, garbage collection, object      *)
(* headers, writing, resizing and deleting files, and the backward scan    *)
(* that rebuilds everything in memory after a power cut.                   *)
(*                                                                         *)
(* grossLock serialises the calls, so a call is a list of steps in "todo"  *)
(* and a step ends where the flash changes: between two steps the power    *)
(* may go, and then only nand, nseq and bad are left.                      *)
(***************************************************************************)
EXTENDS Integers, Sequences, FiniteSets, FiniteSetsExt, SequencesExt

CONSTANTS
    Blocks,         \* internalStartBlock .. internalEndBlock
    ChunksPerBlock, \* nChunksPerBlock
    NReserved,      \* nReservedBlocks
    PassiveChunks,  \* YAFFS_PASSIVE_GC_CHUNKS
    Files,          \* object numbers of regular files
    FileChunks,     \* a file has at most this many chunks of data
    Values,         \* what a chunk of data may hold
    Hole,           \* what reading a missing chunk gives
    None,           \* no chunk, no block
    Torn,           \* a page whose programming the power cut: tags unreadable, not erased
    TornFrom,       \* a power cut may tear the pages of a block from this one on
    StrayCuts,      \* may the power go while data lies behind the recorded end of a file
    Sparse,         \* may a file be written beyond its end, or extended
    Prefill,        \* pages that the flash holds at the start
    MaxOps,         \* bound: calls of the user
    MaxCuts,        \* bound: power cuts
    MaxBad          \* bound: blocks whose erasure fails

ASSUME Geometry ==
    /\ Blocks \subseteq Nat \ {0} /\ IsFiniteSet(Blocks)
    /\ ChunksPerBlock \in Nat /\ ChunksPerBlock >= 2
    /\ NReserved \in Nat /\ NReserved >= 2
    /\ Cardinality(Blocks) > NReserved + 3
    /\ FileChunks \in Nat \ {0} /\ IsFiniteSet(Files)
    /\ Prefill \in 0..FileChunks + 1 /\ (Prefill > 0 => 1 \in Blocks)

VARIABLES
    nand,    \* the flash: block -> sequence of programmed pages
    nseq,    \* sequence number in the tags of a block's pages
    bad,     \* blocks marked bad on the flash
    mounted,
    dev,     \* yaffs_Device and its yaffs_BlockInfo table
    obj,     \* the yaffs_Objects, one per file
    todo,    \* what is left of the call that holds grossLock
    gcBlock, \* block yaffs_GarbageCollectBlock works on, or None
    ops, cuts \* calls and power cuts so far

vars == <<nand, nseq, bad, mounted, dev, obj, todo, gcBlock, ops, cuts>>

Pages == 1..ChunksPerBlock
Addr == {<<b, p>> : b \in Blocks, p \in Pages}
Dirs == {"root", "unlinked", "deleted", "lost+found"}

----------------------------------------------------------------------------
(* Pages of the flash, and their order in the log.                         *)

PagesOfLog ==
    [file : Files, chunk : 0..FileChunks, val : Values \cup {Hole}, dir : Dirs,
     size : 0..FileChunks, shrink : BOOLEAN]

ASSUME Distinct == None \notin Blocks /\ None \notin Addr /\ Torn \notin PagesOfLog

Header(f, dir, size, shrink) ==
    [file |-> f, chunk |-> 0, val |-> Hole, dir |-> dir, size |-> size, shrink |-> shrink]
Data(f, k, v) ==
    [file |-> f, chunk |-> k, val |-> v, dir |-> "root", size |-> 0, shrink |-> FALSE]

Tag(c) == nand[c[1]][c[2]]

(* yaffs_QueryInitialBlockState looks at the first page only.              *)
NeedsScanning(b) == b \notin bad /\ nand[b] # <<>> /\ nand[b][1] # Torn

Readable == {c \in Addr : c[2] <= Len(nand[c[1]]) /\ nand[c[1]][c[2]] # Torn}
Log == {c \in Readable : NeedsScanning(c[1])}

Newer(c, d) == nseq[c[1]] > nseq[d[1]] \/ (c[1] = d[1] /\ c[2] > d[2])

----------------------------------------------------------------------------
(* yaffs_ScanBackwards: what the log says of every file.                   *)

SamePlace(c, d) == Tag(c).file = Tag(d).file /\ Tag(c).chunk = Tag(d).chunk
Superseded(c) == \E d \in Log : SamePlace(c, d) /\ Newer(d, c)

(* The newest header is taken as it is; an older one of a deleted or       *)
(* unlinked file counts as a shrink to nothing.                            *)
IsShrink(h) ==
    /\ Tag(h).chunk = 0
    /\ Tag(h).shrink \/ (Tag(h).dir # "root" /\ Superseded(h))
ShrinkSize(h) == IF Tag(h).dir # "root" THEN 0 ELSE Tag(h).size

CutOff(c) ==
    \E h \in Log : /\ Tag(h).file = Tag(c).file
                   /\ Tag(c).chunk > ShrinkSize(h)
                   /\ Newer(h, c) /\ IsShrink(h)

Live == {c \in Log : ~Superseded(c) /\ ~CutOff(c)}

Found(live, f, k) ==
    LET C == {c \in live : Tag(c).file = f /\ Tag(c).chunk = k}
    IN IF C = {} THEN None ELSE CHOOSE c \in C : TRUE

IsHeaderOf(h, f) == Tag(h).file = f /\ Tag(h).chunk = 0 /\ ~Superseded(h)

(* Does a scan find the file in a directory of the user?                   *)
Named(f) == \E h \in Log : IsHeaderOf(h, f) /\ Tag(h).dir = "root"

(* Data newer than the newest header extends the size that header gives.   *)
ScanSizeAllData(f) ==
    Max({0} \cup {Tag(c).chunk : c \in {d \in Log : Tag(d).file = f}}
            \cup {Tag(h).size : h \in {c \in Log : IsHeaderOf(c, f)}})
ScanSize(f) ==
    Max({0} \cup {Tag(h).size : h \in {c \in Log : IsHeaderOf(c, f)}}
            \cup {Tag(c).chunk : c \in {d \in Log : /\ Tag(d).file = f
                                                    /\ ~\E h \in Log : IsHeaderOf(h, f) /\ Newer(h, d)}})

NoObject == [here |-> FALSE, dir |-> "root", hdr |-> None, size |-> 0,
             tnode |-> [k \in 1..FileChunks |-> None], nData |-> 0,
             deleted |-> FALSE, dirty |-> FALSE]

ScannedObject(live, f) ==
    LET hdr == Found(live, f, 0)
        tnode == [k \in 1..FileChunks |-> Found(live, f, k)]
    IN IF \A c \in Log : Tag(c).file # f THEN NoObject
       ELSE [NoObject EXCEPT
               !.here  = TRUE,
               !.hdr   = hdr,
               !.dir   = IF hdr = None THEN "lost+found" ELSE Tag(hdr).dir,
               !.size  = ScanSize(f),
               !.tnode = tnode,
               !.nData = Cardinality({k \in 1..FileChunks : tnode[k] # None})]

LastSeq == Max({0} \cup {nseq[b] : b \in {x \in Blocks : NeedsScanning(x)}})

FirstFree(b) == 1 + Max({0} \cup {p \in Pages : <<b, p>> \in Readable})

(* The block table after the scan; a full block without a live chunk and   *)
(* without a shrink header is erased on the way.                           *)
ScannedBlock(live, b) ==
    LET bits == {p \in Pages : <<b, p>> \in live}
        shrunk == \E h \in Log : h[1] = b /\ IsShrink(h)
        state == IF b \in bad THEN "dead"
                 ELSE IF ~NeedsScanning(b) THEN "empty"
                 ELSE IF FirstFree(b) <= ChunksPerBlock /\ nseq[b] = LastSeq THEN "allocating"
                 ELSE IF bits = {} /\ ~shrunk THEN "dirty" ELSE "full"
    IN [state |-> state, seq |-> IF NeedsScanning(b) THEN nseq[b] ELSE 0,
        bits |-> bits, pagesInUse |-> Cardinality(bits), softDel |-> 0,
        shrink |-> shrunk,
        retire |-> state \in {"full", "dirty"} /\ FirstFree(b) <= ChunksPerBlock]

InState(table, states) == {b \in Blocks : table[b].state \in states}

(* yaffs_CountFreeChunks                                                   *)
CountFreeChunks(table) ==
    MapThenSumSet(LAMBDA b : ChunksPerBlock - table[b].pagesInUse + table[b].softDel,
                  InState(table, {"empty", "allocating", "collecting", "full"}))

ScannedDevice ==
    LET live == Live
        table == [b \in Blocks |-> ScannedBlock(live, b)]
        tail == InState(table, {"allocating"})
    IN [blk    |-> table,
        alloc  |-> IF tail = {} THEN None ELSE CHOOSE b \in tail : TRUE,
        page   |-> IF tail = {} THEN 1 ELSE FirstFree(CHOOSE b \in tail : TRUE),
        seq    |-> LastSeq,
        erased |-> Cardinality(InState(table, {"empty"})),
        free   |-> CountFreeChunks(table)
                   + ChunksPerBlock * Cardinality(InState(table, {"dirty"}))]

----------------------------------------------------------------------------
(* The block table: allocating and deleting a chunk.                       *)

(* yaffs_DeleteChunk; a block left without chunks becomes dirty and is     *)
(* erased by the next step.                                                *)
DeleteChunk(d, c) ==
    IF c = None \/ d.blk[c[1]].state \notin {"allocating", "full", "collecting"} THEN d
    ELSE LET bi == d.blk[c[1]] IN
         [d EXCEPT
            !.free = @ + 1,
            !.blk[c[1]] = [bi EXCEPT
               !.bits = @ \ {c[2]},
               !.pagesInUse = @ - 1,
               !.state = IF bi.pagesInUse = 1 /\ ~bi.shrink /\ bi.state # "allocating"
                         THEN "dirty" ELSE @]]

(* yaffs_FindBlockForAllocation; the rotor allocationBlockFinder is        *)
(* abstracted to the lowest block, as blocks differ in nothing else.       *)
FindBlockForAllocation(d) ==
    LET empty == InState(d.blk, {"empty"}) IN
    IF d.erased < 1 \/ empty = {} THEN d
    ELSE LET b == CHOOSE x \in empty : \A y \in empty : x <= y IN
         [d EXCEPT !.alloc = b, !.page = 1, !.seq = @ + 1, !.erased = @ - 1,
                   !.blk[b].state = "allocating", !.blk[b].seq = d.seq + 1]

(* yaffs_CheckSpaceForAllocation, without a checkpoint                     *)
SpaceForAllocationNoReserve(d) == d.free > 0
SpaceForAllocation(d) == d.free > NReserved * ChunksPerBlock

(* yaffs_AllocateChunk: first a block to allocate from, even when there is *)
(* then no room for this caller; then the next page of it.                 *)
Ready(d) == IF d.alloc = None THEN FindBlockForAllocation(d) ELSE d
Fits(d, useReserve) == d.alloc # None /\ (useReserve \/ SpaceForAllocation(d))
NextChunk(d) == <<d.alloc, d.page>>
Allocated(d) ==
    LET bi == d.blk[d.alloc] IN
    [d EXCEPT !.free = @ - 1,
              !.page = @ + 1,
              !.alloc = IF d.page = ChunksPerBlock THEN None ELSE @,
              !.blk[d.alloc] = [bi EXCEPT
                  !.bits = @ \cup {d.page},
                  !.pagesInUse = @ + 1,
                  !.state = IF d.page = ChunksPerBlock THEN "full" ELSE @]]

(* yaffs_CheckChunkErased                                                  *)
Erased(d) == d.page > Len(nand[d.alloc])

(* yaffs_WriteChunkWithTagsToNAND                                          *)
Program(d, page) ==
    /\ nand' = [nand EXCEPT ![d.alloc] = Append(@, page)]
    /\ nseq' = [nseq EXCEPT ![d.alloc] = d.seq]

----------------------------------------------------------------------------
(* Garbage collection.                                                     *)

Used(b) == dev.blk[b].pagesInUse - dev.blk[b].softDel

OldestDirtySequence ==
    Min({dev.seq} \cup {dev.blk[b].seq : b \in {x \in InState(dev.blk, {"full"}) :
                                                   Used(x) < ChunksPerBlock}})

NotDisqualifiedFromGCIgnored(b) == TRUE
NotDisqualifiedFromGC(b) ==
    dev.blk[b].shrink => dev.blk[b].seq <= OldestDirtySequence

Aggressive == dev.erased < NReserved + 2

Candidates(limit) ==
    {b \in InState(dev.blk, {"full"}) : Used(b) < limit /\ NotDisqualifiedFromGC(b)}

Prioritised == {b \in InState(dev.blk, {"full"}) :
                   dev.blk[b].retire /\ b # Max(Blocks) /\ NotDisqualifiedFromGC(b)}

(* yaffs_FindBlockForGarbageCollection: a block that lost a write first,   *)
(* then a dirtiest one; a leisurely call skips some turns and looks at a   *)
(* part of the blocks, so that it takes one of the candidates or none.     *)
BlocksForGarbageCollection ==
    IF Prioritised # {} THEN {Min(Prioritised)}
    ELSE IF Aggressive
    THEN LET C == Candidates(ChunksPerBlock) IN
         IF C = {} THEN {None} ELSE {b \in C : \A x \in C : Used(b) <= Used(x)}
    ELSE {None} \cup Candidates(PassiveChunks + 1)

Op(name, f) == [op |-> name, file |-> f, chunk |-> 0, val |-> Hole, shrink |-> FALSE]
Gc(try) == [Op("gc", None) EXCEPT !.chunk = try]
UpdateObjectHeader(f, shrink) == [Op("header", f) EXCEPT !.shrink = shrink]

Quiet == mounted /\ InState(dev.blk, {"dirty"}) = {}
Doing(name) == Quiet /\ gcBlock = None /\ todo # <<>> /\ Head(todo).op = name
Rest == Tail(todo)

(* yaffs_CheckGarbageCollection: at most two blocks, the second only when  *)
(* the first left fewer erased blocks than the reserve.                    *)
CheckGarbageCollection ==
    /\ Doing("gc")
    /\ IF Head(todo).chunk = 2 /\ dev.erased >= NReserved
       THEN todo' = Rest /\ UNCHANGED <<dev, gcBlock>>
       ELSE \E b \in BlocksForGarbageCollection :
            IF b = None
            THEN todo' = Rest /\ UNCHANGED <<dev, gcBlock>>
            ELSE /\ todo' = IF Head(todo).chunk = 1 THEN <<Gc(2)>> \o Rest ELSE Rest
                 /\ gcBlock' = b
                 /\ dev' = [dev EXCEPT
                      !.free = @ - dev.blk[b].softDel,
                      !.blk[b].shrink = FALSE,
                      !.blk[b].state = IF dev.blk[b].bits = {} THEN "dirty" ELSE "collecting"]
    /\ UNCHANGED <<nand, nseq, bad, mounted, obj, ops, cuts>>

(* One turn of the loop of yaffs_GarbageCollectBlock, on the first chunk   *)
(* still in use.  A soft-deleted chunk and one of no object are dropped;   *)
(* anything else is copied, a header without its shrink flag.              *)
Collecting == Quiet /\ gcBlock # None /\ dev.blk[gcBlock].state = "collecting"
OldChunk == <<gcBlock, Min(dev.blk[gcBlock].bits)>>
OldOwned == OldChunk \in Readable /\ obj[Tag(OldChunk).file].here
OldSoftDeleted == obj[Tag(OldChunk).file].deleted /\ Tag(OldChunk).chunk # 0

GcDrop ==
    /\ Collecting
    /\ OldOwned => OldSoftDeleted
    /\ dev' = DeleteChunk(dev, OldChunk)
    /\ obj' = IF OldOwned THEN [obj EXCEPT ![Tag(OldChunk).file].nData = @ - 1] ELSE obj
    /\ UNCHANGED <<nand, nseq, bad, mounted, todo, gcBlock, ops, cuts>>

CopiedFlagged(t) == t
Copied(t) == [t EXCEPT !.shrink = FALSE]

GcCopy ==
    /\ Collecting
    /\ OldOwned /\ ~OldSoftDeleted
    /\ LET t == Tag(OldChunk)
           d == Ready(dev)
       IN IF Fits(d, TRUE)
          THEN /\ Erased(d)
               /\ Program(d, Copied(t))
               /\ obj' = IF t.chunk = 0
                         THEN [obj EXCEPT ![t.file].hdr = NextChunk(d)]
                         ELSE [obj EXCEPT ![t.file].tnode[t.chunk] = NextChunk(d)]
               /\ dev' = DeleteChunk(Allocated(d), OldChunk)
          ELSE dev' = DeleteChunk(d, OldChunk) /\ UNCHANGED <<nand, nseq, obj>>
    /\ UNCHANGED <<bad, mounted, todo, gcBlock, ops, cuts>>

(* yaffs_DoGenericObjectDeletion: a header in the directory "deleted", so  *)
(* that the log remembers, and then the object and its header are gone.    *)
DoGenericObjectDeletion(f, gc) ==
    IF obj[f].dir = "deleted" THEN <<Op("remove", f)>>
    ELSE gc \o <<UpdateObjectHeader(f, TRUE), Op("remove", f)>>

(* The cleanups at the end: a file that lost its last chunk goes.          *)
GcCleanup ==
    /\ Quiet /\ gcBlock # None
    /\ dev.blk[gcBlock].state # "collecting"
    /\ LET gone == {f \in Files : obj[f].here /\ obj[f].deleted /\ obj[f].nData = 0}
       IN /\ todo' = FoldSet(LAMBDA f, s : DoGenericObjectDeletion(f, <<>>) \o s, todo, gone)
          /\ obj' = [f \in Files |-> IF f \in gone THEN [obj[f] EXCEPT !.dir = "deleted"]
                                    ELSE obj[f]]
    /\ gcBlock' = None
    /\ UNCHANGED <<nand, nseq, bad, mounted, dev, ops, cuts>>

(* yaffs_BlockBecameDirty, for the blocks of a scan the newest first; a    *)
(* block that needs retiring, or fails to erase, is lost.                  *)
BlockBecameDirty ==
    /\ mounted
    /\ \E b \in InState(dev.blk, {"dirty"}) :
        /\ \A x \in InState(dev.blk, {"dirty"}) : dev.blk[x].seq <= dev.blk[b].seq
        /\ \/ /\ ~dev.blk[b].retire
              /\ nand' = [nand EXCEPT ![b] = <<>>]
              /\ dev' = [dev EXCEPT !.erased = @ + 1,
                                   !.blk[b] = [@ EXCEPT !.state = "empty", !.pagesInUse = 0,
                                               !.bits = {}, !.softDel = 0, !.shrink = FALSE]]
              /\ UNCHANGED bad
           \/ /\ dev.blk[b].retire \/ Cardinality(bad) < MaxBad
              /\ bad' = bad \cup {b}
              /\ dev' = [dev EXCEPT !.free = @ - ChunksPerBlock,
                                   !.blk[b] = [@ EXCEPT !.state = "dead", !.retire = FALSE]]
              /\ UNCHANGED nand
    /\ UNCHANGED <<nseq, mounted, obj, todo, gcBlock, ops, cuts>>

----------------------------------------------------------------------------
(* The steps of a call.                                                    *)

(* yaffs_WriteChunkDataToObject and the end of yaffs_WriteDataToFile       *)
WriteChunkData ==
    /\ Doing("put")
    /\ LET f == Head(todo).file
           k == Head(todo).chunk
           d == Ready(dev)
           old == obj[f].tnode[k]
       IN IF Fits(d, FALSE)
          THEN /\ Erased(d)
               /\ Program(d, Data(f, k, Head(todo).val))
               /\ dev' = DeleteChunk(Allocated(d), old)
               /\ obj' = [obj EXCEPT ![f] = [obj[f] EXCEPT
                            !.tnode[k] = NextChunk(d),
                            !.nData = IF old = None THEN @ + 1 ELSE @,
                            !.size = Max({@, k}),
                            !.dirty = TRUE]]
          ELSE dev' = d /\ obj' = [obj EXCEPT ![f].dirty = TRUE] /\ UNCHANGED <<nand, nseq>>
    /\ todo' = Rest
    /\ UNCHANGED <<bad, mounted, gcBlock, ops, cuts>>

(* yaffs_UpdateObjectHeader; only a new object has no right to the reserve, *)
(* and yaffs_MknodObject destroys it when there is no room.                *)
WriteHeader ==
    /\ Doing("header")
    /\ LET o == Head(todo)
           me == obj[o.file]
           d == Ready(dev)
       IN IF Fits(d, me.hdr # None)
          THEN /\ Erased(d)
               /\ Program(d, Header(o.file, me.dir, IF me.dir = "root" THEN me.size ELSE 0, o.shrink))
               /\ dev' = LET e == DeleteChunk(Allocated(d), me.hdr) IN
                         IF o.shrink THEN [e EXCEPT !.blk[d.alloc].shrink = TRUE] ELSE e
               /\ obj' = [obj EXCEPT ![o.file].hdr = NextChunk(d), ![o.file].dirty = FALSE]
               /\ todo' = Rest
          ELSE /\ dev' = d
               /\ todo' = IF me.hdr = None /\ me.dir = "root"
                          THEN <<Op("destroy", o.file)>> \o Rest ELSE Rest
               /\ UNCHANGED <<nand, nseq, obj>>
    /\ UNCHANGED <<bad, mounted, gcBlock, ops, cuts>>

(* yaffs_WriteNewChunkWithTagsToNAND meets a page that is not erased: the  *)
(* chunk stays allocated and the loop tries the next.                      *)
NextIsWrite ==
    \/ Doing("put") /\ Fits(Ready(dev), FALSE)
    \/ Doing("header") /\ Fits(Ready(dev), obj[Head(todo).file].hdr # None)
    \/ Collecting /\ OldOwned /\ ~OldSoftDeleted /\ Fits(Ready(dev), TRUE)

SkipUnerased ==
    /\ NextIsWrite
    /\ ~Erased(Ready(dev))
    /\ dev' = Allocated(Ready(dev))
    /\ UNCHANGED <<nand, nseq, bad, mounted, obj, todo, gcBlock, ops, cuts>>

(* One turn of the loop of yaffs_PruneResizedChunks                        *)
PruneResizedChunk ==
    /\ Doing("prune")
    /\ LET f == Head(todo).file
           k == Head(todo).chunk
       IN /\ dev' = DeleteChunk(dev, obj[f].tnode[k])
          /\ obj' = IF obj[f].tnode[k] = None THEN obj
                    ELSE [obj EXCEPT ![f].tnode[k] = None, ![f].nData = @ - 1]
    /\ todo' = Rest
    /\ UNCHANGED <<nand, nseq, bad, mounted, gcBlock, ops, cuts>>

(* yaffs_DeleteFile: data is soft-deleted and waits for the collector.     *)
SoftDeletedNotFree(d, chunks) ==
    [d EXCEPT !.blk = [b \in Blocks |->
                 [d.blk[b] EXCEPT !.softDel = @ + Cardinality({c \in chunks : c[1] = b})]]]
SoftDeleted(d, chunks) ==
    [d EXCEPT !.free = @ + Cardinality(chunks),
              !.blk = [b \in Blocks |->
                 [d.blk[b] EXCEPT !.softDel = @ + Cardinality({c \in chunks : c[1] = b})]]]

DeleteFile ==
    /\ Doing("destroy")
    /\ LET f == Head(todo).file
           chunks == {obj[f].tnode[k] : k \in 1..FileChunks} \ {None}
       IN IF obj[f].nData > 0
          THEN /\ obj' = [obj EXCEPT ![f].deleted = TRUE, ![f].tnode = NoObject.tnode]
               /\ dev' = SoftDeleted(dev, chunks)
               /\ todo' = Rest
          ELSE /\ obj' = [obj EXCEPT ![f].dir = "deleted"]
               /\ todo' = DoGenericObjectDeletion(f, <<Gc(1)>>) \o Rest
               /\ UNCHANGED dev
    /\ UNCHANGED <<nand, nseq, bad, mounted, gcBlock, ops, cuts>>

RemoveObject ==
    /\ Doing("remove")
    /\ dev' = DeleteChunk(dev, obj[Head(todo).file].hdr)
    /\ obj' = [obj EXCEPT ![Head(todo).file] = NoObject]
    /\ todo' = Rest
    /\ UNCHANGED <<nand, nseq, bad, mounted, gcBlock, ops, cuts>>

----------------------------------------------------------------------------
(* The calls of the user, as yaffs_fs.c makes them.                        *)

Idle == Quiet /\ todo = <<>> /\ gcBlock = None
Open(f) == obj[f].here /\ ~obj[f].deleted /\ obj[f].dir \in {"root", "unlinked"}

UserCall(steps) ==
    /\ Idle /\ ops < MaxOps
    /\ ops' = ops + 1
    /\ todo' = steps
    /\ UNCHANGED <<nand, nseq, bad, mounted, dev, gcBlock, cuts>>

Create(f) ==
    /\ ~obj[f].here
    /\ UserCall(<<Gc(1), UpdateObjectHeader(f, FALSE)>>)
    /\ obj' = [obj EXCEPT ![f] = [NoObject EXCEPT !.here = TRUE]]

WriteFile(f, k, v) ==
    /\ Open(f)
    /\ Sparse \/ k <= obj[f].size + 1
    /\ UserCall(<<Gc(1), [Op("put", f) EXCEPT !.chunk = k, !.val = v]>>)
    /\ UNCHANGED obj

FlushFile(f) ==
    /\ Open(f) /\ obj[f].dirty
    /\ UserCall(<<Gc(1), UpdateObjectHeader(f, FALSE)>>)
    /\ UNCHANGED obj

(* yaffs_ResizeFile, to a whole number of chunks                           *)
ResizeFile(f, n) ==
    LET shrink == n < obj[f].size
        prune == [i \in 1..(obj[f].size - n) |->
                    [Op("prune", f) EXCEPT !.chunk = obj[f].size + 1 - i]]
    IN /\ Open(f) /\ n # obj[f].size
       /\ Sparse \/ shrink
       /\ UserCall(<<Gc(1)>> \o prune \o
               IF obj[f].dir = "root" THEN <<Gc(1), UpdateObjectHeader(f, shrink)>> ELSE <<>>)
       /\ obj' = [obj EXCEPT ![f].size = n]

(* yaffs_UnlinkFile of a file whose inode is in memory                     *)
Unlink(f) ==
    /\ Open(f) /\ obj[f].dir = "root"
    /\ UserCall(<<Gc(1), UpdateObjectHeader(f, FALSE)>>)
    /\ obj' = [obj EXCEPT ![f].dir = "unlinked", ![f].dirty = TRUE]

(* yaffs_delete_inode: the last user of an unlinked file let go of it.     *)
DeleteInode(f) ==
    /\ Open(f) /\ obj[f].dir = "unlinked"
    /\ UserCall(<<Op("destroy", f)>>)
    /\ UNCHANGED obj

----------------------------------------------------------------------------
(* Power cuts and mounting.                                                *)

NoDevice == [blk |-> [b \in Blocks |-> [state |-> "unknown", seq |-> 0, bits |-> {},
                                        pagesInUse |-> 0, softDel |-> 0,
                                        shrink |-> FALSE, retire |-> FALSE]],
             alloc |-> None, page |-> 1, seq |-> 0, erased |-> 0, free |-> 0]

(* Data behind the end that the newest header gives: the collector copied  *)
(* the header, and so moved it behind data that was to extend the file.    *)
Stray == \E c \in Live : Tag(c).chunk > ScanSize(Tag(c).file)

PowerCut ==
    /\ mounted /\ cuts < MaxCuts
    /\ StrayCuts \/ ~Stray
    /\ mounted' = FALSE
    /\ cuts' = cuts + 1
    /\ dev' = NoDevice
    /\ obj' = [f \in Files |-> NoObject]
    /\ todo' = <<>>
    /\ gcBlock' = None
    /\ \/ UNCHANGED nand
       \/ /\ Ready(dev).page >= TornFrom /\ NextIsWrite /\ Erased(Ready(dev))
          /\ nand' = [nand EXCEPT ![Ready(dev).alloc] = Append(@, Torn)]
    /\ UNCHANGED <<nseq, bad, ops>>

(* yaffs_GutsInitialise without a checkpoint: the scan, and then the files *)
(* of the directories "unlinked" and "deleted" are destroyed.              *)
Mount ==
    /\ ~mounted
    /\ mounted' = TRUE
    /\ obj' = LET live == Live IN [f \in Files |-> ScannedObject(live, f)]
    /\ dev' = ScannedDevice
    /\ todo' = LET in(dir) == {f \in Files : obj'[f].here /\ obj'[f].dir = dir}
                   destroy(f) == Op("destroy", f)
               IN SetToSeq({destroy(f) : f \in in("unlinked")})
                  \o SetToSeq({destroy(f) : f \in in("deleted")})
    /\ UNCHANGED <<nand, nseq, bad, gcBlock, ops, cuts>>

(* An erased flash, or one to which a file of Prefill - 1 chunks has been   *)
(* appended.                                                               *)
Image(f, v) ==
    LET place(b, p) == (b - 1) * ChunksPerBlock + p
    IN [b \in Blocks |->
          [p \in 1..Cardinality({q \in Pages : place(b, q) <= Prefill}) |->
             IF place(b, p) = 1 THEN Header(f, "root", 0, FALSE)
             ELSE Data(f, place(b, p) - 1, v)]]

Init ==
    /\ \E f \in Files, v \in Values : nand = Image(f, v)
    /\ nseq = [b \in Blocks |-> IF nand[b] = <<>> THEN 0 ELSE b]
    /\ bad = {}
    /\ mounted = FALSE
    /\ dev = NoDevice
    /\ obj = [f \in Files |-> NoObject]
    /\ todo = <<>>
    /\ gcBlock = None
    /\ ops = 0 /\ cuts = 0

Next ==
    \/ CheckGarbageCollection \/ GcDrop \/ GcCopy \/ GcCleanup
    \/ BlockBecameDirty \/ WriteChunkData \/ WriteHeader \/ SkipUnerased
    \/ PruneResizedChunk \/ DeleteFile \/ RemoveObject
    \/ \E f \in Files : Create(f) \/ FlushFile(f) \/ Unlink(f) \/ DeleteInode(f)
    \/ \E f \in Files, k \in 1..FileChunks, v \in Values : WriteFile(f, k, v)
    \/ \E f \in Files, n \in 0..FileChunks : ResizeFile(f, n)
    \/ PowerCut \/ Mount

Spec == Init /\ [][Next]_vars

----------------------------------------------------------------------------
(* Properties.                                                             *)

(* yaffs_VerifyFreeChunks and yaffs_VerifyBlock between two calls: the     *)
(* running counts of erased blocks, free chunks and pages in use are what  *)
(* a count over the block table gives. (A block that died while it was     *)
(* collected keeps its count of soft deletions.)                           *)
Accounting ==
    Idle =>
        /\ dev.erased = Cardinality(InState(dev.blk, {"empty"}))
        /\ dev.free = CountFreeChunks(dev.blk)
        /\ \A b \in Blocks : /\ dev.blk[b].pagesInUse = Cardinality(dev.blk[b].bits)
                             /\ dev.blk[b].state # "dead" =>
                                    dev.blk[b].softDel <= dev.blk[b].pagesInUse

(* Between two calls what memory says of every file that has a name is     *)
(* what a scan of the flash would find: nothing removed comes back, nothing *)
(* written is lost, whatever was collected or erased in between.           *)
ScanFindsWhatMemoryHolds ==
    Idle => LET live == Live IN
        \A f \in Files : LET hdr == Found(live, f, 0) IN
            IF obj[f].here
            THEN /\ obj[f].hdr = hdr
                 /\ obj[f].dir = "root" =>
                        \A k \in 1..FileChunks : obj[f].tnode[k] = Found(live, f, k)
            ELSE hdr # None => Tag(hdr).dir = "deleted"

(* A scan never makes a file longer than memory has it, and once its       *)
(* header on the flash says its size, the size survives a power cut.       *)
SizeDurable ==
    Idle => \A f \in Files :
        obj[f].here /\ obj[f].dir = "root" =>
            /\ ScanSize(f) <= obj[f].size
            /\ Tag(obj[f].hdr).size = obj[f].size => ScanSize(f) = obj[f].size

(* The blocks in reserve are enough: the collector and the header of an    *)
(* object that has one always find a page (the "yaffs tragedy: no more     *)
(* erased blocks" of yaffs_FindBlockForAllocation does not happen).        *)
ReserveSuffices ==
    /\ Collecting /\ OldOwned /\ ~OldSoftDeleted => Fits(Ready(dev), TRUE)
    /\ Doing("header") /\ obj[Head(todo).file].hdr # None => Fits(Ready(dev), TRUE)

(* Every chunk a file in memory holds lies in a block that the next scan   *)
(* looks at ("This checking policy should catch that case").               *)
LiveIsScannable ==
    Idle => \A f \in Files, k \in 1..FileChunks :
        obj[f].here /\ obj[f].tnode[k] # None => NeedsScanning(obj[f].tnode[k][1])

(* What the flash holds for a user, whatever is in memory.                 *)
Names == {f \in Files : Named(f)}

(* The call that has still to take effect on the flash; calls on a file    *)
(* without a name take none.                                               *)
Call(o) ==
    IF o.op = "put" THEN [op |-> "write", file |-> o.file, chunk |-> o.chunk, val |-> o.val]
    ELSE IF obj[o.file].dir # "root" THEN [op |-> "remove", file |-> o.file]
    ELSE IF o.shrink THEN [op |-> "cut", file |-> o.file, keep |-> obj[o.file].size]
    ELSE [op |-> "create", file |-> o.file]
Effective(o) ==
    \/ o.op = "put" /\ Named(o.file)
    \/ o.op = "header" /\ Named(o.file) = (o.shrink \/ obj[o.file].dir # "root")
Pending ==
    IF \E i \in DOMAIN todo : Effective(todo[i])
    THEN Call(todo[Min({i \in DOMAIN todo : Effective(todo[i])})]) ELSE None
BeingCut(f, k) == \E i \in DOMAIN todo :
    todo[i] = UpdateObjectHeader(f, TRUE) /\ obj[f].dir = "root" /\ k > obj[f].size
Contents ==
    {<<Tag(c).file, Tag(c).chunk, Tag(c).val>> :
        c \in {d \in Live : /\ Tag(d).chunk > 0 /\ Named(Tag(d).file)
                            /\ ~BeingCut(Tag(d).file, Tag(d).chunk)}}

Store == INSTANCE YaffsStore WITH
    Chunks <- 1..FileChunks, Nobody <- None,
    names <- Names, data <- Contents, call <- Pending

(* The flash with the scan implements the store: power cuts and garbage    *)
(* collection are invisible but for a cut of a file that was being cut.    *)
ImplementsStore == Store!Spec
=============================================================================
