---------------------------- MODULE YaffsCheckpt ----------------------------
(***************************************************************************)
(* The checkpoint of YAFFS2 (yaffs_checkptrw.c and its callers): what      *)
(* unmounting stores of the block table, what the next mount believes of   *)
(* it, and how writing to the log in between takes it away.                *)
(*                                                                         *)
(* The log is abstracted to the sequence number and the number of pages of *)
(* each block, which is what the block table and the scan agree on.  As in *)
(* YaffsGuts a call is a list of steps, in "job", a step ends where the    *)
(* flash changes, and between two steps the power may go.                  *)
(***************************************************************************)
EXTENDS Integers, Sequences, FiniteSets, FiniteSetsExt

CONSTANTS
    NumBlocks,   \* internalEndBlock, internalStartBlock being 1
    BlockPages,  \* nChunksPerBlock
    StreamPages, \* pages a checkpoint fills
    Reserve,     \* nReservedBlocks
    MaxSeq,      \* bound: sequence numbers the log takes
    LowSpace     \* bound: may the log change when the checkpoint cannot be invalidated

ASSUME CkptAssumption ==
    /\ BlockPages \in Nat \ {0, 1} /\ Reserve \in Nat \ {0, 1}
    /\ NumBlocks \in Nat /\ NumBlocks > Reserve + 3
    /\ StreamPages \in Nat \ {0} /\ MaxSeq \in Nat /\ LowSpace \in BOOLEAN

VARIABLES
    flash,   \* block -> sequence of programmed pages
    mem,     \* yaffs_Device: the block table and its counts
    job      \* what is left of the call that holds grossLock

ckptVars == <<flash, mem, job>>

Parts == 1 .. NumBlocks
Nowhere == 0    \* no block

NoImage == [table |-> <<>>, alloc |-> Nowhere, seq |-> 0, erased |-> 0]
DataPage(n)        == [seq |-> n, id |-> 0, image |-> NoImage]
CkptPage(k, image) == [seq |-> 0, id |-> k, image |-> image]
HoldsCkpt(b) == flash[b] # <<>> /\ flash[b][1].id # 0
HoldsData(b) == flash[b] # <<>> /\ flash[b][1].id = 0

Info(state, n, k) == [state |-> state, seq |-> n, pages |-> k]
Having(table, state) == {b \in Parts : table[b].state = state}

NoMemory == [mounted |-> FALSE, table |-> <<>>, alloc |-> Nowhere, seq |-> 0,
             erased |-> 0, inCkpt |-> 0, isCkpt |-> FALSE]

----------------------------------------------------------------------------
(* Mounting.                                                               *)

(* yaffs_ScanBackwards: the block table that the flash gives.              *)
LastWritten == Max({0} \cup {flash[b][1].seq : b \in {x \in Parts : HoldsData(x)}})
ScannedInfo(b) ==
    IF HoldsCkpt(b) THEN Info("checkpoint", 0, 0)
    ELSE IF ~HoldsData(b) THEN Info("empty", 0, 0)
    ELSE Info(IF Len(flash[b]) < BlockPages /\ flash[b][1].seq = LastWritten
              THEN "allocating" ELSE "full", flash[b][1].seq, Len(flash[b]))
ScannedTable == [b \in Parts |-> ScannedInfo(b)]
AllocOf(table) == Max({Nowhere} \cup Having(table, "allocating"))

ScannedMemory ==
    [mounted |-> TRUE, table |-> ScannedTable, alloc |-> AllocOf(ScannedTable),
     seq |-> LastWritten, isCkpt |-> FALSE,
     erased |-> Cardinality(Having(ScannedTable, "empty")),
     inCkpt |-> Cardinality(Having(ScannedTable, "checkpoint"))]

(* A page of the stream, counted from 1 up: its block and its place there, *)
(* and back.                                                               *)
BlockOfPage(k) == (k - 1) \div BlockPages + 1
PageInBlock(k) == ((k - 1) % BlockPages) + 1
PageAt(r, p) == (r - 1) * BlockPages + p

(* yaffs_CheckpointFindNextCheckpointBlock: upwards from block to block,   *)
(* no more of them than checkpointMaxBlocks.  The reader stops after the   *)
(* last page.                                                              *)
MaxStreamBlocks == (NumBlocks - 1) \div 16 + 2
StreamRank(b) == Cardinality({x \in Parts : HoldsCkpt(x) /\ x <= b})
StreamUsed == {b \in Parts : HoldsCkpt(b) /\ StreamRank(b) <= BlockOfPage(StreamPages)}
StreamImage == flash[Min(StreamUsed)][1].image

(* yaffs_ReadCheckpointData: the pages are numbered without a gap, and the *)
(* sum says that all of them are of one checkpoint.                        *)
CheckpointValid ==
    /\ BlockOfPage(StreamPages) <= MaxStreamBlocks
    /\ Cardinality(StreamUsed) = BlockOfPage(StreamPages)
    /\ \A b \in StreamUsed, p \in 1 .. BlockPages :
          LET k == PageAt(StreamRank(b), p) IN
          k <= StreamPages => /\ p <= Len(flash[b])
                              /\ flash[b][p] = CkptPage(k, StreamImage)

(* yaffs_CheckpointDeviceToDevice, and what yaffs_CheckpointClose corrects:*)
(* the device was dumped before its own blocks were taken.                 *)
Remembered(image, marked) ==
    [mounted |-> TRUE, alloc |-> image.alloc, seq |-> image.seq, isCkpt |-> TRUE,
     table  |-> [b \in Parts |-> IF b \in marked /\ image.table[b].state = "empty"
                                 THEN Info("checkpoint", 0, 0) ELSE image.table[b]],
     erased |-> image.erased - Cardinality(StreamUsed),
     inCkpt |-> Cardinality(StreamUsed)]
\* Mutant of RestoredMemory: the blocks read are not marked.
RestoredUnmarked == Remembered(StreamImage, {})
RestoredMemory == Remembered(StreamImage, StreamUsed)

MountDevice ==
    /\ ~mem.mounted
    /\ mem' = IF CheckpointValid THEN RestoredMemory ELSE ScannedMemory
    /\ UNCHANGED <<flash, job>>

----------------------------------------------------------------------------
(* Invalidating.                                                           *)

Do(op, b) == [op |-> op, blk |-> b, page |-> 0, image |-> NoImage]
Dump(k, b, image) == [op |-> "dump", blk |-> b, page |-> k, image |-> image]

CheckpointSpaceOk == mem.erased - Reserve > 0
NeedsInvalidation == mem.isCkpt \/ mem.inCkpt > 0

(* yaffs_InvalidateCheckpoint, before the steps of the call itself: when   *)
(* space is low the blocks stay as they are.                               *)
Erasing == IF NeedsInvalidation /\ CheckpointSpaceOk THEN <<Do("erase", Nowhere)>> ELSE <<>>
\* Mutant of Invalidating: the call changes the flash first.
InvalidatingLate(steps) == steps \o Erasing
Invalidating(steps) == Erasing \o steps

Resting == mem.mounted /\ job = <<>>
WithinBound == LowSpace \/ (NeedsInvalidation => CheckpointSpaceOk)
At(op) == mem.mounted /\ job # <<>> /\ Head(job).op = op

(* yaffs_CheckpointErase: one block after the other, from below.           *)
EraseCheckpoint ==
    /\ At("erase")
    /\ LET C == Having(mem.table, "checkpoint") IN
       IF C = {}
       THEN mem' = [mem EXCEPT !.inCkpt = 0] /\ job' = Tail(job) /\ UNCHANGED flash
       ELSE /\ flash' = [flash EXCEPT ![Min(C)] = <<>>]
            /\ mem' = [mem EXCEPT !.table[Min(C)] = Info("empty", 0, 0),
                                  !.erased = @ + 1]
            /\ UNCHANGED job

----------------------------------------------------------------------------
(* What changes the log: a chunk written (yaffs_WriteNewChunkWithTagsToNAND)*)
(* and a block erased that holds nothing any more (yaffs_BlockBecameDirty).*)

WriteNewChunk ==
    /\ Resting /\ WithinBound
    /\ mem' = [mem EXCEPT !.isCkpt = FALSE]
    /\ job' = Invalidating(<<Do("program", Nowhere)>>)
    /\ UNCHANGED flash

(* yaffs_AllocateChunk and the write; the rotor may give any empty block.  *)
TargetBlocks == IF mem.alloc # Nowhere THEN {mem.alloc}
                ELSE IF mem.erased < 1 THEN {} ELSE Having(mem.table, "empty")

ProgramChunk ==
    /\ At("program")
    /\ job' = Tail(job)
    /\ IF TargetBlocks = {} THEN UNCHANGED <<flash, mem>>
       ELSE \E b \in TargetBlocks :
            LET fresh == mem.alloc = Nowhere
                n == IF fresh THEN mem.seq + 1 ELSE mem.seq
                k == mem.table[b].pages + 1
            IN /\ n <= MaxSeq
               /\ flash' = [flash EXCEPT ![b] = Append(@, DataPage(n))]
               /\ mem' = [mem EXCEPT
                    !.seq = n,
                    !.alloc = IF k = BlockPages THEN Nowhere ELSE b,
                    !.erased = IF fresh THEN @ - 1 ELSE @,
                    !.table[b] = Info(IF k = BlockPages THEN "full" ELSE "allocating", n, k)]

BlockBecomesDirty(b) ==
    /\ Resting /\ WithinBound
    /\ mem.table[b].state = "full"
    /\ mem' = [mem EXCEPT !.isCkpt = FALSE, !.table[b].state = "dirty"]
    /\ job' = Invalidating(<<Do("discard", b)>>)
    /\ UNCHANGED flash

EraseDirty ==
    /\ At("discard")
    /\ LET b == Head(job).blk IN
       /\ flash' = [flash EXCEPT ![b] = <<>>]
       /\ mem' = [mem EXCEPT !.table[b] = Info("empty", 0, 0), !.erased = @ + 1]
    /\ job' = Tail(job)

----------------------------------------------------------------------------
(* Unmounting: yaffs_put_super, the only caller of yaffs_CheckpointSave.   *)

Leave == mem' = NoMemory /\ job' = <<>>

PutSuper ==
    /\ Resting /\ WithinBound
    /\ IF mem.isCkpt THEN Leave
       ELSE /\ job' = Invalidating(<<Do("open", Nowhere)>>)
            /\ UNCHANGED mem
    /\ UNCHANGED flash

(* yaffs_CheckpointOpen.  A refusal goes on to yaffs_CheckpointClose, which*)
(* finds no block to look at unless space is low (there it would follow a  *)
(* null list), and the memory is released.                                 *)
OpenCheckpoint ==
    /\ At("open")
    /\ IF CheckpointSpaceOk
       THEN /\ job' = <<Do("erase", Nowhere), Dump(1, Nowhere, NoImage)>>
            /\ UNCHANGED mem
       ELSE Leave
    /\ UNCHANGED flash

(* yaffs_CheckpointFindNextErasedBlock, above the block filled last        *)
NextErased(b) ==
    IF CheckpointSpaceOk THEN {x \in Having(mem.table, "empty") : x > b} ELSE {}

Image(m) == [table |-> m.table, alloc |-> m.alloc, seq |-> m.seq, erased |-> m.erased]

(* yaffs_CheckpointFlushBuffer.  The table is dumped while the first block *)
(* is taken: its entry may say so or not.  Without a block the stream      *)
(* stays incomplete.  yaffs_CheckpointClose after the last page changes    *)
(* only the memory that is then released.                                  *)
FlushBuffer ==
    /\ At("dump")
    /\ LET k == Head(job).page
           first == PageInBlock(k) = 1
           next == NextErased(Head(job).blk)
       IN IF first /\ next = {} THEN Leave /\ UNCHANGED flash
          ELSE LET b == IF first THEN Min(next) ELSE Head(job).blk
                   m == IF first
                        THEN [mem EXCEPT !.table[b] = Info("checkpoint", 0, 0), !.inCkpt = @ + 1]
                        ELSE mem
               IN \E image \in IF k = 1 THEN {Image(mem), Image(m)} ELSE {Head(job).image} :
                    /\ flash' = [flash EXCEPT ![b] = Append(@, CkptPage(k, image))]
                    /\ IF k = StreamPages THEN Leave
                       ELSE mem' = m /\ job' = <<Dump(k + 1, b, image)>>

LosePower == mem.mounted /\ Leave /\ UNCHANGED flash

----------------------------------------------------------------------------
CkptInit ==
    /\ flash = [b \in Parts |-> <<>>]
    /\ mem = NoMemory
    /\ job = <<>>

CkptNext ==
    \/ MountDevice \/ PutSuper \/ LosePower
    \/ WriteNewChunk \/ \E b \in Parts : mem.mounted /\ BlockBecomesDirty(b)
    \/ EraseCheckpoint \/ ProgramChunk \/ EraseDirty
    \/ OpenCheckpoint \/ FlushBuffer

CkptSpec == CkptInit /\ [][CkptNext]_ckptVars

(* Between calls the block table in memory is the one a scan of the flash  *)
(* would regenerate, whether the mount scanned or believed a checkpoint,   *)
(* and however often the power went while one was written or erased.       *)
RestoredIsCurrent ==
    Resting => /\ mem.table = ScannedTable
               /\ mem.alloc = AllocOf(ScannedTable)
               /\ mem.seq >= LastWritten

(* The running counts of erased blocks and of checkpoint blocks are those  *)
(* of the table, as yaffs_VerifyBlocks asks (yaffs_guts.c:513-521).        *)
BlocksCounted ==
    Resting => /\ mem.erased = Cardinality(Having(mem.table, "empty"))
               /\ mem.inCkpt = Cardinality(Having(mem.table, "checkpoint"))
=============================================================================
