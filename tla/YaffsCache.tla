----------------------------- MODULE YaffsCache -----------------------------
(***************************************************************************)
(* The short-operation cache of yaffs_guts.c: a few chunks of files that   *)
(* were read or written in part, in front of the log.                      *)
(*                                                                         *)
(* A chunk has two halves, a short operation is about one of them; they    *)
(* are numbered through the file.  Of the data only this is kept: whether  *)
(* a copy of a half, in the log or in the cache, is what the user wrote    *)
(* there last (or the zeros of a hole, if that is newer).  The calls run   *)
(* one at a time under grossLock.                                          *)
(***************************************************************************)
EXTENDS Naturals, FiniteSets

CONSTANTS
    CachedFiles,    \* objects that may be files; a freed one is used again
    NChunks,        \* chunks of a file
    NCaches,        \* nShortOpCaches
    FailOverDirty   \* bound: may writing a whole chunk fail while it is dirty in the cache

ASSUME CacheAssumption ==
    NChunks \in Nat \ {0} /\ NCaches \in Nat \ {0} /\ FailOverDirty \in BOOLEAN

Halves == 1 .. 2 * NChunks
HalvesOf(k) == {2 * k - 1, 2 * k}

VARIABLES
    file,     \* "none", "named" or, soft-deleted, "deleted"
    fileSize, \* in halves
    hdrSize,  \* as the header on the flash has it
    inDirty,  \* yaffs_Object.dirty
    inLog,    \* halves of which the log holds the last version
    srCache   \* the chunks held

cacheVars == <<file, fileSize, hdrSize, inDirty, inLog, srCache>>

(* In "good" are the halves of which the entry holds the last version,     *)
(* "used" is its place in the order of lastUse, from 1 up.                 *)
Entry(f, k, good, d, u) ==
    [file |-> f, chunk |-> k, good |-> good, dirty |-> d, used |-> u]
CacheOf(c, f) == {e \in c : e.file = f}
DirtyOf(c, f) == {e \in CacheOf(c, f) : e.dirty}
CachedChunk(c, f, k) == {e \in CacheOf(c, f) : e.chunk = k}

Ranked(c) == {[e EXCEPT !.used = Cardinality({x \in c : x.used <= e.used})] : e \in c}
Without(c, E) == Ranked(c \ E)
Using(c, E) == Ranked((c \ E) \cup {[e EXCEPT !.used = NCaches + 1] : e \in E})
Oldest(c) == CHOOSE e \in c : e.used = 1

(* The user has given these halves a new content: copies of them are old.  *)
Outdated(c, f, H) ==
    {IF e.file = f THEN [e EXCEPT !.good = @ \ H] ELSE e : e \in c}

----------------------------------------------------------------------------
(* Cache and log together, as the functions below pass them on.            *)

Now == [cache |-> srCache, log |-> inLog]

(* yaffs_FlushFilesChunkCache, which may use the reserve of the log: what  *)
(* is dirty is written and leaves the cache.                               *)
FlushFilesChunkCache(s, f) ==
    LET D == DirtyOf(s.cache, f) IN
    [cache |-> Without(s.cache, D),
     log |-> [s.log EXCEPT ![f] =
                (@ \ UNION {HalvesOf(e.chunk) : e \in D})
                \cup UNION {e.good : e \in D}]]

(* yaffs_GrabChunkCache: a free entry, or the one not used for longest; if *)
(* that is dirty all of its file is flushed.                               *)
GrabChunkCache(s) ==
    LET e == Oldest(s.cache) IN
    IF Cardinality(s.cache) < NCaches THEN s
    ELSE IF e.dirty THEN FlushFilesChunkCache(s, e.file)
    ELSE [s EXCEPT !.cache = Without(@, {e})]

(* The entry of a chunk, found or loaded, as the one used last.            *)
WithChunk(s, f, k) ==
    LET E == CachedChunk(s.cache, f, k)
        g == GrabChunkCache(s)
    IN IF E # {}
       THEN [s EXCEPT !.cache = Using(@, E)]
       ELSE [g EXCEPT !.cache = Using(@, {Entry(f, k, g.log[f] \cap HalvesOf(k), FALSE, 0)})]

InvalidateChunkCache(c, f, k) == Without(c, CachedChunk(c, f, k))
InvalidateWholeChunkCache(c, f) == Without(c, CacheOf(c, f))

(* yaffs_UpdateObjectHeader: the object is clean then, unless data of it   *)
(* are still in the cache.                                                 *)
\* Mutant of StaysDirty: a header is all that a dirty object needs.
StaysDirtyNever(c, f) == FALSE
StaysDirty(c, f) == inDirty[f] /\ DirtyOf(c, f) # {}
UpdateObjectHeader(c, f, size) ==
    /\ hdrSize' = [hdrSize EXCEPT ![f] = size]
    /\ inDirty' = [inDirty EXCEPT ![f] = StaysDirty(c, f)]

Become(s) == srCache' = s.cache /\ inLog' = s.log

----------------------------------------------------------------------------
(* yaffs_ReadDataFromFile of less than a chunk.                            *)
ReadShort(f, k) ==
    /\ file[f] = "named"
    /\ Become(WithChunk(Now, f, k))
    /\ UNCHANGED <<file, fileSize, hdrSize, inDirty>>

(* A half of a cached chunk is written to.                                 *)
Written(c, f, k, h) ==
    {IF e \in CachedChunk(c, f, k)
     THEN Entry(f, k, e.good \cup {h}, TRUE, e.used) ELSE e : e \in c}

(* yaffs_WriteDataToFile of half a chunk: without room in the log (room is *)
(* what yaffs_CheckSpaceForAllocation finds) only a chunk that is dirty    *)
(* already is written to.                                                  *)
WriteShort(f, h, room) ==
    LET k == (h + 1) \div 2
        s == WithChunk(Now, f, k)
    IN /\ file[f] = "named"
       /\ inDirty' = [inDirty EXCEPT ![f] = TRUE]
       /\ IF room \/ \E e \in CachedChunk(srCache, f, k) : e.dirty
          THEN /\ srCache' = Written(s.cache, f, k, h)
               /\ inLog' = [s.log EXCEPT ![f] = @ \ {h}]
               /\ fileSize' = [fileSize EXCEPT ![f] = IF h > @ THEN h ELSE @]
          ELSE UNCHANGED <<srCache, inLog, fileSize>>
       /\ UNCHANGED <<file, hdrSize>>

(* The same of a whole chunk, which goes past the cache.  The entry of the *)
(* chunk is dropped, also when the write fails.                            *)
\* Mutant of Overwritten: the cache keeps its entry.
OverwrittenKept(c, f, k) == c
Overwritten(c, f, k) == InvalidateChunkCache(c, f, k)

WriteWhole(f, k, room) ==
    /\ file[f] = "named"
    /\ inDirty' = [inDirty EXCEPT ![f] = TRUE]
    /\ IF room
       THEN /\ srCache' = Overwritten(Outdated(srCache, f, HalvesOf(k)), f, k)
            /\ inLog' = [inLog EXCEPT ![f] = @ \cup HalvesOf(k)]
            /\ fileSize' = [fileSize EXCEPT ![f] = IF 2 * k > @ THEN 2 * k ELSE @]
       ELSE /\ FailOverDirty \/ ~\E e \in CachedChunk(srCache, f, k) : e.dirty
            /\ srCache' = Overwritten(srCache, f, k)
            /\ UNCHANGED <<inLog, fileSize>>
    /\ UNCHANGED <<file, hdrSize>>

(* yaffs_ResizeFile: the cache is flushed and emptied of the file; what is *)
(* cut off, the rest of a chunk included, reads as zeros from then on.     *)
Resize(f, size) ==
    LET s == FlushFilesChunkCache(Now, f)
        c == InvalidateWholeChunkCache(s.cache, f)
        gone == {h \in Halves : h > size}
    IN /\ file[f] = "named"
       /\ IF size < fileSize[f]
          THEN Become([cache |-> Outdated(c, f, gone), log |-> [s.log EXCEPT ![f] = @ \cup gone]])
          ELSE Become([s EXCEPT !.cache = c])
       /\ fileSize' = [fileSize EXCEPT ![f] = size]
       /\ IF size = fileSize[f] THEN UNCHANGED <<hdrSize, inDirty>>
          ELSE UpdateObjectHeader(c, f, size)
       /\ UNCHANGED file

(* Attributes and names: a header is written while data may be cached.     *)
SetAttributes(f) ==
    /\ file[f] = "named"
    /\ UpdateObjectHeader(srCache, f, fileSize[f])
    /\ UNCHANGED <<file, fileSize, inLog, srCache>>

(* close and fsync: nothing is done for an object that is not dirty.       *)
FlushFile(f) ==
    /\ file[f] = "named" /\ inDirty[f]
    /\ LET s == FlushFilesChunkCache(Now, f) IN
       Become(s) /\ UpdateObjectHeader(s.cache, f, fileSize[f])
    /\ UNCHANGED <<file, fileSize>>

(* yaffs_DeleteFile: a file with data is deleted softly and its entries    *)
(* stay; the last garbage collection of its chunks frees the object, which *)
(* drops them (yaffs_DoGenericObjectDeletion).                             *)
DeleteFile(f) ==
    /\ file[f] = "named"
    /\ file' = [file EXCEPT ![f] = "deleted"]
    /\ UNCHANGED <<fileSize, hdrSize, inDirty, inLog, srCache>>

FreeObject(f) ==
    /\ file[f] = "deleted"
    /\ file' = [file EXCEPT ![f] = "none"]
    /\ srCache' = InvalidateWholeChunkCache(srCache, f)
    /\ UNCHANGED <<fileSize, hdrSize, inDirty, inLog>>

(* A new file takes an object off the free list; all of it is a hole.      *)
CreateFile(f) ==
    /\ file[f] = "none"
    /\ file' = [file EXCEPT ![f] = "named"]
    /\ fileSize' = [fileSize EXCEPT ![f] = 0]
    /\ hdrSize' = [hdrSize EXCEPT ![f] = 0]
    /\ inDirty' = [inDirty EXCEPT ![f] = FALSE]
    /\ inLog' = [inLog EXCEPT ![f] = Halves]
    /\ srCache' = Outdated(srCache, f, Halves)

----------------------------------------------------------------------------
CacheInit ==
    /\ file = [f \in CachedFiles |-> "none"]
    /\ fileSize = [f \in CachedFiles |-> 0] /\ hdrSize = [f \in CachedFiles |-> 0]
    /\ inDirty = [f \in CachedFiles |-> FALSE]
    /\ inLog = [f \in CachedFiles |-> Halves]
    /\ srCache = {}

CacheNext ==
    \E f \in CachedFiles :
      \/ \E k \in 1 .. NChunks : ReadShort(f, k)
      \/ \E k \in 1 .. NChunks, room \in BOOLEAN : WriteWhole(f, k, room)
      \/ \E h \in Halves, room \in BOOLEAN : WriteShort(f, h, room)
      \/ \E size \in 0 .. 2 * NChunks : Resize(f, size)
      \/ SetAttributes(f) \/ FlushFile(f)
      \/ CreateFile(f) \/ DeleteFile(f) \/ FreeObject(f)

CacheSpec == CacheInit /\ [][CacheNext]_cacheVars

(* A read gets what was written last, from the cache if the chunk is there *)
(* and from the log otherwise, after any mixture of short and whole writes,*)
(* resizes, evictions and reuse of freed objects.                          *)
ReadsLatest ==
    \A f \in CachedFiles : file[f] = "named" => \A k \in 1 .. NChunks :
        LET E == CachedChunk(srCache, f, k) IN
        /\ E = {} => HalvesOf(k) \subseteq inLog[f]
        /\ \A e \in E : HalvesOf(k) = e.good

(* A file that is not marked dirty, for which close and fsync do nothing,  *)
(* has all of its data and its size on the flash.                          *)
CleanIsStored ==
    \A f \in CachedFiles : file[f] = "named" /\ ~inDirty[f] =>
        inLog[f] = Halves /\ hdrSize[f] = fileSize[f]
=============================================================================
