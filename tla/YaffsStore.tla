----------------------------- MODULE YaffsStore -----------------------------
(***************************************************************************)
(* What yaffs_guts.c promises of the flash across power cuts: a map from   *)
(* the chunks of the named files to the data written last.  Creating a     *)
(* file, writing a chunk and removing a file each happen in one instant of *)
(* the call, or not at all, and survive a power cut from then on.  Cutting *)
(* a file short is not atomic: a power cut in the middle of it may leave   *)
(* anything in the chunks that were being cut off, and only in those.      *)
(***************************************************************************)
EXTENDS Naturals

CONSTANTS
    Files,    \* the regular files (object numbers) a user may create
    Chunks,   \* numbers of a file's data chunks, 1..n
    Values,   \* data a chunk may hold
    Nobody    \* no call

VARIABLES
    names,    \* files found in the root directory
    data,     \* <<file, chunk, value>> for every chunk that is not a hole
    call      \* the call of a user that has still to take effect, or Nobody

vars == <<names, data, call>>

Calls ==
    [op : {"create", "remove"}, file : Files]
    \cup [op : {"write"}, file : Files, chunk : Chunks, val : Values]
    \cup [op : {"cut"}, file : Files, keep : Chunks \cup {0}]

TypeOK ==
    /\ names \subseteq Files
    /\ data \subseteq names \X Chunks \X Values
    /\ call \in Calls \cup {Nobody}

Init == names = {} /\ data = {} /\ call = Nobody

(* The data without the chunks that the call c cuts off.                   *)
Kept(d, c) == {x \in d : c.op = "cut" /\ x[1] = c.file => x[2] <= c.keep}

(* A user calls; the chunks a file is to lose can be read no more.         *)
Begin ==
    /\ call = Nobody
    /\ call' \in Calls
    /\ call'.op # "create" => call'.file \in names
    /\ data' = Kept(data, call')
    /\ UNCHANGED names

Created ==
    /\ call.op = "create"
    /\ names' = names \cup {call.file}
    /\ UNCHANGED data

Removed ==
    /\ call.op = "remove"
    /\ names' = names \ {call.file}
    /\ data' = {x \in data : x[1] # call.file}

Written ==
    /\ call.op = "write"
    /\ data' = {x \in data : x[1] # call.file \/ x[2] # call.chunk}
               \cup {<<call.file, call.chunk, call.val>>}
    /\ UNCHANGED names

(* The call failed, or the power went before it took effect; a file is cut *)
(* short already.                                                          *)
Over == UNCHANGED <<names, data>>

(* The power went while a file was being cut short.                        *)
CutTorn ==
    /\ call.op = "cut"
    /\ data' \subseteq names \X Chunks \X Values
    /\ Kept(data', call) = data
    /\ UNCHANGED names

End ==
    /\ call # Nobody
    /\ call' = Nobody
    /\ Created \/ Removed \/ Written \/ Over \/ CutTorn

Next == Begin \/ End

Spec == Init /\ [][Next]_vars
=============================================================================
