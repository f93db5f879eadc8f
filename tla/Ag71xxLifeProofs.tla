-------------------------- MODULE Ag71xxLifeProofs ---------------------------
(***************************************************************************)
(* Proofs about Ag71xxLife, for any kinds of board, ring size and number   *)
(* of events: nobody works on rings that are freed, and the engine is      *)
(* stopped when an ifdown clears them.                                     *)
(*                                                                         *)
(* The argument: the rings are allocated exactly while napi_disable does   *)
(* not hold NAPI_STATE_SCHED (Owned), and the two threads that open and    *)
(* stop are never both inside (Turns), although no lock of the driver      *)
(* keeps the restart out of an ifup or ifdown.                             *)
(***************************************************************************)
EXTENDS Ag71xxLife, TLAPS

(* Restarts by stop and open happen on interfaces that stay up, and an     *)
(* interface that is up has nobody in ifup or ifdown.                      *)
Turns ==
  /\ pc["work"] # "idle" => /\ board.watchdog /\ ~board.ar724x
                            /\ up /\ pc["rtnl"] = "idle"
  /\ restartWork => board.ar724x \/ (board.watchdog /\ up)
  /\ stack => up
  /\ up => pc["rtnl"] = "idle"

(* The rings are there exactly while a poll may be scheduled.              *)
Owned ==
  /\ napi = "held" <=> rings # "live"
  /\ \A t \in Threads : pc[t] = "open"    => napi = "held"
  /\ \A t \in Threads : pc[t] = "start"   => napi # "held"
  /\ \A t \in Threads : pc[t] = "disable" => ~regs.ring
  /\ ~up /\ pc["rtnl"] = "idle" => napi = "held"
  /\ up /\ ~board.watchdog => napi # "held"
  /\ regs.ring => rings = "live"

(* From the ag71xx_hw_stop of an ifdown on nobody starts the engine.       *)
Down ==
  pc["rtnl"] = "disable" => ~polling /\ ~regs.tx /\ ~regs.rx

Room == unsent + sent <= TxThresStop

(* The parts of the types that are proved apart.                           *)
PcType == pc \in [Threads -> {"idle", "open", "start", "stop", "disable"}]

CountTypes ==
  /\ unsent \in 0..TxThresStop /\ sent \in 0..TxThresStop
  /\ closes \in 0..MaxCloses /\ openFails \in 0..MaxOpenFails
  /\ flaps \in 0..MaxFlaps /\ hangs \in 0..MaxHangs
  /\ Room

NetTypes ==
  /\ up \in BOOLEAN /\ stack \in BOOLEAN
  /\ queueStopped \in BOOLEAN /\ carrier \in BOOLEAN
  /\ cable \in BOOLEAN /\ polling \in BOOLEAN /\ link \in BOOLEAN
  /\ doubleFree \in BOOLEAN

FlagTypes ==
  /\ board \in Boards
  /\ rings \in {"none", "live", "freed"}
  /\ regs \in [tx : BOOLEAN, rx : BOOLEAN, int : BOOLEAN, ring : BOOLEAN]
  /\ status \in [tx : BOOLEAN, rx : BOOLEAN]
  /\ napi \in {"free", "scheduled", "held"}
  /\ restartWork \in BOOLEAN

LifeInv == TypeOK /\ Room /\ Turns /\ Owned /\ Down

-----------------------------------------------------------------------------
Regs == [tx : BOOLEAN, rx : BOOLEAN, int : BOOLEAN, ring : BOOLEAN]

(* ag71xx_hw_stop and ag71xx_hw_start on the registers.                    *)
LEMMA StoppedIs ==
  ASSUME NEW r \in Regs
  PROVE  /\ Stopped(r) \in Regs
         /\ Stopped(r).tx = FALSE /\ Stopped(r).rx = FALSE
         /\ Stopped(r).ring = r.ring
<1> DEFINE a == [r EXCEPT !.tx = FALSE]
           b == [a EXCEPT !.rx = FALSE]
           c == [b EXCEPT !.int = FALSE]
<1>1. a \in Regs /\ a.tx = FALSE /\ a.ring = r.ring
  BY DEF Regs
<1> HIDE DEF a
<1>2. b \in Regs /\ b.tx = FALSE /\ b.rx = FALSE /\ b.ring = r.ring
  BY <1>1 DEF Regs
<1> HIDE DEF b
<1>3. c \in Regs /\ c.tx = FALSE /\ c.rx = FALSE /\ c.ring = r.ring
  BY <1>2 DEF Regs
<1>4. Stopped(r) = c
  BY DEF Stopped, a, b
<1> QED  BY <1>3, <1>4

LEMMA StartedIs ==
  ASSUME NEW r \in Regs, IsAr724x \in BOOLEAN
  PROVE  Started(r) \in Regs /\ Started(r).ring = r.ring
<1> DEFINE a == [r EXCEPT !.tx = @ /\ ~IsAr724x]
           b == [a EXCEPT !.rx = TRUE]
           c == [b EXCEPT !.int = TRUE]
<1>1. a \in Regs /\ a.ring = r.ring
  BY DEF Regs
<1> HIDE DEF a
<1>2. b \in Regs /\ b.ring = r.ring
  BY <1>1 DEF Regs
<1> HIDE DEF b
<1>3. c \in Regs /\ c.ring = r.ring
  BY <1>2 DEF Regs
<1>4. Started(r) = c
  BY DEF Started, a, b
<1> QED  BY <1>3, <1>4

LEMMA RingSet ==
  ASSUME NEW r \in Regs, NEW v \in BOOLEAN
  PROVE  /\ [r EXCEPT !.ring = v] \in Regs
         /\ [r EXCEPT !.ring = v].ring = v
         /\ [r EXCEPT !.ring = v].tx = r.tx
         /\ [r EXCEPT !.ring = v].rx = r.rx
  BY DEF Regs

LEMMA BoardType ==
  ASSUME TypeOK
  PROVE  IsAr724x \in BOOLEAN /\ board.watchdog \in BOOLEAN
         /\ board.ar724x \in BOOLEAN /\ HasLinkPoll \in BOOLEAN
  BY LifeAssumption DEF TypeOK, IsAr724x, HasLinkPoll

LEMMA InitLife == Init => LifeInv
<1> SUFFICES ASSUME Init  PROVE LifeInv
  OBVIOUS
<1>1. TypeOK
  <2>1. PcType
    BY DEF Init, PcType
  <2>2. CountTypes
    BY LifeAssumption DEF Init, CountTypes, Room
  <2>3. FlagTypes
    BY DEF Init, FlagTypes, Quiet
  <2>4. NetTypes
    BY DEF Init, NetTypes, Quiet
  <2> QED  BY <2>1, <2>2, <2>3, <2>4
           DEF TypeOK, PcType, CountTypes, NetTypes, FlagTypes
<1>2. Room /\ Turns /\ Down
  BY <1>1, LifeAssumption DEF Init, Room, Turns, Down, Threads
<1>3. Owned
  BY DEF Init, Owned, Threads
<1> QED  BY <1>1, <1>2, <1>3 DEF LifeInv

(* The link comes and goes: the engine, the interrupts and the carrier.    *)
LEMMA AdjustType ==
  ASSUME TypeOK, NEW l \in BOOLEAN, LinkAdjust(l)
  PROVE  /\ link' \in BOOLEAN /\ carrier' \in BOOLEAN
         /\ regs' \in Regs /\ regs'.ring = regs.ring
         /\ status' \in [tx : BOOLEAN, rx : BOOLEAN]
         /\ ~l => regs'.tx = FALSE /\ regs'.rx = FALSE
<1>1. regs \in Regs /\ IsAr724x \in BOOLEAN
  BY BoardType DEF TypeOK, Regs
<1>2. CASE l
  BY <1>1, <1>2, StartedIs DEF LinkAdjust, TypeOK, Quiet
<1>3. CASE ~l
  BY <1>1, <1>3, StoppedIs DEF LinkAdjust, TypeOK
<1> QED  BY <1>2, <1>3

LEMMA LinkStep ==
  ASSUME LifeInv, LinkPoll \/ SpeedChange \/ CableChange \/ LinkWatch
  PROVE  LifeInv'
<1> USE DEF LifeInv, netVars, linkVars, ringVars, hwVars, bounds
<1>1. CASE LinkPoll
  <2>1. LinkAdjust(cable) /\ cable \in BOOLEAN
    BY <1>1 DEF LinkPoll, TypeOK
  <2>2. TypeOK' /\ Room'
    <3>1. PcType'
      BY <1>1, <2>1, AdjustType DEF LinkPoll, Regs, TypeOK, PcType
    <3>2. CountTypes'
      BY <1>1, <2>1, AdjustType, LifeAssumption
         DEF LinkPoll, Regs, TypeOK, Room, CountTypes
    <3>3. FlagTypes'
      BY <1>1, <2>1, AdjustType DEF LinkPoll, Regs, TypeOK, FlagTypes
    <3>4. NetTypes'
      BY <1>1, <2>1, AdjustType DEF LinkPoll, Regs, TypeOK, NetTypes
    <3> QED  BY <3>1, <3>2, <3>3, <3>4
           DEF TypeOK, PcType, CountTypes, NetTypes, FlagTypes
  <2>3. Turns' /\ Down'
    BY <1>1 DEF LinkPoll, Turns, Down
  <2>4. Owned'
    BY <1>1, <2>1, AdjustType DEF LinkPoll, Owned
  <2> QED  BY <2>2, <2>3, <2>4
<1>2. CASE SpeedChange
  <2>1. LinkAdjust(TRUE)
    BY <1>2 DEF SpeedChange
  <2>2. TypeOK' /\ Room'
    <3>1. PcType'
      BY <1>2, <2>1, AdjustType, LifeAssumption
         DEF SpeedChange, Regs, TypeOK, PcType
    <3>2. CountTypes'
      BY <1>2, <2>1, AdjustType, LifeAssumption
         DEF SpeedChange, Regs, TypeOK, Room, CountTypes
    <3>3. FlagTypes'
      BY <1>2, <2>1, AdjustType, LifeAssumption
         DEF SpeedChange, Regs, TypeOK, FlagTypes
    <3>4. NetTypes'
      BY <1>2, <2>1, AdjustType, LifeAssumption
         DEF SpeedChange, Regs, TypeOK, NetTypes
    <3> QED  BY <3>1, <3>2, <3>3, <3>4
           DEF TypeOK, PcType, CountTypes, NetTypes, FlagTypes
  <2>3. Turns' /\ Down'
    BY <1>2 DEF SpeedChange, Turns, Down
  <2>4. Owned'
    BY <1>2, <2>1, AdjustType DEF SpeedChange, Owned
  <2> QED  BY <2>2, <2>3, <2>4
<1>3. CASE CableChange
  BY <1>3, LifeAssumption DEF CableChange, TypeOK, Room, Turns, Owned, Down
<1>4. CASE LinkWatch
  <2>1. TypeOK' /\ Room' /\ Down'
    <3>1. PcType'
      BY <1>4 DEF LinkWatch, TypeOK, PcType
    <3>2. CountTypes'
      BY <1>4, LifeAssumption DEF LinkWatch, TypeOK, Room, CountTypes
    <3>3. FlagTypes'
      BY <1>4 DEF LinkWatch, TypeOK, FlagTypes
    <3>4. NetTypes'
      BY <1>4 DEF LinkWatch, TypeOK, NetTypes
    <3>5. Down'
      BY <1>4 DEF LinkWatch, Down
    <3> QED  BY <3>1, <3>2, <3>3, <3>4, <3>5
           DEF TypeOK, PcType, CountTypes, NetTypes, FlagTypes
  <2>2. Turns' /\ Owned'
    BY <1>4 DEF LinkWatch, Turns, Owned
  <2> QED  BY <2>1, <2>2
<1> QED  BY <1>1, <1>2, <1>3, <1>4

(* ifup and ifdown.                                                        *)
LEMMA IfStep ==
  ASSUME LifeInv, IfUp \/ IfDown
  PROVE  LifeInv'
<1> USE DEF LifeInv, netVars, linkVars, ringVars, hwVars, bounds, Threads
<1>1. CASE IfUp
  <2>1. TypeOK' /\ Room' /\ Down'
    BY <1>1 DEF IfUp, OpenAfter, TypeOK, Room, Down
  <2>2. Turns' /\ Owned'
    BY <1>1 DEF IfUp, OpenAfter, TypeOK, Turns, Owned
  <2> QED  BY <2>1, <2>2
<1>2. CASE IfDown
  <2>1. TypeOK' /\ Room'
    <3>1. PcType'
      BY <1>2, LifeAssumption DEF IfDown, TypeOK, PcType
    <3>2. CountTypes'
      BY <1>2, LifeAssumption DEF IfDown, TypeOK, Room, CountTypes
    <3>3. FlagTypes'
      BY <1>2, LifeAssumption DEF IfDown, TypeOK, FlagTypes
    <3>4. NetTypes'
      BY <1>2, LifeAssumption DEF IfDown, TypeOK, NetTypes
    <3> QED  BY <3>1, <3>2, <3>3, <3>4
           DEF TypeOK, PcType, CountTypes, NetTypes, FlagTypes
  <2>2. Turns'
    BY <1>2 DEF IfDown, TypeOK, Turns
  <2>3. Owned' /\ Down'
    BY <1>2 DEF IfDown, TypeOK, Owned, Down
  <2> QED  BY <2>1, <2>2, <2>3
<1> QED  BY <1>1, <1>2

(* The steps of ag71xx_open and ag71xx_stop, in either thread.             *)
LEMMA ThreadStep ==
  ASSUME LifeInv, NEW t \in Threads,
         \/ OpenAlloc(t) \/ OpenFail(t) \/ OpenStart(t)
         \/ StopHw(t) \/ StopFree(t)
  PROVE  LifeInv'
<1> USE DEF LifeInv, netVars, linkVars, ringVars, hwVars, bounds
<1>0. /\ Threads = {"rtnl", "work"} /\ regs \in Regs
      /\ IsAr724x \in BOOLEAN /\ HasLinkPoll \in BOOLEAN
  BY BoardType DEF Threads, TypeOK, Regs
<1>1. CASE OpenAlloc(t)
  <2>1. TypeOK' /\ Room'
    <3>1. PcType'
      BY <1>0, <1>1, LifeAssumption DEF OpenAlloc, TypeOK, PcType
    <3>2. CountTypes'
      BY <1>0, <1>1, LifeAssumption DEF OpenAlloc, TypeOK, Room, CountTypes
    <3>3. FlagTypes'
      BY <1>0, <1>1, LifeAssumption DEF OpenAlloc, TypeOK, FlagTypes
    <3>4. NetTypes'
      BY <1>0, <1>1, LifeAssumption DEF OpenAlloc, TypeOK, NetTypes
    <3> QED  BY <3>1, <3>2, <3>3, <3>4
           DEF TypeOK, PcType, CountTypes, NetTypes, FlagTypes
  <2>2. Turns' /\ Down'
    BY <1>0, <1>1 DEF OpenAlloc, TypeOK, Turns, Down
  <2>3. Owned'
    BY <1>0, <1>1 DEF OpenAlloc, TypeOK, Turns, Owned
  <2> QED  BY <2>1, <2>2, <2>3
<1>2. CASE OpenFail(t)
  <2>1. TypeOK' /\ Room'
    <3>1. PcType'
      BY <1>0, <1>2, LifeAssumption DEF OpenFail, TypeOK, PcType
    <3>2. CountTypes'
      BY <1>0, <1>2, LifeAssumption DEF OpenFail, TypeOK, Room, CountTypes
    <3>3. FlagTypes'
      BY <1>0, <1>2, LifeAssumption DEF OpenFail, TypeOK, FlagTypes
    <3>4. NetTypes'
      BY <1>0, <1>2, LifeAssumption DEF OpenFail, TypeOK, NetTypes
    <3> QED  BY <3>1, <3>2, <3>3, <3>4
           DEF TypeOK, PcType, CountTypes, NetTypes, FlagTypes
  <2>2. Turns' /\ Down'
    BY <1>0, <1>2 DEF OpenFail, TypeOK, Turns, Down
  <2>3. Owned'
    BY <1>0, <1>2 DEF OpenFail, TypeOK, Turns, Owned
  <2> QED  BY <2>1, <2>2, <2>3
<1>3. CASE OpenStart(t)
  <2>1. /\ regs' \in Regs /\ regs'.ring = TRUE
        /\ link' \in BOOLEAN /\ carrier' \in BOOLEAN
        /\ status' \in [tx : BOOLEAN, rx : BOOLEAN]
    <3>1. CASE HasLinkPoll
      BY <1>0, <1>3, <3>1, RingSet DEF OpenStart, TypeOK
    <3>2. CASE ~HasLinkPoll
      <4>1. /\ regs' = [Started(regs) EXCEPT !.ring = TRUE]
            /\ link' = TRUE /\ carrier' = TRUE
            /\ status' = IF IsAr724x THEN Quiet ELSE status
        BY <1>3, <3>2 DEF OpenStart
      <4>2. Started(regs) \in Regs
        BY <1>0, StartedIs
      <4>3. regs' \in Regs /\ regs'.ring = TRUE
        BY <4>1, <4>2, RingSet
      <4> QED  BY <4>1, <4>3 DEF TypeOK, Quiet
    <3> QED  BY <3>1, <3>2
  <2>2. up' \in BOOLEAN /\ stack' \in BOOLEAN /\ polling' \in BOOLEAN
    BY <1>0, <1>3, <2>1 DEF OpenStart, TypeOK
  <2>3. TypeOK' /\ Room'
    <3>1. PcType'
      BY <1>0, <1>3, <2>1, <2>2 DEF OpenStart, Regs, TypeOK, PcType
    <3>2. CountTypes'
      BY <1>0, <1>3, <2>1, <2>2, LifeAssumption
         DEF OpenStart, Regs, TypeOK, Room, CountTypes
    <3>3. FlagTypes'
      BY <1>0, <1>3, <2>1, <2>2 DEF OpenStart, Regs, TypeOK, FlagTypes
    <3>4. NetTypes'
      BY <1>0, <1>3, <2>1, <2>2 DEF OpenStart, Regs, TypeOK, NetTypes
    <3> QED  BY <3>1, <3>2, <3>3, <3>4
           DEF TypeOK, PcType, CountTypes, NetTypes, FlagTypes
  <2>4. pc' = [pc EXCEPT ![t] = "idle"] /\ pc[t] = "start" /\ up'
    BY <1>0, <1>3 DEF OpenStart, Turns
  <2>5. Turns'
    BY <1>0, <1>3, <2>4 DEF OpenStart, TypeOK, Turns
  <2>6. Down'
    BY <1>0, <1>3, <2>4 DEF OpenStart, TypeOK, Turns, Down
  <2>7. Owned'
    BY <1>0, <1>3, <2>1, <2>4 DEF OpenStart, TypeOK, Turns, Owned
  <2> QED  BY <2>3, <2>5, <2>6, <2>7
<1>4. CASE StopHw(t)
  <2>1. /\ regs' \in Regs /\ regs'.ring = FALSE
        /\ regs'.tx = FALSE /\ regs'.rx = FALSE
    <3>1. regs' = [Stopped(regs) EXCEPT !.ring = FALSE]
      BY <1>4 DEF StopHw
    <3> QED  BY <1>0, <3>1, RingSet, StoppedIs
  <2>2. carrier' \in BOOLEAN
    BY <1>4 DEF StopHw, TypeOK
  <2>3. TypeOK' /\ Room'
    <3>1. PcType'
      BY <1>0, <1>4, <2>1, <2>2 DEF StopHw, Regs, Quiet, TypeOK, PcType
    <3>2. CountTypes'
      BY <1>0, <1>4, <2>1, <2>2, LifeAssumption
         DEF StopHw, Regs, Quiet, TypeOK, Room, CountTypes
    <3>3. FlagTypes'
      BY <1>0, <1>4, <2>1, <2>2 DEF StopHw, Regs, Quiet, TypeOK, FlagTypes
    <3>4. NetTypes'
      BY <1>0, <1>4, <2>1, <2>2 DEF StopHw, Regs, Quiet, TypeOK, NetTypes
    <3> QED  BY <3>1, <3>2, <3>3, <3>4
           DEF TypeOK, PcType, CountTypes, NetTypes, FlagTypes
  <2>4. Turns' /\ Down'
    BY <1>0, <1>4, <2>1 DEF StopHw, TypeOK, Turns, Down
  <2>5. Owned'
    BY <1>0, <1>4, <2>1 DEF StopHw, TypeOK, Turns, Owned
  <2> QED  BY <2>3, <2>4, <2>5
<1>5. CASE StopFree(t)
  <2>1. \/ t = "work" /\ pc' = [pc EXCEPT ![t] = "open"]
        \/ t = "rtnl" /\ pc' = [pc EXCEPT ![t] = "idle"]
    BY <1>0, <1>5 DEF StopFree, OpenAfter
  <2>2. TypeOK' /\ Room'
    <3>1. PcType'
      BY <1>0, <1>5, <2>1, LifeAssumption DEF StopFree, TypeOK, PcType
    <3>2. CountTypes'
      BY <1>0, <1>5, <2>1, LifeAssumption DEF StopFree, TypeOK, Room, CountTypes
    <3>3. FlagTypes'
      BY <1>0, <1>5, <2>1, LifeAssumption DEF StopFree, TypeOK, FlagTypes
    <3>4. NetTypes'
      BY <1>0, <1>5, <2>1, LifeAssumption DEF StopFree, TypeOK, NetTypes
    <3> QED  BY <3>1, <3>2, <3>3, <3>4
           DEF TypeOK, PcType, CountTypes, NetTypes, FlagTypes
  <2>3. Turns' /\ Down'
    BY <1>0, <1>5, <2>1 DEF StopFree, TypeOK, Turns, Down
  <2>4. Owned'
    BY <1>0, <1>5, <2>1, BoardType DEF StopFree, TypeOK, Turns, Owned
  <2> QED  BY <2>2, <2>3, <2>4
<1> QED  BY <1>1, <1>2, <1>3, <1>4, <1>5

(* The watchdog and the restart.                                           *)
LEMMA RestartStep ==
  ASSUME LifeInv, TxTimeout \/ RestartWork
  PROVE  LifeInv'
<1> USE DEF LifeInv, netVars, linkVars, ringVars, hwVars, bounds, Threads
<1>1. CASE TxTimeout
  <2>1. TypeOK' /\ Room' /\ Down'
    <3>1. PcType'
      BY <1>1, LifeAssumption DEF TxTimeout, TypeOK, PcType
    <3>2. CountTypes'
      BY <1>1, LifeAssumption DEF TxTimeout, TypeOK, Room, CountTypes
    <3>3. FlagTypes'
      BY <1>1, LifeAssumption DEF TxTimeout, TypeOK, FlagTypes
    <3>4. NetTypes'
      BY <1>1, LifeAssumption DEF TxTimeout, TypeOK, NetTypes
    <3>5. Down'
      BY <1>1, LifeAssumption DEF TxTimeout, Down
    <3> QED  BY <3>1, <3>2, <3>3, <3>4, <3>5
           DEF TypeOK, PcType, CountTypes, NetTypes, FlagTypes
  <2>2. Turns' /\ Owned'
    BY <1>1 DEF TxTimeout, Turns, Owned
  <2> QED  BY <2>1, <2>2
<1>2. CASE RestartWork /\ IsAr724x
  <2>1. LinkAdjust(FALSE)
    BY <1>2 DEF RestartWork
  <2>2. TypeOK' /\ Room'
    <3>1. PcType'
      BY <1>2, <2>1, AdjustType DEF RestartWork, Regs, TypeOK, PcType
    <3>2. CountTypes'
      BY <1>2, <2>1, AdjustType, LifeAssumption
         DEF RestartWork, Regs, TypeOK, Room, CountTypes
    <3>3. FlagTypes'
      BY <1>2, <2>1, AdjustType DEF RestartWork, Regs, TypeOK, FlagTypes
    <3>4. NetTypes'
      BY <1>2, <2>1, AdjustType DEF RestartWork, Regs, TypeOK, NetTypes
    <3> QED  BY <3>1, <3>2, <3>3, <3>4
           DEF TypeOK, PcType, CountTypes, NetTypes, FlagTypes
  <2>3. Turns' /\ Down'
    BY <1>2, <2>1, AdjustType DEF RestartWork, Turns, Down
  <2>4. Owned'
    BY <1>2, <2>1, AdjustType DEF RestartWork, Owned
  <2> QED  BY <2>2, <2>3, <2>4
<1>3. CASE RestartWork /\ ~IsAr724x
  <2>1. /\ pc' = [pc EXCEPT !["work"] = "stop"] /\ carrier' = FALSE
        /\ pc["work"] = "idle" /\ restartWork /\ restartWork' = FALSE
        /\ UNCHANGED <<board, up, stack, queueStopped, cable, polling,
                       ringVars, napi, bounds, link, hwVars>>
    BY <1>3 DEF RestartWork
  <2>2. TypeOK' /\ Room'
    <3>1. PcType'
      BY <2>1 DEF TypeOK, PcType
    <3>2. CountTypes'
      BY <2>1, LifeAssumption DEF TypeOK, Room, CountTypes
    <3>3. FlagTypes'
      BY <2>1 DEF TypeOK, FlagTypes
    <3>4. NetTypes'
      BY <2>1 DEF TypeOK, NetTypes
    <3> QED  BY <3>1, <3>2, <3>3, <3>4
           DEF TypeOK, PcType, CountTypes, NetTypes, FlagTypes
  <2>3. Turns' /\ Down'
    BY <1>3, <2>1 DEF TypeOK, Turns, Down, IsAr724x
  <2>4. Owned'
    BY <2>1 DEF TypeOK, Owned
  <2> QED  BY <2>2, <2>3, <2>4
<1> QED  BY <1>1, <1>2, <1>3

(* The data path.                                                          *)
LEMMA DataStep ==
  ASSUME LifeInv, Xmit \/ DmaSend \/ DmaReceive \/ Interrupt \/ Poll
  PROVE  LifeInv'
<1> USE DEF LifeInv, netVars, linkVars, ringVars, hwVars, bounds
<1>0. regs \in Regs
  BY DEF TypeOK, Regs
<1>1. CASE Xmit
  <2>1. regs' \in Regs /\ regs'.ring = regs.ring
    BY <1>0, <1>1 DEF Xmit, Regs
  <2>2. TypeOK' /\ Room'
    <3>1. PcType'
      BY <1>1, <2>1, LifeAssumption DEF Xmit, Regs, TypeOK, PcType
    <3>2. CountTypes'
      BY <1>1, <2>1, LifeAssumption DEF Xmit, Regs, TypeOK, Room, CountTypes
    <3>3. FlagTypes'
      BY <1>1, <2>1, LifeAssumption DEF Xmit, Regs, TypeOK, FlagTypes
    <3>4. NetTypes'
      BY <1>1, <2>1, LifeAssumption DEF Xmit, Regs, TypeOK, NetTypes
    <3> QED  BY <3>1, <3>2, <3>3, <3>4
           DEF TypeOK, PcType, CountTypes, NetTypes, FlagTypes
  <2>3. Turns' /\ Down'
    BY <1>1 DEF Xmit, Turns, Down
  <2>4. Owned'
    BY <1>1, <2>1 DEF Xmit, Owned
  <2> QED  BY <2>2, <2>3, <2>4
<1>2. CASE DmaSend
  <2>1. status' \in [tx : BOOLEAN, rx : BOOLEAN]
    BY <1>2 DEF DmaSend, TypeOK
  <2>2. TypeOK' /\ Room'
    <3>1. PcType'
      BY <1>2, <2>1, LifeAssumption DEF DmaSend, TypeOK, PcType
    <3>2. CountTypes'
      BY <1>2, <2>1, LifeAssumption DEF DmaSend, TypeOK, Room, CountTypes
    <3>3. FlagTypes'
      BY <1>2, <2>1, LifeAssumption DEF DmaSend, TypeOK, FlagTypes
    <3>4. NetTypes'
      BY <1>2, <2>1, LifeAssumption DEF DmaSend, TypeOK, NetTypes
    <3> QED  BY <3>1, <3>2, <3>3, <3>4
           DEF TypeOK, PcType, CountTypes, NetTypes, FlagTypes
  <2> QED  BY <1>2, <2>2 DEF DmaSend, Turns, Owned, Down
<1>3. CASE DmaReceive
  <2>1. status' \in [tx : BOOLEAN, rx : BOOLEAN]
    BY <1>3 DEF DmaReceive, TypeOK
  <2>2. TypeOK' /\ Room'
    <3>1. PcType'
      BY <1>3, <2>1 DEF DmaReceive, TypeOK, PcType
    <3>2. CountTypes'
      BY <1>3, <2>1, LifeAssumption DEF DmaReceive, TypeOK, Room, CountTypes
    <3>3. FlagTypes'
      BY <1>3, <2>1 DEF DmaReceive, TypeOK, FlagTypes
    <3>4. NetTypes'
      BY <1>3, <2>1 DEF DmaReceive, TypeOK, NetTypes
    <3> QED  BY <3>1, <3>2, <3>3, <3>4
           DEF TypeOK, PcType, CountTypes, NetTypes, FlagTypes
  <2> QED  BY <1>3, <2>2 DEF DmaReceive, Turns, Owned, Down
<1>4. CASE Interrupt
  <2>1. /\ regs' \in Regs /\ regs'.ring = regs.ring
        /\ regs'.tx = regs.tx /\ regs'.rx = regs.rx
    BY <1>0, <1>4 DEF Interrupt, Regs
  <2>2. napi' = napi \/ (napi = "free" /\ napi' = "scheduled")
    BY <1>4 DEF Interrupt
  <2>3. TypeOK' /\ Room'
    <3>1. PcType'
      BY <1>4, <2>1, <2>2 DEF Interrupt, Regs, TypeOK, PcType
    <3>2. CountTypes'
      BY <1>4, <2>1, <2>2, LifeAssumption
         DEF Interrupt, Regs, TypeOK, Room, CountTypes
    <3>3. FlagTypes'
      BY <1>4, <2>1, <2>2 DEF Interrupt, Regs, TypeOK, FlagTypes
    <3>4. NetTypes'
      BY <1>4, <2>1, <2>2 DEF Interrupt, Regs, TypeOK, NetTypes
    <3> QED  BY <3>1, <3>2, <3>3, <3>4
           DEF TypeOK, PcType, CountTypes, NetTypes, FlagTypes
  <2> QED  BY <1>4, <2>1, <2>2, <2>3 DEF Interrupt, Turns, Owned, Down
<1>5. CASE Poll
  <2>1. /\ regs' \in Regs /\ regs'.ring = regs.ring
        /\ regs'.tx = regs.tx /\ regs'.rx = regs.rx
    BY <1>0, <1>5 DEF Poll, Regs
  <2>2. /\ queueStopped' = FALSE \/ queueStopped' = queueStopped
        /\ status' \in [tx : BOOLEAN, rx : BOOLEAN]
    BY <1>5 DEF Poll, TypeOK, Quiet
  <2>3. restartWork' = restartWork \/ (IsAr724x /\ restartWork' = TRUE)
    BY <1>5 DEF Poll
  <2>4. TypeOK' /\ Room'
    <3>1. PcType'
      BY <1>5, <2>1, <2>2, <2>3, LifeAssumption DEF Poll, Regs, TypeOK, PcType
    <3>2. CountTypes'
      BY <1>5, <2>1, <2>2, <2>3, LifeAssumption
         DEF Poll, Regs, TypeOK, Room, CountTypes
    <3>3. FlagTypes'
      BY <1>5, <2>1, <2>2, <2>3, LifeAssumption
         DEF Poll, Regs, TypeOK, FlagTypes
    <3>4. NetTypes'
      BY <1>5, <2>1, <2>2, <2>3, LifeAssumption DEF Poll, Regs, TypeOK, NetTypes
    <3> QED  BY <3>1, <3>2, <3>3, <3>4
           DEF TypeOK, PcType, CountTypes, NetTypes, FlagTypes
  <2>5. Turns' /\ Down'
    BY <1>5, <2>1, <2>3 DEF Poll, Turns, Down, IsAr724x
  <2>6. Owned'
    BY <1>5, <2>1 DEF Poll, Owned
  <2> QED  BY <2>4, <2>5, <2>6
<1> QED  BY <1>1, <1>2, <1>3, <1>4, <1>5

LEMMA LifeStep == LifeInv /\ [Next]_vars => LifeInv'
<1>1. LifeInv /\ UNCHANGED vars => LifeInv'
  BY DEF vars, netVars, linkVars, ringVars, hwVars, bounds, LifeInv, TypeOK,
         Room, Turns, Owned, Down
<1> QED
  BY <1>1, LinkStep, IfStep, ThreadStep, RestartStep, DataStep DEF Next

THEOREM LifeInvariant == Spec => []LifeInv
  BY InitLife, LifeStep, PTL DEF Spec

(* The types of the state, with never more packets in the transmit ring    *)
(* than the stop mark.                                                     *)
THEOREM LifeTypeCorrect == Spec => []TypeOK
<1>1. LifeInv => TypeOK
  BY DEF LifeInv
<1> QED  BY <1>1, LifeInvariant, PTL

(* Through every interleaving of ifup, ifdown, failed allocations, link    *)
(* changes and restarts, on any board, nobody works on freed rings.        *)
THEOREM NoUseAfterFreeCorrect == Spec => []NoUseAfterFree
<1>1. LifeInv => NoUseAfterFree
  BY DEF LifeInv, NoUseAfterFree, Owned, Turns
<1> QED  BY <1>1, LifeInvariant, PTL

(* ag71xx_rings_cleanup in an ifdown never runs under a working engine.    *)
THEOREM StoppedCorrect == Spec => []StoppedWhenCleared
<1>1. LifeInv => StoppedWhenCleared
  BY DEF LifeInv, StoppedWhenCleared, Down
<1> QED  BY <1>1, LifeInvariant, PTL
=============================================================================
