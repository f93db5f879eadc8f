--------------------------- MODULE Ag71xxNapiProofs ---------------------------
(***************************************************************************)
(* Safety of the AG71xx data path for rings, thresholds, budgets and       *)
(* counter widths of any size.                                             *)
(***************************************************************************)
EXTENDS Ag71xxNapi, TLAPS

\* The ring counters stay in range when incremented, and a difference of two
\* counters is a count.
LEMMA CountLemma ==
    /\ \A n \in Counts : Inc(n) \in Counts
    /\ \A a, b \in Counts : Diff(a, b) \in Counts
    /\ \A n \in Counts : TxSlot(n) \in TxSlots /\ RxSlot(n) \in RxSlots
  BY RingAssumption DEF Counts, Inc, Diff, TxSlot, RxSlot, TxSlots, RxSlots

\* Moving curr adds one to a difference that is not yet the whole range, moving
\* dirty takes one from a difference that is not zero.
LEMMA DiffLemma ==
  ASSUME NEW a \in Counts, NEW b \in Counts
  PROVE  /\ Diff(a, b) < CountMod - 1 => Diff(Inc(a), b) = Diff(a, b) + 1
         /\ a # b => Diff(a, Inc(b)) = Diff(a, b) - 1 /\ Diff(a, b) > 0
         /\ Diff(a, a) = 0
  BY RingAssumption DEF Counts, Inc, Diff

\* The driver's state always has its type, whatever the sizes of the rings.
THEOREM TypeCorrect == Spec => []TypeOK
<1>1. Init => TypeOK
  <2>1. 0 \in Counts /\ 0 \in TxSlots /\ 0 \in RxSlots
    BY RingAssumption DEF Counts, TxSlots, RxSlots
  <2>2. 0 \in 0..Limit /\ 0 \in 0..MaxAllocFails /\ 0 \in Nat
    BY RingAssumption
  <2>3. QED
    BY <2>1, <2>2, Zenon DEF Init, TypeOK, PollSteps
<1>2. TypeOK /\ [Next]_vars => TypeOK'
  <2> SUFFICES ASSUME TypeOK, [Next]_vars PROVE TypeOK'
    OBVIOUS
  <2> USE CountLemma, RingAssumption DEF TypeOK, PollSteps
  <2>1. CASE DmaSend
    BY <2>1 DEF DmaSend, rxVars, irqVars, TxSlots
  <2>2. CASE DmaSendIdle
    BY <2>2 DEF DmaSendIdle, rxVars, irqVars
  <2>3. CASE DmaReceive
    BY <2>3 DEF DmaReceive, txVars, irqVars, RxSlots
  <2>4. CASE DmaOverflow
    BY <2>4 DEF DmaOverflow, txVars, irqVars
  <2>5. CASE Interrupt
    BY <2>5 DEF Interrupt, txVars, rxVars
  <2>6. CASE OomTimer
    BY <2>6 DEF OomTimer, txVars, rxVars
  <2>7. CASE HardStartXmit
    BY <2>7 DEF HardStartXmit, rxVars, irqVars
  <2>8. CASE PollStart
    BY <2>8 DEF PollStart, txVars, rxVars, irqVars
  <2>9. CASE TxReap
    BY <2>9 DEF TxReap, rxVars, irqVars
  <2>10. CASE TxReapEnd
    BY <2>10 DEF TxReapEnd, rxVars, irqVars
  <2>11. CASE RxPacket /\ ~RxExhausted
    <3>1. /\ rxPr' = IF rxPr > 0 THEN rxPr - 1 ELSE 0
          /\ rxSkb' = [rxSkb EXCEPT ![RxSlot(rxCurr)] = FALSE]
          /\ rxCurr' = Inc(rxCurr)
          /\ done < Limit /\ done' = done + 1
          /\ UNCHANGED <<rxDirty, rxEmpty, rxHw, rxEn, rxOf, txVars, irqVars,
                         pc, allocFails>>
      BY <2>11 DEF RxPacket
    <3>2. QED
      BY <3>1 DEF txVars, irqVars
  <2>12. CASE RxPacket /\ RxExhausted
    BY <2>12 DEF RxPacket, txVars, irqVars
  <2>13. CASE RxPacketsEnd
    BY <2>13 DEF RxPacketsEnd, txVars, rxVars, irqVars
  <2>14. CASE RxRefill
    BY <2>14 DEF RxRefill, txVars, irqVars
  <2>15. CASE RxRefillFail
    BY <2>15 DEF RxRefillFail, txVars, rxVars, irqVars
  <2>16. CASE RxRefillEnd
    BY <2>16 DEF RxRefillEnd, txVars, rxVars, irqVars
  <2>17. CASE PollOom
    BY <2>17 DEF PollOom, txVars, rxVars
  <2>18. CASE PollRxStatus
    BY <2>18 DEF PollRxStatus, txVars, irqVars
  <2>19. CASE PollTxStatus
    BY <2>19 DEF PollTxStatus, txVars, rxVars, irqVars
  <2>20. CASE PollComplete
    BY <2>20 DEF PollComplete, txVars, rxVars
  <2>21. CASE PollIntEnable
    BY <2>21 DEF PollIntEnable, txVars, rxVars
  <2>22. CASE UNCHANGED vars
    BY <2>22 DEF vars, txVars, rxVars, irqVars
  <2>23. QED
    BY <2>1, <2>2, <2>3, <2>4, <2>5, <2>6, <2>7, <2>8, <2>9, <2>10, <2>11,
       <2>12, <2>13, <2>14, <2>15, <2>16, <2>17, <2>18, <2>19, <2>20, <2>21,
       <2>22
       DEF Next, Dma, Poll
<1>3. QED
  BY <1>1, <1>2, PTL DEF Spec
-----------------------------------------------------------------------------
\* Inductive invariant of the hand-over of the duty to poll: while the poll
\* routine runs, up to napi_complete, the NAPI instance stays scheduled.
PollInv ==
    /\ OnePollHolder
    /\ pc \notin {"idle", "enable"} => napi

\* Exactly one of the interrupt, the scheduled poll, the timer and the poll that
\* is about to enable the interrupts looks after the rings.
THEOREM OneHolder == Spec => []OnePollHolder
<1>1. Init => PollInv
  BY DEF Init, PollInv, OnePollHolder
<1>2. TypeOK /\ PollInv /\ [Next]_vars => PollInv'
  <2> SUFFICES ASSUME TypeOK, PollInv, [Next]_vars PROVE PollInv'
    OBVIOUS
  <2> USE DEF TypeOK, PollInv, OnePollHolder
  <2>1. CASE DmaSend
    BY <2>1 DEF DmaSend, rxVars, irqVars
  <2>2. CASE DmaSendIdle
    BY <2>2 DEF DmaSendIdle, rxVars, irqVars
  <2>3. CASE DmaReceive
    BY <2>3 DEF DmaReceive, txVars, irqVars
  <2>4. CASE DmaOverflow
    BY <2>4 DEF DmaOverflow, txVars, irqVars
  <2>5. CASE Interrupt
    BY <2>5 DEF Interrupt, txVars, rxVars
  <2>6. CASE OomTimer
    BY <2>6 DEF OomTimer, txVars, rxVars
  <2>7. CASE HardStartXmit
    BY <2>7 DEF HardStartXmit, rxVars, irqVars
  <2>8. CASE PollStart
    BY <2>8 DEF PollStart, txVars, rxVars, irqVars
  <2>9. CASE TxReap
    BY <2>9 DEF TxReap, rxVars, irqVars
  <2>10. CASE TxReapEnd
    BY <2>10 DEF TxReapEnd, rxVars, irqVars
  <2>11. CASE RxPacket /\ ~RxExhausted
    BY <2>11 DEF RxPacket, txVars, irqVars
  <2>12. CASE RxPacket /\ RxExhausted
    BY <2>12 DEF RxPacket, txVars, irqVars
  <2>13. CASE RxPacketsEnd
    BY <2>13 DEF RxPacketsEnd, txVars, rxVars, irqVars
  <2>14. CASE RxRefill
    BY <2>14 DEF RxRefill, txVars, irqVars
  <2>15. CASE RxRefillFail
    BY <2>15 DEF RxRefillFail, txVars, rxVars, irqVars
  <2>16. CASE RxRefillEnd
    BY <2>16 DEF RxRefillEnd, txVars, rxVars, irqVars
  <2>17. CASE PollOom
    BY <2>17 DEF PollOom, txVars, rxVars
  <2>18. CASE PollRxStatus
    BY <2>18 DEF PollRxStatus, txVars, irqVars
  <2>19. CASE PollTxStatus
    BY <2>19 DEF PollTxStatus, txVars, rxVars, irqVars
  <2>20. CASE PollComplete
    BY <2>20 DEF PollComplete, txVars, rxVars
  <2>21. CASE PollIntEnable
    BY <2>21 DEF PollIntEnable, txVars, rxVars
  <2>22. CASE UNCHANGED vars
    BY <2>22 DEF vars, txVars, rxVars, irqVars
  <2>23. QED
    BY <2>1, <2>2, <2>3, <2>4, <2>5, <2>6, <2>7, <2>8, <2>9, <2>10, <2>11,
       <2>12, <2>13, <2>14, <2>15, <2>16, <2>17, <2>18, <2>19, <2>20, <2>21, <2>22
       DEF Next, Dma, Poll
<1>3. PollInv => OnePollHolder
  BY DEF PollInv
<1>4. QED
  BY <1>1, <1>2, <1>3, TypeCorrect, PTL DEF Spec
-----------------------------------------------------------------------------
\* No descriptor in the hands of the DMA engine lacks its buffer.
THEOREM DmaSafe == Spec => []DmaOwnsBuffer
<1>1. Init => DmaOwnsBuffer
  BY DEF Init, DmaOwnsBuffer
<1>2. TypeOK /\ DmaOwnsBuffer /\ [Next]_vars => DmaOwnsBuffer'
  <2> SUFFICES ASSUME TypeOK, DmaOwnsBuffer, [Next]_vars PROVE DmaOwnsBuffer'
    OBVIOUS
  <2> USE CountLemma DEF TypeOK, DmaOwnsBuffer
  <2>1. CASE DmaSend
    BY <2>1 DEF DmaSend, rxVars, irqVars
  <2>2. CASE DmaSendIdle
    BY <2>2 DEF DmaSendIdle, rxVars, irqVars
  <2>3. CASE DmaReceive
    BY <2>3 DEF DmaReceive, txVars, irqVars
  <2>4. CASE DmaOverflow
    BY <2>4 DEF DmaOverflow, txVars, irqVars
  <2>5. CASE Interrupt
    BY <2>5 DEF Interrupt, txVars, rxVars
  <2>6. CASE OomTimer
    BY <2>6 DEF OomTimer, txVars, rxVars
  <2>7. CASE HardStartXmit
    BY <2>7 DEF HardStartXmit, rxVars, irqVars
  <2>8. CASE PollStart
    BY <2>8 DEF PollStart, txVars, rxVars, irqVars
  <2>9. CASE TxReap
    BY <2>9 DEF TxReap, rxVars, irqVars
  <2>10. CASE TxReapEnd
    BY <2>10 DEF TxReapEnd, rxVars, irqVars
  <2>11. CASE RxPacket /\ ~RxExhausted
    BY <2>11 DEF RxPacket, txVars, irqVars
  <2>12. CASE RxPacket /\ RxExhausted
    BY <2>12 DEF RxPacket, txVars, irqVars
  <2>13. CASE RxPacketsEnd
    BY <2>13 DEF RxPacketsEnd, txVars, rxVars, irqVars
  <2>14. CASE RxRefill
    BY <2>14 DEF RxRefill, txVars, irqVars
  <2>15. CASE RxRefillFail
    BY <2>15 DEF RxRefillFail, txVars, rxVars, irqVars
  <2>16. CASE RxRefillEnd
    BY <2>16 DEF RxRefillEnd, txVars, rxVars, irqVars
  <2>17. CASE PollOom
    BY <2>17 DEF PollOom, txVars, rxVars
  <2>18. CASE PollRxStatus
    BY <2>18 DEF PollRxStatus, txVars, irqVars
  <2>19. CASE PollTxStatus
    BY <2>19 DEF PollTxStatus, txVars, rxVars, irqVars
  <2>20. CASE PollComplete
    BY <2>20 DEF PollComplete, txVars, rxVars
  <2>21. CASE PollIntEnable
    BY <2>21 DEF PollIntEnable, txVars, rxVars
  <2>22. CASE UNCHANGED vars
    BY <2>22 DEF vars, txVars, rxVars, irqVars
  <2>23. QED
    BY <2>1, <2>2, <2>3, <2>4, <2>5, <2>6, <2>7, <2>8, <2>9, <2>10, <2>11,
       <2>12, <2>13, <2>14, <2>15, <2>16, <2>17, <2>18, <2>19, <2>20, <2>21, <2>22
       DEF Next, Dma, Poll
<1>3. QED
  BY <1>1, <1>2, TypeCorrect, PTL DEF Spec
-----------------------------------------------------------------------------
\* The number of packets in flight never passes the stop mark, whatever the
\* marks, so the equality test in xmit is enough.
THEOREM StopDiscipline == Spec => []TxStopDiscipline
<1>1. Init => TxStopDiscipline
  BY RingAssumption DEF Init, TxStopDiscipline, Diff
<1>2. TypeOK /\ TxStopDiscipline /\ [Next]_vars => TxStopDiscipline'
  <2> SUFFICES ASSUME TypeOK, TxStopDiscipline, [Next]_vars
               PROVE  TxStopDiscipline'
    OBVIOUS
  <2> USE RingAssumption DEF TypeOK, TxStopDiscipline
  <2>1. CASE DmaSend
    BY <2>1 DEF DmaSend, rxVars, irqVars
  <2>2. CASE DmaSendIdle
    BY <2>2 DEF DmaSendIdle, rxVars, irqVars
  <2>3. CASE DmaReceive
    BY <2>3 DEF DmaReceive, txVars, irqVars
  <2>4. CASE DmaOverflow
    BY <2>4 DEF DmaOverflow, txVars, irqVars
  <2>5. CASE Interrupt
    BY <2>5 DEF Interrupt, txVars, rxVars
  <2>6. CASE OomTimer
    BY <2>6 DEF OomTimer, txVars, rxVars
  <2>7. CASE HardStartXmit
    <3>1. Diff(txCurr', txDirty') = Diff(txCurr, txDirty) + 1
      <4>1. Diff(txCurr, txDirty) < CountMod - 1
        BY <2>7 DEF HardStartXmit, Counts, Diff
      <4>2. QED
        BY <2>7, <4>1, DiffLemma DEF HardStartXmit
    <3>2. Diff(txCurr, txDirty) \in Counts
      BY CountLemma
    <3>3. txStopped' = (Diff(txCurr', txDirty') = TxThresStop) /\ ~txStopped
      BY <2>7 DEF HardStartXmit
    <3>4. Diff(txCurr', txDirty') <= TxThresStop
      BY <3>1, <3>2, <3>3 DEF Counts
    <3>5. ~txStopped' => Diff(txCurr', txDirty') # TxThresStop
      BY <3>3, Zenon
    <3>6. QED
      BY <3>1, <3>2, <3>4, <3>5 DEF Counts
  <2>8. CASE PollStart
    BY <2>8 DEF PollStart, txVars, rxVars, irqVars
  <2>9. CASE TxReap
    <3>1. Diff(txCurr', txDirty') = Diff(txCurr, txDirty) - 1
      BY <2>9, DiffLemma DEF TxReap
    <3>2. Diff(txCurr, txDirty) \in Counts /\ txStopped' = txStopped
      BY <2>9, CountLemma DEF TxReap
    <3>3. QED
      BY <3>1, <3>2 DEF Counts
  <2>10. CASE TxReapEnd
    <3>1. Diff(txCurr', txDirty') = Diff(txCurr, txDirty)
      BY <2>10 DEF TxReapEnd
    <3>2. Diff(txCurr, txDirty) \in Counts
      BY CountLemma
    <3>3. txStopped' = (txStopped /\ Diff(txCurr, txDirty) >= TxThresWakeup)
      BY <2>10 DEF TxReapEnd
    <3>4. QED
      BY <3>1, <3>2, <3>3 DEF Counts
  <2>11. CASE RxPacket /\ ~RxExhausted
    BY <2>11 DEF RxPacket, txVars, irqVars
  <2>12. CASE RxPacket /\ RxExhausted
    BY <2>12 DEF RxPacket, txVars, irqVars
  <2>13. CASE RxPacketsEnd
    BY <2>13 DEF RxPacketsEnd, txVars, rxVars, irqVars
  <2>14. CASE RxRefill
    BY <2>14 DEF RxRefill, txVars, irqVars
  <2>15. CASE RxRefillFail
    BY <2>15 DEF RxRefillFail, txVars, rxVars, irqVars
  <2>16. CASE RxRefillEnd
    BY <2>16 DEF RxRefillEnd, txVars, rxVars, irqVars
  <2>17. CASE PollOom
    BY <2>17 DEF PollOom, txVars, rxVars
  <2>18. CASE PollRxStatus
    BY <2>18 DEF PollRxStatus, txVars, irqVars
  <2>19. CASE PollTxStatus
    BY <2>19 DEF PollTxStatus, txVars, rxVars, irqVars
  <2>20. CASE PollComplete
    BY <2>20 DEF PollComplete, txVars, rxVars
  <2>21. CASE PollIntEnable
    BY <2>21 DEF PollIntEnable, txVars, rxVars
  <2>22. CASE UNCHANGED vars
    BY <2>22 DEF vars, txVars, rxVars, irqVars
  <2>23. QED
    BY <2>1, <2>2, <2>3, <2>4, <2>5, <2>6, <2>7, <2>8, <2>9, <2>10, <2>11,
       <2>12, <2>13, <2>14, <2>15, <2>16, <2>17, <2>18, <2>19, <2>20, <2>21, <2>22
       DEF Next, Dma, Poll
<1>3. QED
  BY <1>1, <1>2, TypeCorrect, PTL DEF Spec
-----------------------------------------------------------------------------
(* The rings as windows: where a descriptor is, counted from dirty.        *)

\* The quotient and the remainder of a division determine the number.
LEMMA DivideLemma ==
  ASSUME NEW n \in Nat \ {0}, NEW x \in Nat
  PROVE  /\ x % n \in 0..(n - 1) /\ x \div n \in Nat
         /\ x = n * (x \div n) + (x % n)
  OBVIOUS

LEMMA RemainderLemma ==
  ASSUME NEW n \in Nat \ {0}, NEW q \in Nat, NEW r \in 0..(n - 1)
  PROVE  (n * q + r) % n = r
  BY n * q + r \in Nat, Z3

\* The slot k descriptors after slot b in a ring of n, and how many descriptors
\* after slot b slot s is.
Ahead(n, b, k) == IF b + k < n THEN b + k ELSE b + k - n
Offset(n, b, s) == IF b <= s THEN s - b ELSE s + n - b

\* Counting on from x by at most a ring moves the slot ahead as far.
LEMMA ModLemma ==
  ASSUME NEW n \in Nat \ {0}, NEW x \in Nat, NEW k \in 0..n
  PROVE  (x + k) % n = Ahead(n, x % n, k)
<1>1. PICK q \in Nat, r \in 0..(n - 1) : x = n * q + r /\ x % n = r
  BY DivideLemma
<1>2. x + k \in Nat
  OBVIOUS
<1>3. CASE r + k < n
  <2>1. r + k \in 0..(n - 1) /\ x + k = n * q + (r + k)
    BY <1>1, <1>3
  <2>2. (n * q + (r + k)) % n = r + k
    BY <2>1, RemainderLemma, Zenon
  <2>3. QED
    BY <1>1, <1>3, <2>1, <2>2 DEF Ahead
<1>4. CASE r + k >= n
  <2>1. r + k - n \in 0..(n - 1) /\ q + 1 \in Nat
    BY <1>4
  <2>2. x + k = n * (q + 1) + (r + k - n)
    BY <1>1, <1>4
  <2>3. (n * (q + 1) + (r + k - n)) % n = r + k - n
    BY <2>1, RemainderLemma, Zenon
  <2>4. QED
    BY <1>1, <1>4, <2>2, <2>3 DEF Ahead
<1>5. QED
  BY <1>3, <1>4

\* The slots of the counters, which wrap at a multiple of the ring's size.
LEMMA SlotLemma ==
  /\ \A x \in Counts : /\ TxSlot(Inc(x)) = Ahead(TxSize, TxSlot(x), 1)
                       /\ RxSlot(Inc(x)) = Ahead(RxSize, RxSlot(x), 1)
  /\ \A x \in Counts, k \in 0..TxSize : TxSlot(x + k) = Ahead(TxSize, TxSlot(x), k)
  /\ \A x \in Counts, k \in 0..RxSize : RxSlot(x + k) = Ahead(RxSize, RxSlot(x), k)
  /\ \A s \in TxSlots : (s + 1) % TxSize = Ahead(TxSize, s, 1)
  /\ \A s \in RxSlots : (s + 1) % RxSize = Ahead(RxSize, s, 1)
<1> USE RingAssumption
<1>1. ASSUME NEW n \in Nat \ {0}, CountMod % n = 0, NEW x \in Counts
      PROVE  Inc(x) % n = Ahead(n, x % n, 1)
  <2>1. (x + 1) % n = Ahead(n, x % n, 1)
    <3>1. x \in Nat /\ 1 \in 0..n
      BY DEF Counts
    <3>2. QED
      BY <3>1, ModLemma, Zenon
  <2>2. 0 % n = 0
    BY <1>1
  <2>3. QED
    BY <1>1, <2>1, <2>2 DEF Inc, Counts
<1>2. ASSUME NEW n \in Nat \ {0}, NEW s \in 0..(n - 1)
      PROVE  (s + 1) % n = Ahead(n, s, 1)
  <2>1. s % n = s
    OBVIOUS
  <2>2. s \in Nat /\ 1 \in 0..n
    OBVIOUS
  <2>3. (s + 1) % n = Ahead(n, s % n, 1)
    BY <2>2, ModLemma, Zenon
  <2>4. QED
    BY <2>1, <2>3
<1>3. ASSUME NEW n \in Nat \ {0}, NEW x \in Counts, NEW k \in 0..n
      PROVE  (x + k) % n = Ahead(n, x % n, k)
  <2>1. x \in Nat
    BY DEF Counts
  <2>2. QED
    BY <2>1, ModLemma, Zenon
<1>4. QED
  BY <1>1, <1>2, <1>3 DEF TxSlot, RxSlot, TxSlots, RxSlots

TxCount == Diff(txCurr, txDirty)
RxCount == Diff(rxCurr, rxDirty)

\* The transmit ring: from dirty on come the packets sent and not reaped, one
\* for each that TX_STATUS counts, then from the engine's position on those to
\* be sent, up to curr; beyond it every descriptor is empty and has no packet.
TxRingInv ==
    /\ TxCount <= TxSize /\ txPs <= TxCount
    /\ TxSlot(txCurr) = Ahead(TxSize, TxSlot(txDirty), TxCount)
    /\ txHw = Ahead(TxSize, TxSlot(txDirty), txPs)
    /\ \A s \in TxSlots :
          /\ txSkb[s] <=> Offset(TxSize, TxSlot(txDirty), s) < TxCount
          /\ ~txEmpty[s] <=> /\ txPs <= Offset(TxSize, TxSlot(txDirty), s)
                             /\ Offset(TxSize, TxSlot(txDirty), s) < TxCount

\* The receive ring: from dirty on come the descriptors to be refilled, up to
\* curr, then the packets received and not delivered, one for each that
\* RX_STATUS counts, up to the engine's position; beyond it the free buffers.
RxRingInv ==
    /\ RxCount + rxPr <= RxSize
    /\ RxSlot(rxCurr) = Ahead(RxSize, RxSlot(rxDirty), RxCount)
    /\ rxHw = Ahead(RxSize, RxSlot(rxDirty), RxCount + rxPr)
    /\ \A s \in RxSlots :
          /\ ~rxSkb[s] <=> Offset(RxSize, RxSlot(rxDirty), s) < RxCount
          /\ ~rxEmpty[s] <=> Offset(RxSize, RxSlot(rxDirty), s) < RxCount + rxPr
    /\ ~rxEn => rxOf

\* Ahead and Offset are inverse to each other, and move with dirty.
LEMMA WindowLemma ==
  ASSUME NEW n \in Nat \ {0}, NEW b \in 0..(n - 1)
  PROVE  /\ \A k \in 0..n : Ahead(n, b, k) \in 0..(n - 1)
         /\ Ahead(n, b, 0) = b
         /\ \A k \in 0..(n - 1) :
               /\ Offset(n, b, Ahead(n, b, k)) = k
               /\ Ahead(n, Ahead(n, b, k), 1) = Ahead(n, b, k + 1)
               /\ Ahead(n, Ahead(n, b, 1), k) = Ahead(n, b, k + 1)
         /\ \A s \in 0..(n - 1) :
               /\ Offset(n, b, s) \in 0..(n - 1)
               /\ Ahead(n, b, Offset(n, b, s)) = s
               /\ s # b => Offset(n, Ahead(n, b, 1), s) = Offset(n, b, s) - 1
         /\ Offset(n, Ahead(n, b, 1), b) = n - 1
  BY DEF Ahead, Offset

\* The variables TxRingInv is about.
txRing == <<txCurr, txDirty, txEmpty, txSkb, txHw, txPs>>

\* An action that leaves the ring alone keeps its invariant.
LEMMA TxRingKept == TxRingInv /\ UNCHANGED txRing => TxRingInv'
  BY Zenon DEF TxRingInv, txRing, TxCount

\* The transmit ring has its three parts in every reachable state.
THEOREM TxRing == Spec => []TxRingInv
<1> DEFINE b == TxSlot(txDirty)
           o(s) == Offset(TxSize, TxSlot(txDirty), s)
<1>1. Init => TxRingInv
  <2>1. 0 \in Counts /\ 0 \in TxSlots
    BY RingAssumption DEF Counts, TxSlots
  <2>2. 0 % TxSize = 0
    BY RingAssumption
  <2>3. QED
    BY <2>1, <2>2, RingAssumption
       DEF Init, TxRingInv, TxCount, Diff, TxSlot, Ahead, Offset, TxSlots
<1>2. TypeOK /\ TxStopDiscipline /\ TxRingInv /\ [Next]_vars => TxRingInv'
  <2> SUFFICES ASSUME TypeOK, TxStopDiscipline, TxRingInv, [Next]_vars
               PROVE  TxRingInv'
    OBVIOUS
  <2>a. /\ b \in 0..(TxSize - 1) /\ TxSize \in Nat \ {0} /\ TxCount \in Nat
        /\ txPs \in Nat /\ TxSlots = 0..(TxSize - 1)
    <3>1. /\ txDirty \in Counts /\ txCurr \in Counts /\ txPs \in Nat
          /\ TxSize \in Nat \ {0}
      BY RingAssumption, Zenon DEF TypeOK
    <3>2. TxSlot(txDirty) \in TxSlots /\ TxCount \in Counts
      BY <3>1, CountLemma, Zenon DEF TxCount
    <3>3. QED
      BY <3>1, <3>2 DEF TxSlots, Counts
  <2>b. /\ \A s \in TxSlots : o(s) \in 0..(TxSize - 1)
        /\ \A s \in TxSlots, k \in 0..(TxSize - 1) :
              (s = Ahead(TxSize, b, k)) <=> (o(s) = k)
    BY <2>a DEF Ahead, Offset
  <2>1. CASE DmaSend
    <3>1. /\ ~txEmpty[txHw] /\ txHw \in TxSlots
          /\ txEmpty' = [txEmpty EXCEPT ![txHw] = TRUE]
          /\ txHw' = Ahead(TxSize, txHw, 1) /\ txPs' = txPs + 1
          /\ UNCHANGED <<txCurr, txDirty, txSkb>>
      BY <2>1, SlotLemma DEF DmaSend, TypeOK
    <3>2. txPs < TxCount /\ txPs \in 0..(TxSize - 1) /\ o(txHw) = txPs
      <4>1. txPs <= o(txHw) /\ o(txHw) < TxCount /\ TxCount <= TxSize
        BY <3>1 DEF TxRingInv
      <4>2. txPs \in 0..(TxSize - 1)
        BY <4>1, <3>1, <2>a, <2>b
      <4>3. QED
        BY <4>1, <4>2, <3>1, <2>a, <2>b DEF TxRingInv
    <3>3. txHw' = Ahead(TxSize, b, txPs + 1)
      BY <3>1, <3>2, <2>a, WindowLemma DEF TxRingInv
    <3>4. ASSUME NEW s \in TxSlots
          PROVE  ~txEmpty'[s] <=> txPs + 1 <= o(s) /\ o(s) < TxCount
      <4>1. s = txHw <=> o(s) = txPs
        BY <3>2, <2>b DEF TxRingInv
      <4>2. ~txEmpty[s] <=> txPs <= o(s) /\ o(s) < TxCount
        BY DEF TxRingInv
      <4>3. txEmpty'[s] = IF s = txHw THEN TRUE ELSE txEmpty[s]
        BY <3>1 DEF TypeOK
      <4>4. o(s) \in 0..(TxSize - 1)
        BY <2>b
      <4>5. QED
        BY <4>1, <4>2, <4>3, <4>4, <2>a
    <3>5. TxCount' = TxCount /\ b' = b
      BY <3>1 DEF TxCount
    <3>6. QED
      BY <3>1, <3>2, <3>3, <3>4, <3>5, <2>a DEF TxRingInv, TxCount
  <2>2. CASE HardStartXmit
    <3> DEFINE i == TxSlot(txCurr)
    <3>1. /\ txSkb' = [txSkb EXCEPT ![i] = TRUE]
          /\ txEmpty' = [txEmpty EXCEPT ![i] = FALSE]
          /\ txCurr' = Inc(txCurr) /\ UNCHANGED <<txDirty, txHw, txPs>>
          /\ i \in TxSlots /\ TxCount < TxSize
      BY <2>2, <2>a, CountLemma, RingAssumption
         DEF HardStartXmit, TypeOK, TxStopDiscipline, TxCount
    <3>2. TxCount' = TxCount + 1 /\ b' = b
      BY <3>1, <2>a, DiffLemma, RingAssumption DEF TypeOK, TxCount
    <3>3. TxSlot(txCurr)' = Ahead(TxSize, b, TxCount + 1)
      <4>1. TxSlot(txCurr)' = Ahead(TxSize, i, 1)
        BY <3>1, SlotLemma DEF TypeOK
      <4>2. i = Ahead(TxSize, b, TxCount) /\ TxCount \in 0..(TxSize - 1)
        BY <3>1, <2>a DEF TxRingInv
      <4>3. QED
        BY <4>1, <4>2, <2>a, WindowLemma
    <3>4. ASSUME NEW s \in TxSlots
          PROVE  /\ txSkb'[s] <=> o(s) < TxCount + 1
                 /\ ~txEmpty'[s] <=> txPs <= o(s) /\ o(s) < TxCount + 1
      <4>1. s = i <=> o(s) = TxCount
        <5>1. TxCount \in 0..(TxSize - 1) /\ i = Ahead(TxSize, b, TxCount)
          BY <3>1, <2>a DEF TxRingInv
        <5>2. QED
          BY <5>1, <2>b, Zenon
      <4>2. /\ txSkb[s] <=> o(s) < TxCount
            /\ ~txEmpty[s] <=> txPs <= o(s) /\ o(s) < TxCount
            /\ txPs <= TxCount
        BY DEF TxRingInv
      <4>3. /\ txSkb'[s] = IF s = i THEN TRUE ELSE txSkb[s]
            /\ txEmpty'[s] = IF s = i THEN FALSE ELSE txEmpty[s]
        BY <3>1 DEF TypeOK
      <4>4. o(s) \in 0..(TxSize - 1)
        BY <2>b
      <4>5. QED
        BY <4>1, <4>2, <4>3, <4>4, <2>a
    <3>5. QED
      BY <3>1, <3>2, <3>3, <3>4, <2>a DEF TxRingInv
  <2>3. CASE TxReap
    <3> DEFINE c == Ahead(TxSize, b, 1)
               p(s) == Offset(TxSize, Ahead(TxSize, b, 1), s)
    <3>1. /\ txEmpty[b] /\ txDirty # txCurr
          /\ txPs' = IF txPs > 0 THEN txPs - 1 ELSE 0
          /\ txSkb' = [txSkb EXCEPT ![b] = FALSE]
          /\ txDirty' = Inc(txDirty) /\ UNCHANGED <<txCurr, txEmpty, txHw>>
      BY <2>3 DEF TxReap
    <3>2. TxCount' = TxCount - 1 /\ TxCount > 0 /\ b' = c
      BY <3>1, DiffLemma, SlotLemma DEF TypeOK, TxCount
    <3>3. txPs > 0 /\ txPs <= TxCount /\ TxCount <= TxSize /\ txPs' = txPs - 1
      <4>1. b \in TxSlots /\ o(b) = 0
        BY <2>a DEF Offset
      <4>2. ~(txPs <= 0 /\ 0 < TxCount)
        BY <3>1, <4>1 DEF TxRingInv
      <4>3. QED
        BY <4>2, <3>1, <3>2, <2>a DEF TxRingInv
    <3>4. /\ TxSlot(txCurr) = Ahead(TxSize, c, TxCount - 1)
          /\ txHw = Ahead(TxSize, c, txPs - 1)
      <4>1. TxCount - 1 \in 0..(TxSize - 1) /\ txPs - 1 \in 0..(TxSize - 1)
        BY <3>2, <3>3, <2>a
      <4>2. /\ Ahead(TxSize, c, TxCount - 1) = Ahead(TxSize, b, TxCount - 1 + 1)
            /\ Ahead(TxSize, c, txPs - 1) = Ahead(TxSize, b, txPs - 1 + 1)
        BY <4>1, <2>a, WindowLemma
      <4>3. QED
        BY <4>2, <2>a DEF TxRingInv
    <3>5. ASSUME NEW s \in TxSlots
          PROVE  /\ txSkb'[s] <=> p(s) < TxCount - 1
                 /\ ~txEmpty'[s] <=> txPs - 1 <= p(s) /\ p(s) < TxCount - 1
      <4>1. IF s = b THEN o(s) = 0 /\ p(s) = TxSize - 1 ELSE p(s) = o(s) - 1
        BY <2>a DEF Ahead, Offset
      <4>2. /\ txSkb[s] <=> o(s) < TxCount
            /\ ~txEmpty[s] <=> txPs <= o(s) /\ o(s) < TxCount
        BY DEF TxRingInv
      <4>3. txSkb'[s] = (IF s = b THEN FALSE ELSE txSkb[s]) /\ txEmpty'[s] = txEmpty[s]
        BY <3>1 DEF TypeOK
      <4>4. o(s) \in 0..(TxSize - 1)
        BY <2>b
      <4>5. QED
        BY <4>1, <4>2, <4>3, <4>4, <3>1, <3>2, <3>3, <2>a
    <3>6. QED
      BY <3>1, <3>2, <3>3, <3>4, <3>5, <2>a DEF TxRingInv
  <2>4. CASE DmaSendIdle \/ DmaReceive \/ DmaOverflow \/ Interrupt \/ OomTimer
    BY <2>4, TxRingKept, Zenon DEF DmaSendIdle, DmaReceive, DmaOverflow, Interrupt,
       OomTimer, txRing, txVars
  <2>5. CASE PollStart \/ TxReapEnd \/ RxPacket \/ RxPacketsEnd
    BY <2>5, TxRingKept, Zenon DEF PollStart, TxReapEnd, RxPacket, RxPacketsEnd,
       txRing, txVars
  <2>6. CASE RxRefill \/ RxRefillFail \/ RxRefillEnd
    BY <2>6, TxRingKept, Zenon DEF RxRefill, RxRefillFail, RxRefillEnd, txRing, txVars
  <2>7. CASE PollOom \/ PollRxStatus \/ PollTxStatus \/ PollComplete \/ PollIntEnable
    BY <2>7, TxRingKept, Zenon DEF PollOom, PollRxStatus, PollTxStatus, PollComplete,
       PollIntEnable, txRing, txVars
  <2>8. CASE UNCHANGED vars
    BY <2>8, TxRingKept, Zenon DEF vars, txRing, txVars
  <2>9. QED
    BY <2>1, <2>2, <2>3, <2>4, <2>5, <2>6, <2>7, <2>8 DEF Next, Dma, Poll
<1>3. QED
  BY <1>1, <1>2, TypeCorrect, StopDiscipline, PTL DEF Spec
-----------------------------------------------------------------------------
\* The variables RxRingInv is about, and actions that leave them alone.
rxRing == <<rxCurr, rxDirty, rxEmpty, rxSkb, rxHw, rxPr, rxEn, rxOf>>

LEMMA RxRingKept == RxRingInv /\ UNCHANGED rxRing => RxRingInv'
  BY DEF RxRingInv, rxRing, RxCount

\* What the receive ring's parts are made of.
LEMMA RxWindowLemma ==
  ASSUME TypeOK
  PROVE  /\ RxSlot(rxDirty) \in 0..(RxSize - 1) /\ RxSize \in Nat \ {0}
         /\ RxCount \in Nat /\ rxPr \in Nat /\ RxSlots = 0..(RxSize - 1)
         /\ \A s \in RxSlots :
               Offset(RxSize, RxSlot(rxDirty), s) \in 0..(RxSize - 1)
         /\ \A s \in RxSlots, k \in 0..(RxSize - 1) :
               (s = Ahead(RxSize, RxSlot(rxDirty), k))
                  <=> (Offset(RxSize, RxSlot(rxDirty), s) = k)
<1>1. /\ rxDirty \in Counts /\ rxCurr \in Counts /\ rxPr \in Nat
      /\ RxSize \in Nat \ {0}
  BY RingAssumption, Zenon DEF TypeOK
<1>2. RxSlot(rxDirty) \in RxSlots /\ RxCount \in Counts
  BY <1>1, CountLemma, Zenon DEF RxCount
<1>3. QED
  BY <1>1, <1>2 DEF RxSlots, Counts, Ahead, Offset

\* The receive ring has its three parts in every reachable state.
THEOREM RxRing == Spec => []RxRingInv
<1> DEFINE b == RxSlot(rxDirty)
           o(s) == Offset(RxSize, RxSlot(rxDirty), s)
<1>1. Init => RxRingInv
  <2>1. 0 \in Counts /\ 0 \in RxSlots
    BY RingAssumption DEF Counts, RxSlots
  <2>2. 0 % RxSize = 0
    BY RingAssumption
  <2>3. QED
    BY <2>1, <2>2, RingAssumption
       DEF Init, RxRingInv, RxCount, Diff, RxSlot, Ahead, Offset, RxSlots
<1>2. TypeOK /\ RxRingInv /\ [Next]_vars => RxRingInv'
  <2> SUFFICES ASSUME TypeOK, RxRingInv, [Next]_vars PROVE RxRingInv'
    OBVIOUS
  <2>a. /\ b \in 0..(RxSize - 1) /\ RxSize \in Nat \ {0} /\ RxCount \in Nat
        /\ rxPr \in Nat /\ RxSlots = 0..(RxSize - 1)
    BY RxWindowLemma, Zenon
  <2>b. /\ \A s \in RxSlots : o(s) \in 0..(RxSize - 1)
        /\ \A s \in RxSlots, k \in 0..(RxSize - 1) :
              (s = Ahead(RxSize, b, k)) <=> (o(s) = k)
    BY RxWindowLemma, Zenon
  <2>1. CASE DmaReceive
    <3> DEFINE e == RxCount + rxPr
    <3>1. /\ rxEmpty[rxHw] /\ rxHw \in RxSlots
          /\ rxEmpty' = [rxEmpty EXCEPT ![rxHw] = FALSE]
          /\ rxHw' = Ahead(RxSize, rxHw, 1) /\ rxPr' = rxPr + 1
          /\ UNCHANGED <<rxCurr, rxDirty, rxSkb, rxEn, rxOf>>
      BY <2>1, SlotLemma DEF DmaReceive, TypeOK
    <3>2. ~(o(rxHw) < e) /\ e <= RxSize
      BY <3>1 DEF RxRingInv
    <3>3. e \in 0..(RxSize - 1)
      BY <3>1, <3>2, <2>a, <2>b
    <3>4. rxHw' = Ahead(RxSize, b, e + 1)
      BY <3>1, <3>3, <2>a, WindowLemma DEF RxRingInv
    <3>5. RxCount' = RxCount /\ b' = b /\ RxCount' + rxPr' = e + 1
      BY <3>1, <2>a DEF RxCount
    <3>6. ASSUME NEW s \in RxSlots
          PROVE  ~rxEmpty'[s] <=> o(s) < e + 1
      <4>1. s = rxHw <=> o(s) = e
        BY <3>3, <2>b, Zenon DEF RxRingInv
      <4>2. ~rxEmpty[s] <=> o(s) < e
        BY DEF RxRingInv
      <4>3. rxEmpty'[s] = IF s = rxHw THEN FALSE ELSE rxEmpty[s]
        BY <3>1 DEF TypeOK
      <4>4. o(s) \in 0..(RxSize - 1)
        BY <2>b
      <4>5. QED
        BY <4>1, <4>2, <4>3, <4>4, <2>a
    <3>7. QED
      BY <3>1, <3>3, <3>4, <3>5, <3>6, <2>a DEF RxRingInv
  <2>2. CASE RxPacket /\ ~RxExhausted
    <3> DEFINE i == RxSlot(rxCurr)
    <3>1. /\ ~rxEmpty[i] /\ i \in RxSlots /\ RxCount # RxSize
          /\ rxPr' = IF rxPr > 0 THEN rxPr - 1 ELSE 0
          /\ rxSkb' = [rxSkb EXCEPT ![i] = FALSE]
          /\ rxCurr' = Inc(rxCurr)
          /\ UNCHANGED <<rxDirty, rxEmpty, rxHw, rxEn, rxOf>>
      BY <2>2, CountLemma DEF RxPacket, RxExhausted, RxCount, TypeOK
    <3>2. /\ RxCount \in 0..(RxSize - 1) /\ RxCount + rxPr <= RxSize
          /\ i = Ahead(RxSize, b, RxCount)
      BY <3>1, <2>a DEF RxRingInv
    <3>3. o(i) = RxCount
      BY <3>1, <3>2, <2>b, Zenon
    <3>4. rxPr > 0 /\ rxPr' = rxPr - 1
      <4>1. o(i) < RxCount + rxPr
        BY <3>1 DEF RxRingInv
      <4>2. QED
        BY <4>1, <3>1, <3>3, <2>a
    <3>5. RxCount' = RxCount + 1 /\ b' = b /\ RxCount' + rxPr' = RxCount + rxPr
      <4>1. RxCount < CountMod - 1 /\ rxCurr \in Counts /\ rxDirty \in Counts
        BY <3>2, RingAssumption DEF TypeOK
      <4>2. RxCount' = RxCount + 1
        BY <4>1, <3>1, DiffLemma DEF RxCount
      <4>3. QED
        BY <4>2, <3>1, <3>4, <2>a
    <3>6. RxSlot(rxCurr)' = Ahead(RxSize, b, RxCount + 1)
      <4>1. RxSlot(rxCurr)' = Ahead(RxSize, i, 1)
        BY <3>1, SlotLemma DEF TypeOK
      <4>2. QED
        BY <4>1, <3>2, <2>a, WindowLemma
    <3>7. ASSUME NEW s \in RxSlots
          PROVE  ~rxSkb'[s] <=> o(s) < RxCount + 1
      <4>1. s = i <=> o(s) = RxCount
        BY <3>2, <2>b, Zenon
      <4>2. ~rxSkb[s] <=> o(s) < RxCount
        BY DEF RxRingInv
      <4>3. rxSkb'[s] = IF s = i THEN FALSE ELSE rxSkb[s]
        BY <3>1 DEF TypeOK
      <4>4. o(s) \in 0..(RxSize - 1)
        BY <2>b
      <4>5. QED
        BY <4>1, <4>2, <4>3, <4>4, <2>a
    <3>8. QED
      BY <3>1, <3>2, <3>4, <3>5, <3>6, <3>7, <2>a DEF RxRingInv
  <2>3. CASE RxRefill
    <3> DEFINE c == Ahead(RxSize, b, 1)
               p(s) == Offset(RxSize, Ahead(RxSize, b, 1), s)
    <3>1. /\ rxCurr # rxDirty
          /\ rxSkb' = [rxSkb EXCEPT ![b] = TRUE]
          /\ rxEmpty' = [rxEmpty EXCEPT ![b] = TRUE]
          /\ rxDirty' = Inc(rxDirty)
          /\ UNCHANGED <<rxCurr, rxHw, rxEn, rxPr, rxOf>>
      BY <2>3 DEF RxRefill
    <3>2. RxCount' = RxCount - 1 /\ RxCount > 0 /\ b' = c
      BY <3>1, DiffLemma, SlotLemma DEF TypeOK, RxCount
    <3>3. RxCount + rxPr <= RxSize
      BY DEF RxRingInv
    <3>4. /\ RxSlot(rxCurr) = Ahead(RxSize, c, RxCount - 1)
          /\ rxHw = Ahead(RxSize, c, RxCount + rxPr - 1)
      <4>1. RxCount - 1 \in 0..(RxSize - 1) /\ RxCount + rxPr - 1 \in 0..(RxSize - 1)
        BY <3>2, <3>3, <2>a
      <4>2. /\ Ahead(RxSize, c, RxCount - 1) = Ahead(RxSize, b, RxCount - 1 + 1)
            /\ Ahead(RxSize, c, RxCount + rxPr - 1)
                  = Ahead(RxSize, b, RxCount + rxPr - 1 + 1)
        BY <4>1, <2>a, WindowLemma
      <4>3. QED
        BY <4>2, <2>a DEF RxRingInv
    <3>5. ASSUME NEW s \in RxSlots
          PROVE  /\ ~rxSkb'[s] <=> p(s) < RxCount - 1
                 /\ ~rxEmpty'[s] <=> p(s) < RxCount - 1 + rxPr
      <4>1. IF s = b THEN o(s) = 0 /\ p(s) = RxSize - 1 ELSE p(s) = o(s) - 1
        BY <2>a DEF Ahead, Offset
      <4>2. /\ ~rxSkb[s] <=> o(s) < RxCount
            /\ ~rxEmpty[s] <=> o(s) < RxCount + rxPr
        BY DEF RxRingInv
      <4>3. /\ rxSkb'[s] = IF s = b THEN TRUE ELSE rxSkb[s]
            /\ rxEmpty'[s] = IF s = b THEN TRUE ELSE rxEmpty[s]
        BY <3>1 DEF TypeOK
      <4>4. o(s) \in 0..(RxSize - 1)
        BY <2>b
      <4>5. QED
        BY <4>1, <4>2, <4>3, <4>4, <3>2, <3>3, <2>a
    <3>6. RxCount' + rxPr' = RxCount - 1 + rxPr /\ RxCount' + rxPr' = RxCount + rxPr - 1
      BY <3>1, <3>2, <2>a
    <3>7. QED
      BY <3>1, <3>2, <3>3, <3>4, <3>5, <3>6, <2>a DEF RxRingInv
  <2>4. CASE DmaOverflow
    BY <2>4 DEF DmaOverflow, RxRingInv, RxCount
  <2>5. CASE PollRxStatus
    BY <2>5, Zenon DEF PollRxStatus, RxRingInv, RxCount
  <2>6. CASE RxPacket /\ RxExhausted
    BY <2>6, RxRingKept DEF RxPacket, rxRing
  <2>7. CASE DmaSend \/ DmaSendIdle \/ Interrupt \/ OomTimer \/ HardStartXmit
    BY <2>7, RxRingKept, Zenon DEF DmaSend, DmaSendIdle, Interrupt, OomTimer,
       HardStartXmit, rxRing, rxVars
  <2>8. CASE PollStart \/ TxReap \/ TxReapEnd \/ RxPacketsEnd
    BY <2>8, RxRingKept, Zenon DEF PollStart, TxReap, TxReapEnd, RxPacketsEnd,
       rxRing, rxVars
  <2>9. CASE RxRefillFail \/ RxRefillEnd
    BY <2>9, RxRingKept, Zenon DEF RxRefillFail, RxRefillEnd, rxRing, rxVars
  <2>10. CASE PollOom \/ PollTxStatus \/ PollComplete \/ PollIntEnable
    BY <2>10, RxRingKept, Zenon DEF PollOom, PollTxStatus, PollComplete,
       PollIntEnable, rxRing, rxVars
  <2>11. CASE UNCHANGED vars
    BY <2>11, RxRingKept, Zenon DEF vars, rxRing, rxVars
  <2>12. QED
    BY <2>1, <2>2, <2>3, <2>4, <2>5, <2>6, <2>7, <2>8, <2>9, <2>10, <2>11
       DEF Next, Dma, Poll
<1>3. QED
  BY <1>1, <1>2, TypeCorrect, PTL DEF Spec
-----------------------------------------------------------------------------
\* What the windows are made of: the slots less than a count ahead of dirty.
LEMMA WindowSlots ==
  ASSUME TypeOK
  PROVE  /\ TxCount <= TxSize =>
              TxWindow = {s \in TxSlots : Offset(TxSize, TxSlot(txDirty), s) < TxCount}
         /\ RxCount <= RxSize =>
              RxWindow = {s \in RxSlots : Offset(RxSize, RxSlot(rxDirty), s) < RxCount}
<1>1. /\ txDirty \in Counts /\ txCurr \in Counts /\ TxSize \in Nat \ {0}
      /\ rxDirty \in Counts /\ rxCurr \in Counts /\ RxSize \in Nat \ {0}
  BY RingAssumption, Zenon DEF TypeOK
<1>2. /\ TxSlot(txDirty) \in TxSlots /\ TxCount \in Counts
      /\ RxSlot(rxDirty) \in RxSlots /\ RxCount \in Counts
  BY <1>1, CountLemma, Zenon DEF TxCount, RxCount
<1>3. /\ \A k \in 0..TxSize : TxSlot(txDirty + k) = Ahead(TxSize, TxSlot(txDirty), k)
      /\ \A k \in 0..RxSize : RxSlot(rxDirty + k) = Ahead(RxSize, RxSlot(rxDirty), k)
  BY <1>1, SlotLemma, Zenon
<1>4. ASSUME NEW n \in Nat \ {0}, NEW b \in 0..(n - 1), NEW c \in 0..n
      PROVE  {Ahead(n, b, k) : k \in 0..(c - 1)} = {s \in 0..(n - 1) : Offset(n, b, s) < c}
  <2>1. \A k \in 0..(c - 1) : k \in 0..n /\ k \in 0..(n - 1)
    OBVIOUS
  <2>2. ASSUME NEW k \in 0..(c - 1)
        PROVE  Ahead(n, b, k) \in 0..(n - 1) /\ Offset(n, b, Ahead(n, b, k)) < c
    <3>1. Ahead(n, b, k) \in 0..(n - 1) /\ Offset(n, b, Ahead(n, b, k)) = k
      BY <2>1 DEF Ahead, Offset
    <3>2. QED
      BY <3>1
  <2>3. ASSUME NEW s \in 0..(n - 1), Offset(n, b, s) < c
        PROVE  \E k \in 0..(c - 1) : s = Ahead(n, b, k)
    <3>1. Offset(n, b, s) \in 0..(c - 1) /\ s = Ahead(n, b, Offset(n, b, s))
      BY <2>3, WindowLemma
    <3>2. QED
      BY <3>1
  <2>4. QED
    BY <2>2, <2>3
<1>5. ASSUME TxCount <= TxSize
      PROVE  TxWindow = {s \in TxSlots : Offset(TxSize, TxSlot(txDirty), s) < TxCount}
  <2>1. \A k \in 0..(TxCount - 1) : k \in 0..TxSize
    BY <1>1, <1>2, <1>5 DEF Counts
  <2>2. TxWindow = {Ahead(TxSize, TxSlot(txDirty), k) : k \in 0..(TxCount - 1)}
    BY <1>3, <2>1 DEF TxWindow, TxCount
  <2>3. TxCount \in 0..TxSize /\ TxSlot(txDirty) \in 0..(TxSize - 1)
    BY <1>1, <1>2, <1>5 DEF Counts, TxSlots
  <2>4. QED
    BY <1>1, <1>4, <2>2, <2>3 DEF TxSlots
<1>6. ASSUME RxCount <= RxSize
      PROVE  RxWindow = {s \in RxSlots : Offset(RxSize, RxSlot(rxDirty), s) < RxCount}
  <2>1. \A k \in 0..(RxCount - 1) : k \in 0..RxSize
    BY <1>1, <1>2, <1>6 DEF Counts
  <2>2. RxWindow = {Ahead(RxSize, RxSlot(rxDirty), k) : k \in 0..(RxCount - 1)}
    BY <1>3, <2>1 DEF RxWindow, RxCount
  <2>3. RxCount \in 0..RxSize /\ RxSlot(rxDirty) \in 0..(RxSize - 1)
    BY <1>1, <1>2, <1>6 DEF Counts, RxSlots
  <2>4. QED
    BY <1>1, <1>4, <2>2, <2>3 DEF RxSlots
<1>7. QED
  BY <1>5, <1>6

\* The transmit ring holds exactly the packets between dirty and curr: the reaper
\* meets no null skb, and xmit overwrites none.
THEOREM SkbInFlight == Spec => []TxSkbInFlight
<1>1. TypeOK /\ TxRingInv => TxSkbInFlight
  BY WindowSlots DEF TxRingInv, TxSkbInFlight
<1>2. QED
  BY <1>1, TypeCorrect, TxRing, PTL

\* Exactly the receive descriptors between dirty and curr lack a buffer.
THEOREM SkbOwned == Spec => []RxSkbOwned
<1>1. TypeOK /\ RxRingInv => RxSkbOwned
  <2> SUFFICES ASSUME TypeOK, RxRingInv PROVE RxSkbOwned
    OBVIOUS
  <2>1. RxCount <= RxSize
    BY RxWindowLemma DEF RxRingInv
  <2>2. QED
    BY <2>1, WindowSlots DEF RxRingInv, RxSkbOwned
<1>2. QED
  BY <1>1, TypeCorrect, RxRing, PTL

\* With the queue running the next descriptor is free: xmit drops no packet.
THEOREM RoomWhenRunning == Spec => []TxRoomWhenRunning
<1>1. TypeOK /\ TxStopDiscipline /\ TxRingInv => TxRoomWhenRunning
  <2> SUFFICES ASSUME TypeOK, TxStopDiscipline, TxRingInv, ~txStopped
               PROVE  txEmpty[TxSlot(txCurr)]
    BY DEF TxRoomWhenRunning
  <2>1. /\ txDirty \in Counts /\ txCurr \in Counts /\ TxSize \in Nat \ {0}
        /\ TxCount < TxThresStop
    BY RingAssumption, Zenon DEF TypeOK, TxStopDiscipline, TxCount
  <2>2. /\ TxSlot(txDirty) \in TxSlots /\ TxCount \in Counts
        /\ TxSlot(txCurr) \in TxSlots
    BY <2>1, CountLemma, Zenon DEF TxCount
  <2>3. TxSlot(txDirty) \in 0..(TxSize - 1) /\ TxCount \in 0..(TxSize - 1)
    BY <2>1, <2>2, RingAssumption DEF TxSlots, Counts
  <2>4. Offset(TxSize, TxSlot(txDirty), TxSlot(txCurr)) = TxCount
    BY <2>1, <2>3, WindowLemma DEF TxRingInv
  <2>5. QED
    BY <2>2, <2>3, <2>4 DEF TxRingInv
<1>2. QED
  BY <1>1, TypeCorrect, StopDiscipline, TxRing, PTL

\* No packet waits that the status registers do not tell of, and a receiver that
\* has stopped shows the overflow: leaving the poll loses nothing.
THEOREM Announced == Spec => []WorkAnnounced
<1>1. TypeOK /\ TxRingInv => ((txDirty # txCurr /\ txEmpty[TxSlot(txDirty)]) => txPs > 0)
  <2> SUFFICES ASSUME TypeOK, TxRingInv, txDirty # txCurr, txEmpty[TxSlot(txDirty)]
               PROVE  txPs > 0
    OBVIOUS
  <2>1. /\ txDirty \in Counts /\ txCurr \in Counts /\ TxSize \in Nat \ {0}
        /\ txPs \in Nat
    BY RingAssumption, Zenon DEF TypeOK
  <2>2. TxSlot(txDirty) \in TxSlots /\ TxCount > 0
    BY <2>1, CountLemma, DiffLemma DEF TxCount
  <2>3. Offset(TxSize, TxSlot(txDirty), TxSlot(txDirty)) = 0
    BY <2>1, <2>2 DEF Offset, TxSlots
  <2>4. QED
    BY <2>1, <2>2, <2>3 DEF TxRingInv
<1>2. TypeOK /\ RxRingInv => ((~rxEmpty[RxSlot(rxCurr)] /\ ~RxExhausted) => rxPr > 0)
  <2> SUFFICES ASSUME TypeOK, RxRingInv, ~rxEmpty[RxSlot(rxCurr)], ~RxExhausted
               PROVE  rxPr > 0
    OBVIOUS
  <2> DEFINE b == RxSlot(rxDirty)
  <2>1. RxSlot(rxCurr) \in RxSlots /\ RxCount # RxSize
    BY CountLemma, Zenon DEF TypeOK, RxExhausted, RxCount
  <2>2. RxSlot(rxCurr) = Ahead(RxSize, b, RxCount) /\ RxCount \in 0..(RxSize - 1)
    BY <2>1, RxWindowLemma DEF RxRingInv
  <2>3. Offset(RxSize, b, RxSlot(rxCurr)) = RxCount
    BY <2>1, <2>2, RxWindowLemma, Zenon
  <2>4. Offset(RxSize, b, RxSlot(rxCurr)) < RxCount + rxPr
    BY <2>1 DEF RxRingInv
  <2>5. QED
    BY <2>3, <2>4, RxWindowLemma
<1>3. RxRingInv => (~rxEn => rxOf)
  BY DEF RxRingInv
<1>4. TypeOK /\ TxRingInv /\ RxRingInv => WorkAnnounced
  BY <1>1, <1>2, <1>3, Zenon DEF WorkAnnounced
<1>5. QED
  BY <1>4, TypeCorrect, TxRing, RxRing, PTL
===============================================================================
