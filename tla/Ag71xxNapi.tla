------------------------------ MODULE Ag71xxNapi ------------------------------
(***************************************************************************)
(* The data path of the AG71xx Ethernet driver (ag71xx_main.c): transmit   *)
(* and receive descriptor rings shared by the CPU and the DMA engine, the  *)
(* interrupt handler, the NAPI poll routine and the out-of-memory timer.   *)
(*                                                                         *)
(* The AR71xx is a uniprocessor: poll runs in a softirq and                *)
(* ag71xx_hard_start_xmit with softirqs off, so neither interrupts the     *)
(* other, except that netif_receive_skb may forward the packet and so call *)
(* xmit from inside the receive loop.  The DMA engine and the interrupt    *)
(* handler interleave with every register or descriptor access.  The       *)
(* engine itself is hardware: its actions (Dma...) are modelled from how   *)
(* the driver uses the descriptors and the status registers.               *)
(***************************************************************************)
EXTENDS Naturals

CONSTANTS
    TxSize,         \* AG71XX_TX_RING_SIZE
    TxThresStop,    \* AG71XX_TX_THRES_STOP
    TxThresWakeup,  \* AG71XX_TX_THRES_WAKEUP
    RxSize,         \* AG71XX_RX_RING_SIZE
    Limit,          \* the NAPI weight passed to ag71xx_poll
    CountMod,       \* the ring counters curr and dirty wrap at CountMod (2^32)
    MaxAllocFails   \* bound: how often dev_alloc_skb may fail in a behaviour

ASSUME RingAssumption ==
    /\ TxSize \in Nat \ {0} /\ RxSize \in Nat \ {0} /\ Limit \in Nat \ {0}
    /\ TxThresStop \in 1..TxSize
    /\ TxThresWakeup \in 1..TxThresStop
    /\ CountMod \in Nat /\ CountMod > TxSize /\ CountMod > RxSize
    /\ CountMod % TxSize = 0 /\ CountMod % RxSize = 0
    /\ MaxAllocFails \in Nat

VARIABLES
    txCurr, txDirty,  \* tx_ring.curr and tx_ring.dirty
    txEmpty,          \* DESC_EMPTY of each transmit descriptor
    txSkb,            \* does tx_ring.buf[i].skb point to a packet
    txStopped,        \* the network stack's queue is stopped (netif_stop_queue)
    txHw, txEn, txPs, \* DMA position, TX_CTRL_TXE, packets counted in TX_STATUS
    rxCurr, rxDirty,  \* rx_ring.curr and rx_ring.dirty
    rxEmpty,          \* DESC_EMPTY of each receive descriptor
    rxSkb,            \* does rx_ring.buf[i].skb point to a buffer
    rxHw, rxEn, rxPr, \* DMA position, RX_CTRL_RXE, packets counted in RX_STATUS
    rxOf,             \* RX_STATUS_OF
    intEn,            \* the AG71XX_INT_POLL bits of INT_ENABLE
    napi,             \* NAPI_STATE_SCHED
    oomTimer,         \* oom_timer is pending
    pc,               \* where the poll routine is
    done,             \* packets received by this call of ag71xx_rx_packets
    allocFails        \* failed allocations so far

txVars == <<txCurr, txDirty, txEmpty, txSkb, txStopped, txHw, txEn, txPs>>
rxVars == <<rxCurr, rxDirty, rxEmpty, rxSkb, rxHw, rxEn, rxPr, rxOf>>
irqVars == <<intEn, napi, oomTimer>>
vars == <<txVars, rxVars, irqVars, pc, done, allocFails>>

TxSlots == 0..(TxSize - 1)
RxSlots == 0..(RxSize - 1)
Counts  == 0..(CountMod - 1)

TxSlot(n) == n % TxSize
RxSlot(n) == n % RxSize

\* Unsigned increment and difference of the ring counters.
Inc(n) == IF n + 1 = CountMod THEN 0 ELSE n + 1
Diff(a, b) == IF b <= a THEN a - b ELSE a + CountMod - b

PollSteps == {"idle", "tx", "rx", "refill", "check", "checkTx", "complete",
              "enable", "bug"}
-----------------------------------------------------------------------------
\* The rings as ag71xx_open leaves them once the link is up.
Init ==
    /\ txCurr = 0 /\ txDirty = 0 /\ txHw = 0
    /\ txEmpty = [s \in TxSlots |-> TRUE]
    /\ txSkb = [s \in TxSlots |-> FALSE]
    /\ txStopped = FALSE /\ txEn = FALSE /\ txPs = 0
    /\ rxCurr = 0 /\ rxDirty = 0 /\ rxHw = 0
    /\ rxEmpty = [s \in RxSlots |-> TRUE]
    /\ rxSkb = [s \in RxSlots |-> TRUE]
    /\ rxEn = TRUE /\ rxPr = 0 /\ rxOf = FALSE
    /\ intEn = TRUE /\ napi = FALSE /\ oomTimer = FALSE
    /\ pc = "idle" /\ done = 0 /\ allocFails = 0
-----------------------------------------------------------------------------
(* The DMA engine. *)

\* The engine sends the packet of its next descriptor and hands it back.
DmaSend ==
    /\ txEn /\ ~txEmpty[txHw]
    /\ txEmpty' = [txEmpty EXCEPT ![txHw] = TRUE]
    /\ txHw' = (txHw + 1) % TxSize
    /\ txPs' = txPs + 1
    /\ UNCHANGED <<txCurr, txDirty, txSkb, txStopped, txEn,
                   rxVars, irqVars, pc, done, allocFails>>

\* It finds no packet to send and stops until TX_CTRL_TXE is written again.
DmaSendIdle ==
    /\ txEn /\ txEmpty[txHw]
    /\ txEn' = FALSE
    /\ UNCHANGED <<txCurr, txDirty, txEmpty, txSkb, txStopped, txHw, txPs,
                   rxVars, irqVars, pc, done, allocFails>>

\* A packet arrives and goes to the next free receive buffer.
DmaReceive ==
    /\ rxEn /\ rxEmpty[rxHw]
    /\ rxEmpty' = [rxEmpty EXCEPT ![rxHw] = FALSE]
    /\ rxHw' = (rxHw + 1) % RxSize
    /\ rxPr' = rxPr + 1
    /\ UNCHANGED <<rxCurr, rxDirty, rxSkb, rxEn, rxOf,
                   txVars, irqVars, pc, done, allocFails>>

\* A packet arrives and no buffer is free: overflow, the receiver stops.
DmaOverflow ==
    /\ rxEn /\ ~rxEmpty[rxHw]
    /\ rxOf' = TRUE
    /\ rxEn' = FALSE
    /\ UNCHANGED <<rxCurr, rxDirty, rxEmpty, rxSkb, rxHw, rxPr,
                   txVars, irqVars, pc, done, allocFails>>
-----------------------------------------------------------------------------
(* Interrupt handler, timer and transmit entry point. *)

\* Mutant of Interrupt: the polling interrupts stay enabled.
InterruptUnmasked ==
    /\ intEn /\ (txPs > 0 \/ rxPr > 0 \/ rxOf)
    /\ pc # "bug"
    /\ napi' = TRUE
    /\ UNCHANGED <<txVars, rxVars, intEn, oomTimer, pc, done, allocFails>>

\* ag71xx_interrupt: mask the polling interrupts and schedule the poll.
Interrupt ==
    /\ intEn /\ (txPs > 0 \/ rxPr > 0 \/ rxOf)
    /\ pc # "bug"
    /\ intEn' = FALSE
    /\ napi' = TRUE
    /\ UNCHANGED <<txVars, rxVars, oomTimer, pc, done, allocFails>>

\* Mutant of OomTimer: the handler does not schedule the poll.
OomTimerNoSchedule ==
    /\ oomTimer /\ pc = "idle"
    /\ oomTimer' = FALSE
    /\ UNCHANGED <<txVars, rxVars, intEn, napi, pc, done, allocFails>>

\* ag71xx_oom_timer_handler
OomTimer ==
    /\ oomTimer /\ pc = "idle"
    /\ oomTimer' = FALSE
    /\ napi' = TRUE
    /\ UNCHANGED <<txVars, rxVars, intEn, pc, done, allocFails>>

\* Mutant of HardStartXmit: the stop mark is compared with curr before it moves.
HardStartXmitLateStop ==
    LET i == TxSlot(txCurr) IN
    /\ pc \in {"idle", "rx"}
    /\ ~txStopped
    /\ txEmpty[i]
    /\ txSkb' = [txSkb EXCEPT ![i] = TRUE]
    /\ txEmpty' = [txEmpty EXCEPT ![i] = FALSE]
    /\ txCurr' = Inc(txCurr)
    /\ txStopped' = (Diff(txCurr, txDirty) = TxThresStop)
    /\ txEn' = TRUE
    /\ UNCHANGED <<txDirty, txHw, txPs, rxVars, irqVars, pc, done, allocFails>>

\* ag71xx_hard_start_xmit.  A packet for a descriptor that is still in use is
\* dropped, which changes nothing here.
HardStartXmit ==
    LET i == TxSlot(txCurr) IN
    /\ pc \in {"idle", "rx"}
    /\ ~txStopped
    /\ txEmpty[i]
    /\ txSkb' = [txSkb EXCEPT ![i] = TRUE]
    /\ txEmpty' = [txEmpty EXCEPT ![i] = FALSE]
    /\ txCurr' = Inc(txCurr)
    /\ txStopped' = (Diff(Inc(txCurr), txDirty) = TxThresStop)
    /\ txEn' = TRUE
    /\ UNCHANGED <<txDirty, txHw, txPs, rxVars, irqVars, pc, done, allocFails>>
-----------------------------------------------------------------------------
(* ag71xx_poll *)

\* net_rx_action calls the poll routine of a scheduled NAPI instance.
PollStart ==
    /\ pc = "idle" /\ napi
    /\ pc' = "tx"
    /\ UNCHANGED <<txVars, rxVars, irqVars, done, allocFails>>

\* Mutants of TxReap: the skb pointer is not cleared; one write acknowledges
\* every packet counted in TX_STATUS.
TxReapKeepSkb ==
    /\ pc = "tx"
    /\ txDirty # txCurr
    /\ txEmpty[TxSlot(txDirty)]
    /\ txPs' = IF txPs > 0 THEN txPs - 1 ELSE 0
    /\ txDirty' = Inc(txDirty)
    /\ UNCHANGED <<txCurr, txEmpty, txSkb, txStopped, txHw, txEn,
                   rxVars, irqVars, pc, done, allocFails>>
TxReapAckAll ==
    /\ pc = "tx"
    /\ txDirty # txCurr
    /\ txEmpty[TxSlot(txDirty)]
    /\ txPs' = 0
    /\ txSkb' = [txSkb EXCEPT ![TxSlot(txDirty)] = FALSE]
    /\ txDirty' = Inc(txDirty)
    /\ UNCHANGED <<txCurr, txEmpty, txStopped, txHw, txEn,
                   rxVars, irqVars, pc, done, allocFails>>

\* ag71xx_tx_packets, one turn of the loop: acknowledge and free a sent packet.
TxReap ==
    LET i == TxSlot(txDirty) IN
    /\ pc = "tx"
    /\ txDirty # txCurr
    /\ txEmpty[i]
    /\ txPs' = IF txPs > 0 THEN txPs - 1 ELSE 0
    /\ txSkb' = [txSkb EXCEPT ![i] = FALSE]
    /\ txDirty' = Inc(txDirty)
    /\ UNCHANGED <<txCurr, txEmpty, txStopped, txHw, txEn,
                   rxVars, irqVars, pc, done, allocFails>>

\* Mutant of TxReapEnd: the queue is woken however few descriptors are free.
TxReapEndAlwaysWake ==
    /\ pc = "tx"
    /\ txDirty = txCurr \/ ~txEmpty[TxSlot(txDirty)]
    /\ txStopped' = FALSE
    /\ pc' = "rx"
    /\ done' = 0
    /\ UNCHANGED <<txCurr, txDirty, txEmpty, txSkb, txHw, txEn, txPs,
                   rxVars, irqVars, allocFails>>

\* The end of that loop: wake the queue if enough descriptors are free.
TxReapEnd ==
    /\ pc = "tx"
    /\ txDirty = txCurr \/ ~txEmpty[TxSlot(txDirty)]
    /\ txStopped' = (txStopped /\ Diff(txCurr, txDirty) >= TxThresWakeup)
    /\ pc' = "rx"
    /\ done' = 0
    /\ UNCHANGED <<txCurr, txDirty, txEmpty, txSkb, txHw, txEn, txPs,
                   rxVars, irqVars, allocFails>>

\* Every descriptor is in the hands of the driver: curr is a ring ahead of dirty.
RxExhausted == Diff(rxCurr, rxDirty) = RxSize

\* ag71xx_rx_packets, one turn of the loop: acknowledge and deliver a packet,
\* or ag71xx_assert(0) if the descriptor is one the driver has yet to refill.
RxPacket ==
    LET i == RxSlot(rxCurr) IN
    /\ pc = "rx" /\ done < Limit
    /\ ~rxEmpty[i]
    /\ IF RxExhausted
       THEN pc' = "bug" /\ UNCHANGED <<rxPr, rxSkb, rxCurr, done>>
       ELSE /\ rxPr' = IF rxPr > 0 THEN rxPr - 1 ELSE 0
            /\ rxSkb' = [rxSkb EXCEPT ![i] = FALSE]
            /\ rxCurr' = Inc(rxCurr)
            /\ done' = done + 1
            /\ UNCHANGED pc
    /\ UNCHANGED <<rxDirty, rxEmpty, rxHw, rxEn, rxOf,
                   txVars, irqVars, allocFails>>

\* ag71xx_rx_packets leaves its loop.
RxPacketsEnd ==
    /\ pc = "rx"
    /\ done = Limit \/ rxEmpty[RxSlot(rxCurr)]
    /\ pc' = "refill"
    /\ UNCHANGED <<txVars, rxVars, irqVars, done, allocFails>>

\* ag71xx_ring_rx_refill, one turn of the loop: give a descriptor a new buffer.
RxRefill ==
    LET i == RxSlot(rxDirty) IN
    /\ pc = "refill"
    /\ rxCurr # rxDirty
    /\ rxSkb' = [rxSkb EXCEPT ![i] = TRUE]
    /\ rxEmpty' = [rxEmpty EXCEPT ![i] = TRUE]
    /\ rxDirty' = Inc(rxDirty)
    /\ UNCHANGED <<rxCurr, rxHw, rxEn, rxPr, rxOf,
                   txVars, irqVars, pc, done, allocFails>>

\* Mutants of RxRefillFail: the descriptor is handed over before the allocation
\* is tested; the loop goes on to the next descriptor instead of stopping.
RxRefillFailHandOver ==
    /\ pc = "refill"
    /\ rxCurr # rxDirty /\ ~rxSkb[RxSlot(rxDirty)]
    /\ allocFails < MaxAllocFails
    /\ allocFails' = allocFails + 1
    /\ rxEmpty' = [rxEmpty EXCEPT ![RxSlot(rxDirty)] = TRUE]
    /\ pc' = "check"
    /\ UNCHANGED <<rxCurr, rxDirty, rxSkb, rxHw, rxEn, rxPr, rxOf,
                   txVars, irqVars, done>>
RxRefillFailContinue ==
    /\ pc = "refill"
    /\ rxCurr # rxDirty /\ ~rxSkb[RxSlot(rxDirty)]
    /\ allocFails < MaxAllocFails
    /\ allocFails' = allocFails + 1
    /\ rxDirty' = Inc(rxDirty)
    /\ UNCHANGED <<rxCurr, rxEmpty, rxSkb, rxHw, rxEn, rxPr, rxOf,
                   txVars, irqVars, pc, done>>

\* dev_alloc_skb fails and the loop is left.
RxRefillFail ==
    /\ pc = "refill"
    /\ rxCurr # rxDirty /\ ~rxSkb[RxSlot(rxDirty)]
    /\ allocFails < MaxAllocFails
    /\ allocFails' = allocFails + 1
    /\ pc' = "check"
    /\ UNCHANGED <<txVars, rxVars, irqVars, done>>

RxRefillEnd ==
    /\ pc = "refill"
    /\ rxCurr = rxDirty
    /\ pc' = "check"
    /\ UNCHANGED <<txVars, rxVars, irqVars, done, allocFails>>

\* Mutant of PollOom: the timer is not started.
PollOomNoTimer ==
    /\ pc = "check"
    /\ ~rxSkb[RxSlot(rxDirty)]
    /\ napi' = FALSE
    /\ pc' = "idle"
    /\ UNCHANGED <<txVars, rxVars, intEn, oomTimer, done, allocFails>>

\* The descriptor to refill first has no buffer: poll again when the timer fires.
PollOom ==
    /\ pc = "check"
    /\ ~rxSkb[RxSlot(rxDirty)]
    /\ oomTimer' = TRUE
    /\ napi' = FALSE
    /\ pc' = "idle"
    /\ UNCHANGED <<txVars, rxVars, intEn, done, allocFails>>

\* Mutant of PollRxStatus: the overflow is acknowledged, the receiver not restarted.
PollRxStatusNoRestart ==
    /\ pc = "check"
    /\ rxSkb[RxSlot(rxDirty)]
    /\ rxOf' = FALSE
    /\ pc' = IF done < Limit /\ rxPr = 0 THEN "checkTx" ELSE "idle"
    /\ UNCHANGED <<rxCurr, rxDirty, rxEmpty, rxSkb, rxHw, rxEn, rxPr,
                   txVars, irqVars, done, allocFails>>

\* One read of RX_STATUS: restart the receiver after an overflow, and stay in
\* polling mode if the budget is used up or a packet has come in.
PollRxStatus ==
    /\ pc = "check"
    /\ rxSkb[RxSlot(rxDirty)]
    /\ rxOf' = FALSE
    /\ rxEn' = (rxEn \/ rxOf)
    /\ pc' = IF done < Limit /\ rxPr = 0 THEN "checkTx" ELSE "idle"
    /\ UNCHANGED <<rxCurr, rxDirty, rxEmpty, rxSkb, rxHw, rxPr,
                   txVars, irqVars, done, allocFails>>

\* The read of TX_STATUS.
PollTxStatus ==
    /\ pc = "checkTx"
    /\ pc' = IF txPs > 0 THEN "idle" ELSE "complete"
    /\ UNCHANGED <<txVars, rxVars, irqVars, done, allocFails>>

\* napi_complete
PollComplete ==
    /\ pc = "complete"
    /\ napi' = FALSE
    /\ pc' = "enable"
    /\ UNCHANGED <<txVars, rxVars, intEn, oomTimer, done, allocFails>>

\* ag71xx_int_enable
PollIntEnable ==
    /\ pc = "enable"
    /\ intEn' = TRUE
    /\ pc' = "idle"
    /\ UNCHANGED <<txVars, rxVars, napi, oomTimer, done, allocFails>>

Poll ==
    \/ PollStart
    \/ TxReap \/ TxReapEnd
    \/ RxPacket \/ RxPacketsEnd
    \/ RxRefill \/ RxRefillFail \/ RxRefillEnd
    \/ PollOom \/ PollRxStatus \/ PollTxStatus \/ PollComplete \/ PollIntEnable

Dma == DmaSend \/ DmaSendIdle \/ DmaReceive \/ DmaOverflow

Next == Dma \/ Interrupt \/ OomTimer \/ HardStartXmit \/ Poll

Spec == Init /\ [][Next]_vars

\* Softirqs, interrupts and timers are served, and the engine sends what it has
\* been given; nobody is obliged to send packets, and none need arrive.
Fairness ==
    /\ WF_vars(Poll) /\ WF_vars(Interrupt) /\ WF_vars(OomTimer)
    /\ WF_vars(DmaSend)

FairSpec == Spec /\ Fairness
-----------------------------------------------------------------------------
TypeOK ==
    /\ txCurr \in Counts /\ txDirty \in Counts /\ txHw \in TxSlots
    /\ txEmpty \in [TxSlots -> BOOLEAN] /\ txSkb \in [TxSlots -> BOOLEAN]
    /\ txStopped \in BOOLEAN /\ txEn \in BOOLEAN /\ txPs \in Nat
    /\ rxCurr \in Counts /\ rxDirty \in Counts /\ rxHw \in RxSlots
    /\ rxEmpty \in [RxSlots -> BOOLEAN] /\ rxSkb \in [RxSlots -> BOOLEAN]
    /\ rxEn \in BOOLEAN /\ rxPr \in Nat /\ rxOf \in BOOLEAN
    /\ intEn \in BOOLEAN /\ napi \in BOOLEAN /\ oomTimer \in BOOLEAN
    /\ pc \in PollSteps
    /\ done \in 0..Limit
    /\ allocFails \in 0..MaxAllocFails

\* The slots of the descriptors from number a up to, not including, number b.
TxWindow == {TxSlot(txDirty + k) : k \in 0..(Diff(txCurr, txDirty) - 1)}
RxWindow == {RxSlot(rxDirty + k) : k \in 0..(Diff(rxCurr, rxDirty) - 1)}

\* A descriptor the engine may work on has a buffer behind it: the engine never
\* reads or writes memory that was freed or handed to the network stack.
DmaOwnsBuffer ==
    /\ \A s \in TxSlots : ~txEmpty[s] => txSkb[s]
    /\ \A s \in RxSlots : rxEmpty[s] => rxSkb[s]

\* Exactly the packets between dirty and curr are held by the transmit ring: the
\* reaper never meets a null skb (it reads skb->len) and no packet is leaked or
\* overwritten.
TxSkbInFlight == {s \in TxSlots : txSkb[s]} = TxWindow

\* Exactly the receive descriptors between dirty and curr lack a buffer: the
\* receive loop never delivers a null skb, and refill never drops a buffer.
RxSkbOwned == {s \in RxSlots : ~rxSkb[s]} = RxWindow

\* The stack's queue is stopped in time: with the queue running there is room
\* below the stop mark, so the test for equality in xmit cannot be jumped over,
\* and the next descriptor is free, so no packet is dropped.
TxStopDiscipline ==
    /\ Diff(txCurr, txDirty) <= TxThresStop
    /\ ~txStopped => Diff(txCurr, txDirty) < TxThresStop

TxRoomWhenRunning == ~txStopped => txEmpty[TxSlot(txCurr)]

\* The duty to look at the rings has exactly one holder: the enabled interrupt,
\* the scheduled poll, the out-of-memory timer, or the poll on its way from
\* napi_complete to ag71xx_int_enable.  None would be a dead interface, two
\* a poll that re-enables the interrupts under another poll.
OnePollHolder ==
    /\ intEn \/ napi \/ oomTimer \/ pc = "enable"
    /\ intEn => ~napi /\ ~oomTimer /\ pc # "enable"
    /\ napi => ~oomTimer /\ pc # "enable"
    /\ oomTimer => pc # "enable"

\* Work the driver has not done is always visible in the status registers, so
\* that polling mode is not left, or the interrupt is raised again: a sent
\* packet not reaped, a received one not delivered, a stopped receiver.
WorkAnnounced ==
    /\ (txDirty # txCurr /\ txEmpty[TxSlot(txDirty)]) => txPs > 0
    /\ (~rxEmpty[RxSlot(rxCurr)] /\ ~RxExhausted) => rxPr > 0
    /\ ~rxEn => rxOf

\* The assertion in ag71xx_rx_packets holds: BUG is never executed.
NoRxAssert == pc # "bug"

\* A transmit queue stopped by xmit is woken again by the poll.
TxStoppedWoken == txStopped ~> ~txStopped

\* Every received packet is delivered and its descriptor refilled.
RxRecycled == \A s \in RxSlots : ~rxEmpty[s] ~> rxEmpty[s]

\* A receiver stopped by an overflow is started again.
RxRestarted == ~rxEn ~> rxEn
===============================================================================
