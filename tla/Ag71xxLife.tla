------------------------------ MODULE Ag71xxLife ------------------------------
(***************************************************************************)
(* The life of an AG71xx interface: ifup and ifdown, link changes and the  *)
(* restart after a transmit timeout, against interrupts, polls, the stack  *)
(* and the DMA engine (ag71xx_main.c, ag71xx_phy.c).  The rings are seen   *)
(* as a whole here; Ag71xxNapi has their descriptors.                      *)
(*                                                                         *)
(* The kernel is uniprocessor and not preemptible: a handler is one step   *)
(* up to a call that may sleep.  Open and stop sleep in the allocator, in  *)
(* phy_start and phy_stop and in napi_disable.  Restart work, link work    *)
(* and the link watch run one at a time in the thread of the shared work   *)
(* queue, here "work"; ifup and ifdown run in "rtnl" under that lock.      *)
(***************************************************************************)
EXTENDS Naturals

CONSTANTS
    TxThresStop, TxThresWakeup,  \* as in Ag71xxNapi
    Boards,       \* the kinds of board checked: see "board" below
    MaxCloses, MaxOpenFails, MaxFlaps,  \* bounds on these events
    MaxHangs      \* bound on the hangs of the transmit engine

ASSUME LifeAssumption ==
    /\ TxThresStop \in Nat \ {0} /\ TxThresWakeup \in 1..TxThresStop
    /\ Boards \subseteq [ar724x : BOOLEAN, linkPoll : BOOLEAN, watchdog : BOOLEAN]
    /\ MaxCloses \in Nat /\ MaxOpenFails \in Nat
    /\ MaxFlaps \in Nat /\ MaxHangs \in Nat

VARIABLES
    board,         \* platform data, fixed at probe: ar724x is pdata->is_ar724x,
                   \* fast reset instead of stop and open; linkPoll says that a
                   \* PHY or switch reports the link, which is fixed otherwise;
                   \* watchdog is no hardware: either the stack's watchdog may
                   \* find a queue stopped for too long, or ifdown may happen
    pc,            \* where "rtnl" and "work" are in open or stop
    up,            \* IFF_UP
    stack,         \* a queueing discipline is attached: the stack may transmit
    queueStopped,  \* netif_stop_queue
    carrier,       \* netif_carrier_ok
    cable,         \* what the PHY sees
    polling,       \* phylib's state machine, or the switch's link work, runs
    link,          \* ag->link
    rings,         \* the buffers of both rings: none, live or freed
    doubleFree,    \* a freed ring buffer has been freed again
    regs,          \* [tx, rx, int, ring]: TXE, RXE, interrupts on, and the
                   \* descriptor registers point to the rings, not stop_desc
    status,        \* [tx, rx]: TX_STATUS and RX_STATUS have packets to report
    unsent, sent,  \* packets in the transmit ring, not yet sent; not yet reaped
    napi,          \* NAPI_STATE_SCHED: free, scheduled or held by napi_disable
    restartWork,   \* restart_work is queued
    closes, openFails, flaps, hangs

netVars == <<up, stack, queueStopped, carrier>>
linkVars == <<cable, polling, link>>
ringVars == <<rings, doubleFree, unsent, sent>>
hwVars == <<regs, status>>
bounds == <<closes, openFails, flaps, hangs>>
vars == <<board, pc, netVars, linkVars, ringVars, hwVars, napi, restartWork, bounds>>

Threads == {"rtnl", "work"}
IsAr724x == board.ar724x
HasLinkPoll == board.linkPoll
Quiet == [tx |-> FALSE, rx |-> FALSE]

\* After ag71xx_probe: the hardware is reset and the interface down.
Init ==
    /\ board \in Boards
    /\ pc = [t \in Threads |-> "idle"]
    /\ up = FALSE /\ stack = FALSE /\ queueStopped = FALSE /\ carrier = TRUE
    /\ cable \in BOOLEAN /\ polling = FALSE /\ link = FALSE
    /\ rings = "none" /\ doubleFree = FALSE /\ unsent = 0 /\ sent = 0
    /\ regs = [tx |-> FALSE, rx |-> FALSE, int |-> FALSE, ring |-> FALSE]
    /\ status = Quiet
    /\ napi = "held" /\ restartWork = FALSE
    /\ closes = 0 /\ openFails = 0 /\ flaps = 0 /\ hangs = 0
-----------------------------------------------------------------------------
(* ag71xx_link_adjust and what it calls. *)

\* ag71xx_hw_stop
Stopped(r) == [r EXCEPT !.tx = FALSE, !.rx = FALSE, !.int = FALSE]

\* ag71xx_hw_start, after ag71xx_fast_reset on the AR724x.
Started(r) == [r EXCEPT !.tx = @ /\ ~IsAr724x, !.rx = TRUE, !.int = TRUE]

LinkAdjust(up_) ==
    /\ link' = up_
    /\ carrier' = up_
    /\ regs' = IF up_ THEN Started(regs) ELSE Stopped(regs)
    /\ status' = IF up_ /\ IsAr724x THEN Quiet ELSE status

\* The PHY state machine or the switch's link work sees that the link changed.
LinkPoll ==
    /\ polling /\ pc["work"] = "idle"
    /\ cable # link
    /\ LinkAdjust(cable)
    /\ UNCHANGED <<board, pc, up, stack, queueStopped, cable, polling, ringVars,
                   napi, restartWork, bounds>>

\* It sees a new speed or duplex setting of a link that is up.
SpeedChange ==
    /\ polling /\ pc["work"] = "idle"
    /\ cable /\ link
    /\ flaps < MaxFlaps /\ flaps' = flaps + 1
    /\ LinkAdjust(TRUE)
    /\ UNCHANGED <<board, pc, up, stack, queueStopped, cable, polling, ringVars,
                   napi, restartWork, closes, openFails, hangs>>

\* Somebody plugs or pulls the cable.
CableChange ==
    /\ flaps < MaxFlaps /\ flaps' = flaps + 1
    /\ cable' = ~cable
    /\ UNCHANGED <<board, pc, netVars, polling, link, ringVars, hwVars, napi,
                   restartWork, closes, openFails, hangs>>

\* linkwatch_event attaches or detaches the queueing discipline; it runs in the
\* work queue and takes the rtnl lock.
LinkWatch ==
    /\ up /\ stack # carrier
    /\ \A t \in Threads : pc[t] = "idle"
    /\ stack' = carrier
    /\ UNCHANGED <<board, pc, up, queueStopped, carrier, linkVars, ringVars,
                   hwVars, napi, restartWork, bounds>>
-----------------------------------------------------------------------------
(* ag71xx_open and ag71xx_stop *)

OpenAfter(t) == [pc EXCEPT ![t] = "open"]

\* ifup: dev_open calls ag71xx_open.
IfUp ==
    /\ pc["rtnl"] = "idle" /\ ~up
    /\ pc' = OpenAfter("rtnl")
    /\ UNCHANGED <<board, netVars, linkVars, ringVars, hwVars, napi,
                   restartWork, bounds>>

\* ag71xx_rings_init, then napi_enable and netif_carrier_off.
OpenAlloc(t) ==
    /\ pc[t] = "open"
    /\ rings' = "live"
    /\ unsent' = 0 /\ sent' = 0
    /\ napi' = "free"
    /\ carrier' = FALSE
    /\ pc' = [pc EXCEPT ![t] = "start"]
    /\ UNCHANGED <<board, up, stack, queueStopped, linkVars, doubleFree, hwVars,
                   restartWork, bounds>>

\* An allocation fails: ag71xx_rings_cleanup frees what the buf pointers point
\* to.  They are not cleared, so that after a stop, if the failure comes before
\* new buffers are allocated, that is memory freed before.
OpenFail(t) ==
    /\ pc[t] = "open"
    /\ openFails < MaxOpenFails /\ openFails' = openFails + 1
    /\ rings' \in {rings, "freed"}
    /\ doubleFree' \in {doubleFree, doubleFree \/ rings = "freed"}
    /\ pc' = [pc EXCEPT ![t] = "idle"]
    /\ UNCHANGED <<board, netVars, linkVars, unsent, sent, hwVars, napi,
                   restartWork, closes, flaps, hangs>>

\* Mutant of OpenStart: netif_start_queue is forgotten.
OpenStartNoQueue(t) ==
    /\ pc[t] = "start"
    /\ polling' = HasLinkPoll
    /\ IF HasLinkPoll
       THEN /\ regs' = [regs EXCEPT !.ring = TRUE]
            /\ UNCHANGED <<link, carrier, status>>
       ELSE /\ link' = TRUE /\ carrier' = TRUE
            /\ regs' = [Started(regs) EXCEPT !.ring = TRUE]
            /\ status' = IF IsAr724x THEN Quiet ELSE status
    /\ up' = (up \/ t = "rtnl")
    /\ stack' = (stack \/ (t = "rtnl" /\ carrier'))
    /\ pc' = [pc EXCEPT ![t] = "idle"]
    /\ UNCHANGED <<board, queueStopped, cable, ringVars, napi, restartWork,
                   bounds>>

\* ag71xx_phy_start, the descriptor registers, netif_start_queue; for ifup,
\* dev_activate attaches the queueing discipline if there is a carrier.
OpenStart(t) ==
    /\ pc[t] = "start"
    /\ polling' = HasLinkPoll
    /\ IF HasLinkPoll
       THEN /\ regs' = [regs EXCEPT !.ring = TRUE]
            /\ UNCHANGED <<link, carrier, status>>
       ELSE /\ link' = TRUE /\ carrier' = TRUE
            /\ regs' = [Started(regs) EXCEPT !.ring = TRUE]
            /\ status' = IF IsAr724x THEN Quiet ELSE status
    /\ queueStopped' = FALSE
    /\ up' = (up \/ t = "rtnl")
    /\ stack' = (stack \/ (t = "rtnl" /\ carrier'))
    /\ pc' = [pc EXCEPT ![t] = "idle"]
    /\ UNCHANGED <<board, cable, ringVars, napi, restartWork, bounds>>

\* ifdown: dev_close detaches the queueing discipline and calls ag71xx_stop.
IfDown ==
    /\ pc["rtnl"] = "idle" /\ up /\ ~board.watchdog
    /\ closes < MaxCloses /\ closes' = closes + 1
    /\ up' = FALSE /\ stack' = FALSE /\ carrier' = FALSE
    /\ pc' = [pc EXCEPT !["rtnl"] = "stop"]
    /\ UNCHANGED <<board, queueStopped, linkVars, ringVars, hwVars, napi,
                   restartWork, openFails, flaps, hangs>>

\* Mutants of StopHw: ag71xx_hw_stop and the stop in ag71xx_dma_reset are
\* forgotten; ag71xx_phy_stop leaves ag->link as it is.
StopHwNoStop(t) ==
    /\ pc[t] = "stop"
    /\ polling' = FALSE
    /\ link' = FALSE
    /\ carrier' = (carrier /\ ~link)
    /\ queueStopped' = TRUE
    /\ regs' = [regs EXCEPT !.ring = FALSE]
    /\ status' = Quiet
    /\ pc' = [pc EXCEPT ![t] = "disable"]
    /\ UNCHANGED <<board, up, stack, cable, ringVars, napi, restartWork,
                   bounds>>
StopHwKeepLink(t) ==
    /\ pc[t] = "stop"
    /\ polling' = FALSE
    /\ carrier' = FALSE
    /\ queueStopped' = TRUE
    /\ regs' = [Stopped(regs) EXCEPT !.ring = FALSE]
    /\ status' = Quiet
    /\ pc' = [pc EXCEPT ![t] = "disable"]
    /\ UNCHANGED <<board, up, stack, cable, link, ringVars, napi, restartWork,
                   bounds>>

\* ag71xx_phy_stop, netif_stop_queue, ag71xx_hw_stop and ag71xx_dma_reset.
StopHw(t) ==
    /\ pc[t] = "stop"
    /\ polling' = FALSE
    /\ link' = FALSE
    /\ carrier' = (carrier /\ ~link)
    /\ queueStopped' = TRUE
    /\ regs' = [Stopped(regs) EXCEPT !.ring = FALSE]
    /\ status' = Quiet
    /\ pc' = [pc EXCEPT ![t] = "disable"]
    /\ UNCHANGED <<board, up, stack, cable, ringVars, napi, restartWork,
                   bounds>>

\* Mutant of StopFree: it does not wait for the poll.
StopFreeNoWait(t) ==
    /\ pc[t] = "disable"
    /\ rings' = "freed"
    /\ unsent' = 0 /\ sent' = 0
    /\ pc' = IF t = "work" THEN OpenAfter(t) ELSE [pc EXCEPT ![t] = "idle"]
    /\ UNCHANGED <<board, netVars, linkVars, doubleFree, hwVars, napi,
                   restartWork, bounds>>

\* napi_disable has waited for a scheduled poll; ag71xx_rings_cleanup.
StopFree(t) ==
    /\ pc[t] = "disable"
    /\ napi = "free"
    /\ napi' = "held"
    /\ rings' = "freed"
    /\ unsent' = 0 /\ sent' = 0
    /\ pc' = IF t = "work" THEN OpenAfter(t) ELSE [pc EXCEPT ![t] = "idle"]
    /\ UNCHANGED <<board, netVars, linkVars, doubleFree, hwVars, restartWork,
                   bounds>>
-----------------------------------------------------------------------------
(* Restart *)

\* Nothing moves in the transmit ring: no packet to send that the engine could
\* take, none to reap that a poll is due for.
TxIdle ==
    /\ ~(regs.tx /\ regs.ring /\ unsent > 0)
    /\ sent > 0 => /\ napi # "scheduled"
                   /\ ~(regs.int /\ (status.tx \/ status.rx))

\* The watchdog finds the queue stopped for too long, because the ring is idle or
\* the engine hangs, and calls ag71xx_tx_timeout.
TxTimeout ==
    /\ board.watchdog
    /\ stack /\ carrier /\ queueStopped /\ ~restartWork
    /\ \/ TxIdle /\ UNCHANGED hangs
       \/ ~TxIdle /\ hangs < MaxHangs /\ hangs' = hangs + 1
    /\ restartWork' = TRUE
    /\ UNCHANGED <<board, pc, netVars, linkVars, ringVars, hwVars, napi, closes,
                   openFails, flaps>>

\* ag71xx_restart_work_func: on the AR724x the link is taken down, for the link
\* poll to bring it up again with a fast reset; elsewhere stop and open.
RestartWork ==
    /\ restartWork /\ pc["work"] = "idle"
    /\ restartWork' = FALSE
    /\ IF IsAr724x
       THEN /\ LinkAdjust(FALSE)
            /\ UNCHANGED pc
       ELSE /\ carrier' = FALSE
            /\ pc' = [pc EXCEPT !["work"] = "stop"]
            /\ UNCHANGED <<link, hwVars>>
    /\ UNCHANGED <<board, up, stack, queueStopped, cable, polling, ringVars,
                   napi, bounds>>
-----------------------------------------------------------------------------
(* The data path, with whole rings *)

\* ag71xx_hard_start_xmit
Xmit ==
    /\ stack /\ ~queueStopped
    /\ unsent + sent < TxThresStop
    /\ unsent' = unsent + 1
    /\ queueStopped' = (unsent' + sent = TxThresStop)
    /\ regs' = [regs EXCEPT !.tx = TRUE]
    /\ UNCHANGED <<board, pc, up, stack, carrier, linkVars, rings, doubleFree,
                   sent, status, napi, restartWork, bounds>>

DmaSend ==
    /\ regs.tx /\ regs.ring /\ unsent > 0
    /\ unsent' = unsent - 1 /\ sent' = sent + 1
    /\ status' = [status EXCEPT !.tx = TRUE]
    /\ UNCHANGED <<board, pc, netVars, linkVars, rings, doubleFree, regs, napi,
                   restartWork, bounds>>

DmaReceive ==
    /\ regs.rx /\ regs.ring
    /\ ~status.rx /\ status' = [status EXCEPT !.rx = TRUE]
    /\ UNCHANGED <<board, pc, netVars, linkVars, ringVars, regs, napi,
                   restartWork, bounds>>

\* ag71xx_interrupt; napi_schedule does nothing while napi_disable waits.
Interrupt ==
    /\ regs.int /\ (status.tx \/ status.rx)
    /\ regs' = [regs EXCEPT !.int = FALSE]
    /\ napi' = IF napi = "free" /\ (\A t \in Threads : pc[t] # "disable")
               THEN "scheduled" ELSE napi
    /\ UNCHANGED <<board, pc, netVars, linkVars, ringVars, status, restartWork,
                   bounds>>

\* ag71xx_poll, which may find that the engine of an AR7240 is stuck.
Poll ==
    /\ napi = "scheduled"
    /\ napi' = "free"
    /\ regs' = [regs EXCEPT !.int = TRUE]
    /\ status' = Quiet
    /\ sent' = 0
    /\ queueStopped' = (queueStopped /\ unsent >= TxThresWakeup)
    /\ \/ UNCHANGED <<restartWork, hangs>>
       \/ /\ IsAr724x /\ unsent > 0 /\ carrier
          /\ hangs < MaxHangs /\ hangs' = hangs + 1
          /\ restartWork' = TRUE
    /\ UNCHANGED <<board, pc, up, stack, carrier, linkVars, rings, doubleFree,
                   unsent, closes, openFails, flaps>>

Next ==
    \/ LinkPoll \/ SpeedChange \/ CableChange \/ LinkWatch
    \/ IfUp \/ IfDown
    \/ \E t \in Threads :
        OpenAlloc(t) \/ OpenFail(t) \/ OpenStart(t) \/ StopHw(t) \/ StopFree(t)
    \/ TxTimeout \/ RestartWork
    \/ Xmit \/ DmaSend \/ DmaReceive \/ Interrupt \/ Poll

Spec == Init /\ [][Next]_vars

\* Threads that can run do run, interrupts and softirqs are served, the link is
\* polled, the engine sends and the watchdog fires.  Nobody has to call ifup or
\* ifdown, move the cable, or send.
Fairness ==
    /\ WF_vars(LinkPoll) /\ WF_vars(LinkWatch) /\ WF_vars(RestartWork)
    /\ \A t \in Threads :
        WF_vars(OpenAlloc(t) \/ OpenStart(t) \/ StopHw(t) \/ StopFree(t))
    /\ WF_vars(TxTimeout) /\ WF_vars(DmaSend)
    /\ WF_vars(Interrupt) /\ WF_vars(Poll)

FairSpec == Spec /\ Fairness
-----------------------------------------------------------------------------
TypeOK ==
    /\ board \in Boards
    /\ pc \in [Threads -> {"idle", "open", "start", "stop", "disable"}]
    /\ up \in BOOLEAN /\ stack \in BOOLEAN
    /\ queueStopped \in BOOLEAN /\ carrier \in BOOLEAN
    /\ cable \in BOOLEAN /\ polling \in BOOLEAN /\ link \in BOOLEAN
    /\ rings \in {"none", "live", "freed"} /\ doubleFree \in BOOLEAN
    /\ regs \in [tx : BOOLEAN, rx : BOOLEAN, int : BOOLEAN, ring : BOOLEAN]
    /\ status \in [tx : BOOLEAN, rx : BOOLEAN]
    /\ unsent \in 0..TxThresStop /\ sent \in 0..TxThresStop
    /\ napi \in {"free", "scheduled", "held"}
    /\ restartWork \in BOOLEAN
    /\ closes \in 0..MaxCloses /\ openFails \in 0..MaxOpenFails
    /\ flaps \in 0..MaxFlaps /\ hangs \in 0..MaxHangs

\* Nobody works on freed rings: while a descriptor register points to the rings,
\* while a poll is scheduled, and while the stack may call xmit, the rings that
\* ag71xx_rings_cleanup frees are allocated.  (Not for xmit during a restart, where
\* the poll that napi_disable waits for may wake the queue of an attached stack.)
NoUseAfterFree ==
    /\ regs.ring => rings = "live"
    /\ napi = "scheduled" => rings = "live"
    /\ stack /\ ~queueStopped /\ ~board.watchdog => rings = "live"

\* "clearing the descriptors too early causes random memory corruption"
\* (ag71xx_dma_reset): when the ag71xx_rings_cleanup of an ifdown runs, the engine
\* is stopped.
StoppedWhenCleared ==
    (pc["rtnl"] = "disable" /\ napi = "free") => ~regs.tx /\ ~regs.rx

\* ag71xx_ring_rx_clean takes a ring whose buf is not NULL for an allocated one:
\* a ring is never freed twice.
NoDoubleFree == ~doubleFree

\* The allocations of a restart's ag71xx_open succeed; when one fails, nobody
\* tries again, and the interface is up and dead until the next ifdown.
RestartsSucceed == [](board.watchdog => openFails = 0)

\* An interface that is up and stays up, with a link that stays up, ends up with
\* a carrier and a running receiver.
LinkComesUp == RestartsSucceed /\ <>[](up /\ cable) => <>[](carrier /\ regs.rx)

\* On a link that stays up a stopped queue is woken in the end, if need be by
\* the watchdog's restart; on the AR724x, whose restart does not touch the queue,
\* nobody would.
TxRecovers ==
    /\ board.watchdog /\ ~IsAr724x
    /\ RestartsSucceed /\ <>[](up /\ cable)
    => (queueStopped ~> ~queueStopped)
===============================================================================
