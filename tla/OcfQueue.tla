------------------------------ MODULE OcfQueue ------------------------------
(***************************************************************************)
(* The symmetric request path of the OCF crypto framework, crypto.c:       *)
(* crypto_dispatch in the callers' contexts, the crypto thread             *)
(* (crypto_proc), the completion upcalls of the drivers (crypto_done,      *)
(* crypto_unblock) and the callback thread (crypto_ret_proc).              *)
(*                                                                         *)
(* A member of Reqs stands for one caller and the cryptop it reuses: it    *)
(* dispatches, and may dispatch again once it was called back.  The        *)
(* drivers are external: they hold at most Cap operations, answer ERESTART *)
(* when full, and unblock the framework from their interrupt, the way      *)
(* safe.c and hifn7751.c use sc_needwakeup; the ones in Sync (cryptosoft)  *)
(* finish every operation inside process(); the ones in Mute (talitos,     *)
(* pasemi) answer ERESTART but have no call of crypto_unblock.             *)
(*                                                                         *)
(* SMP = FALSE is one CPU without kernel preemption (the routers this tree *)
(* builds for): process contexts run to completion among themselves, only  *)
(* the softirq callers in Soft and the drivers' interrupts get in between. *)
(* SMP = TRUE lets every context run between any two steps.                *)
(***************************************************************************)
EXTENDS Naturals, Sequences, FiniteSets

CONSTANTS
  Reqs,      \* the callers, each with its cryptop
  Drivers,   \* driver ids
  HidOf,     \* CRYPTO_SESID2HID(crp_sid) of each request
  Batch,     \* requests with CRYPTO_F_BATCH: always queued for the thread
  Direct,    \* requests with CRYPTO_F_CBIMM: called back from crypto_done
  Soft,      \* requests dispatched from a softirq (IPsec), not a process
  Sync,      \* drivers that complete inside process()
  Mute,      \* drivers that never call crypto_unblock
  Cap,       \* operations a driver can hold (bound)
  QMax,      \* crypto_q_max (bound)
  SMP        \* several CPUs

ASSUME OcfAssumption ==
  /\ HidOf \in [Reqs -> Drivers]
  /\ Batch \subseteq Reqs /\ Direct \subseteq Reqs /\ Soft \subseteq Reqs
  /\ Sync \subseteq Drivers /\ Mute \subseteq Drivers
  /\ Cap \in Nat \ {0} /\ QMax \in Nat \ {0}
  /\ SMP \in BOOLEAN

NoReq == "none"

ASSUME NoReqAssumption == NoReq \notin Reqs

VARIABLES
  crp_q,               \* requests waiting for the crypto thread
  cc_qblocked,         \* per driver: blocked, or busy in an invocation
  crypto_all_qblocked, \* the thread's summary of the blocked flags
  crp_sleep,           \* the thread wants to be woken
  crypto_q_cnt,        \* outstanding requests, limited by crypto_q_max
  crp_ret_q,           \* completed requests waiting for their callback
  out,                 \* requests dispatched and not called back yet
  disp,                \* per caller: where it is inside crypto_dispatch
  proc,                \* where crypto_proc is
  submit,              \* the request crypto_proc is invoking
  ret,                 \* where crypto_ret_proc is
  donePend,            \* request crypto_done has woken for, not yet inserted
  held,                \* per driver: operations in its hands
  needwakeup,          \* per driver: it answered ERESTART, must unblock
  irq                  \* per driver: its interrupt handler is running

queueVars  == <<crp_q, cc_qblocked, crypto_all_qblocked>>
retVars    == <<crp_ret_q, ret, donePend>>
driverVars == <<held, needwakeup, irq>>
vars == <<queueVars, crp_sleep, crypto_q_cnt, retVars, out, disp, proc,
          submit, driverVars>>

InDispatch == {"invoke", "accepted", "refused"}
ProcStates == InDispatch \cup {"scan", "unlocked", "check", "asleep"}

-----------------------------------------------------------------------------
(* Who may run: on one CPU a process context is interrupted by softirqs    *)
(* and interrupts only, a softirq by interrupts only.                      *)
ProcMid    == proc \in InDispatch \cup {"unlocked"}
ProcessMid == ProcMid \/ \E r \in Reqs \ Soft : disp[r] # "idle"
SoftMid    == \E r \in Soft : disp[r] # "idle"
IrqMid     == donePend # NoReq \/ \E h \in Drivers : irq[h]

MayStart(soft) == SMP \/ ~(IrqMid \/ SoftMid \/ (~soft /\ ProcessMid))
MayGoOn(soft)  == SMP \/ ~(IrqMid \/ (~soft /\ SoftMid))

Rng(s) == {s[i] : i \in 1 .. Len(s)}

Blocked(h) == cc_qblocked[h]

(* if (crp_sleep) wake_up_interruptible(&cryptoproc_wait): the sleeper     *)
(* evaluates its condition again, a running thread is not affected.        *)
Woken(p) == IF crp_sleep /\ p = "asleep" THEN "check" ELSE p

(* wake_up_interruptible(&cryptoretproc_wait).                             *)
RetWoken(p) == IF p = "asleep" THEN "check" ELSE p

-----------------------------------------------------------------------------
(* Mutants of Done: a request called back directly is not counted off; the *)
(* wake-up is sent when the return queue is not empty.                     *)
DoneNoCount(r) ==
  /\ crypto_q_cnt' = IF r \in Direct THEN crypto_q_cnt ELSE crypto_q_cnt - 1
  /\ IF r \in Direct
     THEN out' = out \ {r} /\ UNCHANGED retVars
     ELSE /\ donePend = NoReq /\ donePend' = r
          /\ ret' = IF crp_ret_q = <<>> THEN RetWoken(ret) ELSE ret
          /\ UNCHANGED <<crp_ret_q, out>>

DoneLateWake(r) ==
  /\ crypto_q_cnt' = crypto_q_cnt - 1
  /\ IF r \in Direct
     THEN out' = out \ {r} /\ UNCHANGED retVars
     ELSE /\ donePend = NoReq /\ donePend' = r
          /\ ret' = IF crp_ret_q # <<>> THEN RetWoken(ret) ELSE ret
          /\ UNCHANGED <<crp_ret_q, out>>

(* crypto_done: the request stops counting; a CBIMM callback runs here,    *)
(* the others wake crypto_ret_proc when its queue was empty and are        *)
(* inserted by the next step, under the return-queue lock.                 *)
Done(r) ==
  /\ crypto_q_cnt' = crypto_q_cnt - 1
  /\ IF r \in Direct
     THEN out' = out \ {r} /\ UNCHANGED retVars
     ELSE /\ donePend = NoReq /\ donePend' = r
          /\ ret' = IF crp_ret_q = <<>> THEN RetWoken(ret) ELSE ret
          /\ UNCHANGED <<crp_ret_q, out>>

(* TAILQ_INSERT_TAIL(&crp_ret_q, crp, crp_next) of crypto_done.            *)
DoneInsert ==
  /\ donePend # NoReq
  /\ crp_ret_q' = Append(crp_ret_q, donePend)
  /\ donePend' = NoReq
  /\ UNCHANGED <<queueVars, crp_sleep, crypto_q_cnt, ret, out, disp, proc,
                 submit, driverVars>>

-----------------------------------------------------------------------------
(* crypto_dispatch up to its unlock: over the limit the call fails and     *)
(* changes nothing; a request not marked BATCH whose driver is not blocked *)
(* goes to the driver at once, any other to the tail of the queue.         *)
Dispatch(r) ==
  LET h == HidOf[r] IN
  /\ MayStart(r \in Soft)
  /\ r \notin out /\ disp[r] = "idle"
  /\ crypto_q_cnt < QMax
  /\ crypto_q_cnt' = crypto_q_cnt + 1
  /\ out' = out \cup {r}
  /\ IF r \notin Batch /\ ~Blocked(h)
     THEN /\ crypto_all_qblocked' = FALSE
          /\ cc_qblocked' = [cc_qblocked EXCEPT ![h] = TRUE]
          /\ disp' = [disp EXCEPT ![r] = "invoke"]
          /\ UNCHANGED <<crp_q, proc>>
     ELSE /\ crp_q' = Append(crp_q, r)
          /\ proc' = Woken(proc)
          /\ UNCHANGED <<crypto_all_qblocked, cc_qblocked, disp>>
  /\ UNCHANGED <<crp_sleep, retVars, submit, driverVars>>

\* Mutants of DispatchReturn: a refused request is not put back; the driver is
\* marked blocked after the call, whatever it did in between.
DispatchReturnLost(r) ==
  /\ MayGoOn(r \in Soft)
  /\ disp[r] \in {"accepted", "refused"}
  /\ cc_qblocked' = [cc_qblocked EXCEPT ![HidOf[r]] = disp[r] = "refused"]
  /\ proc' = Woken(proc)
  /\ disp' = [disp EXCEPT ![r] = "idle"]
  /\ UNCHANGED <<crp_q, crypto_all_qblocked, crp_sleep, crypto_q_cnt, retVars,
                 out, submit, driverVars>>

DispatchReturnMarkLate(r) ==
  /\ MayGoOn(r \in Soft)
  /\ disp[r] \in {"accepted", "refused"}
  /\ crp_q' = IF disp[r] = "refused" THEN <<r>> \o crp_q ELSE crp_q
  /\ cc_qblocked' = [cc_qblocked EXCEPT ![HidOf[r]] = disp[r] = "refused"]
  /\ proc' = Woken(proc)
  /\ disp' = [disp EXCEPT ![r] = "idle"]
  /\ UNCHANGED <<crypto_all_qblocked, crp_sleep, crypto_q_cnt, retVars, out,
                 submit, driverVars>>

(* crypto_dispatch after crypto_invoke: a refused request goes to the      *)
(* front of the queue and leaves the driver blocked.                       *)
DispatchReturn(r) ==
  LET h == HidOf[r] IN
  /\ MayGoOn(r \in Soft)
  /\ disp[r] \in {"accepted", "refused"}
  /\ IF disp[r] = "refused"
     THEN crp_q' = <<r>> \o crp_q /\ UNCHANGED cc_qblocked
     ELSE cc_qblocked' = [cc_qblocked EXCEPT ![h] = FALSE] /\ UNCHANGED crp_q
  /\ proc' = Woken(proc)
  /\ disp' = [disp EXCEPT ![r] = "idle"]
  /\ UNCHANGED <<crypto_all_qblocked, crp_sleep, crypto_q_cnt, retVars, out,
                 submit, driverVars>>

-----------------------------------------------------------------------------
(* The process() entry point of a driver, called without the queue lock,   *)
(* for the operation r of a caller or of the thread (Answer records what   *)
(* it returns).                                                            *)
DriverFinish(r) ==                \* synchronous, or a set-up error
  Done(r) /\ UNCHANGED driverVars

DriverAccept(r) ==
  LET h == HidOf[r] IN
  /\ h \notin Sync /\ Cardinality(held[h]) < Cap
  /\ held' = [held EXCEPT ![h] = @ \cup {r}]
  /\ UNCHANGED <<crypto_q_cnt, out, retVars, needwakeup, irq>>

DriverRefuse(r) ==                \* ring full: ERESTART
  LET h == HidOf[r] IN
  /\ h \notin Sync /\ Cardinality(held[h]) = Cap
  /\ needwakeup' = [needwakeup EXCEPT ![h] = h \notin Mute]
  /\ UNCHANGED <<crypto_q_cnt, out, retVars, held, irq>>

Process(r, answer) ==
  \/ answer = "accepted" /\ (DriverFinish(r) \/ DriverAccept(r))
  \/ answer = "refused" /\ DriverRefuse(r)

(* crypto_invoke from crypto_dispatch, and from crypto_proc.               *)
DispatchInvoke(r) ==
  /\ MayGoOn(r \in Soft)
  /\ disp[r] = "invoke"
  /\ \E answer \in {"accepted", "refused"} :
       /\ Process(r, answer)
       /\ disp' = [disp EXCEPT ![r] = answer]
  /\ UNCHANGED <<queueVars, crp_sleep, proc, submit>>

ProcInvoke ==
  /\ MayGoOn(FALSE)
  /\ proc = "invoke"
  /\ \E answer \in {"accepted", "refused"} :
       /\ Process(submit, answer)
       /\ proc' = answer
  /\ UNCHANGED <<queueVars, crp_sleep, submit, disp>>

-----------------------------------------------------------------------------
(* The driver's interrupt: completions (safe_callback), each a crypto_done *)
(* and, on its way out, the unblock of a framework it had refused.         *)
Complete(h) ==
  /\ SMP \/ ~(donePend # NoReq \/ \E g \in Drivers \ {h} : irq[g])
  /\ \E r \in held[h] :
       /\ Done(r)
       /\ held' = [held EXCEPT ![h] = @ \ {r}]
  /\ irq' = [irq EXCEPT ![h] = TRUE]
  /\ UNCHANGED <<queueVars, crp_sleep, disp, proc, submit, needwakeup>>

\* Mutants of Unblock: the summary flag is not reset; the thread is not woken.
UnblockOne(h) ==
  /\ cc_qblocked' = [cc_qblocked EXCEPT ![h] = FALSE]
  /\ UNCHANGED crypto_all_qblocked
  /\ proc' = Woken(proc)

UnblockSilent(h) ==
  /\ cc_qblocked' = [cc_qblocked EXCEPT ![h] = FALSE]
  /\ crypto_all_qblocked' = FALSE
  /\ UNCHANGED proc

(* crypto_unblock(driverid, CRYPTO_SYMQ).                                  *)
Unblock(h) ==
  /\ cc_qblocked' = [cc_qblocked EXCEPT ![h] = FALSE]
  /\ crypto_all_qblocked' = FALSE
  /\ proc' = Woken(proc)

IrqEnd(h) ==
  /\ irq[h]
  /\ SMP \/ donePend = NoReq
  /\ irq' = [irq EXCEPT ![h] = FALSE]
  /\ IF needwakeup[h]
     THEN /\ needwakeup' = [needwakeup EXCEPT ![h] = FALSE]
          /\ Unblock(h)
     ELSE UNCHANGED <<needwakeup, cc_qblocked, crypto_all_qblocked, proc>>
  /\ UNCHANGED <<crp_q, crp_sleep, crypto_q_cnt, retVars, out, disp, submit,
                 held>>

-----------------------------------------------------------------------------
(* One pass of crypto_proc over the queue, under the queue lock: take the  *)
(* first request whose driver is not blocked, or find that there is none.  *)
(* The look-ahead behind a BATCH request only chooses the hint passed to   *)
(* the driver, which no driver of the tree needs to make progress.         *)
Ready == {i \in 1 .. Len(crp_q) : ~Blocked(HidOf[crp_q[i]])}
Without(s, k) == SubSeq(s, 1, k - 1) \o SubSeq(s, k + 1, Len(s))

ProcTake ==
  /\ MayStart(FALSE)
  /\ proc = "scan"
  /\ \E k \in Ready :
       /\ \A j \in Ready : k <= j
       /\ submit' = crp_q[k]
       /\ crp_q' = Without(crp_q, k)
       /\ cc_qblocked' = [cc_qblocked EXCEPT ![HidOf[crp_q[k]]] = TRUE]
  /\ crypto_all_qblocked' = FALSE
  /\ proc' = "invoke"
  /\ UNCHANGED <<crp_sleep, crypto_q_cnt, retVars, out, disp, driverVars>>

ProcNothing ==
  /\ MayStart(FALSE)
  /\ proc = "scan" /\ Ready = {}
  /\ crypto_all_qblocked' = (crp_q # <<>>)
  /\ proc' = "unlocked"
  /\ UNCHANGED <<crp_q, cc_qblocked, crp_sleep, crypto_q_cnt, retVars, out,
                 disp, submit, driverVars>>

(* crypto_proc after crypto_invoke: a refused request returns to the front *)
(* and its driver stays marked, otherwise the mark is taken off.           *)
ProcReturn ==
  /\ MayGoOn(FALSE)
  /\ proc \in {"accepted", "refused"}
  /\ IF proc = "refused"
     THEN crp_q' = <<submit>> \o crp_q /\ UNCHANGED cc_qblocked
     ELSE /\ cc_qblocked' = [cc_qblocked EXCEPT ![HidOf[submit]] = FALSE]
          /\ UNCHANGED crp_q
  /\ submit' = NoReq
  /\ proc' = "scan"
  /\ UNCHANGED <<crypto_all_qblocked, crp_sleep, crypto_q_cnt, retVars, out,
                 disp, driverVars>>

(* crp_sleep = 1, after the queue lock was given up.                       *)
ProcSleep ==
  /\ MayGoOn(FALSE)
  /\ proc = "unlocked"
  /\ crp_sleep' = TRUE
  /\ proc' = "check"
  /\ UNCHANGED <<queueVars, crypto_q_cnt, retVars, out, disp, submit,
                 driverVars>>

(* The condition of wait_event_interruptible, read without a lock.         *)
ProcCheck ==
  /\ MayStart(FALSE)
  /\ proc = "check"
  /\ IF ~(crp_q = <<>> \/ crypto_all_qblocked)
     THEN proc' = "scan" /\ crp_sleep' = FALSE
     ELSE proc' = "asleep" /\ UNCHANGED crp_sleep
  /\ UNCHANGED <<queueVars, crypto_q_cnt, retVars, out, disp, submit,
                 driverVars>>

-----------------------------------------------------------------------------
(* crypto_ret_proc: harvest one completed request and run its callback.    *)
RetHarvest ==
  /\ MayStart(FALSE)
  /\ ret = "run" /\ donePend = NoReq
  /\ IF crp_ret_q # <<>>
     THEN /\ crp_ret_q' = Tail(crp_ret_q)
          /\ out' = out \ {Head(crp_ret_q)}
          /\ UNCHANGED ret
     ELSE ret' = "check" /\ UNCHANGED <<crp_ret_q, out>>
  /\ UNCHANGED <<queueVars, crp_sleep, crypto_q_cnt, donePend, disp, proc,
                 submit, driverVars>>

(* The condition of its wait_event_interruptible, read without the lock    *)
(* crypto_done holds between its wake-up and its insertion.                *)
RetCheck ==
  /\ MayStart(FALSE)
  /\ ret = "check"
  /\ ret' = IF crp_ret_q # <<>> THEN "run" ELSE "asleep"
  /\ UNCHANGED <<queueVars, crp_sleep, crypto_q_cnt, crp_ret_q, donePend, out,
                 disp, proc, submit, driverVars>>

-----------------------------------------------------------------------------
Init ==
  /\ crp_q = <<>> /\ crp_ret_q = <<>>
  /\ cc_qblocked = [h \in Drivers |-> FALSE]
  /\ crypto_all_qblocked = FALSE
  /\ crp_sleep = FALSE
  /\ crypto_q_cnt = 0
  /\ out = {}
  /\ disp = [r \in Reqs |-> "idle"]
  /\ proc = "scan" /\ submit = NoReq
  /\ ret = "run" /\ donePend = NoReq
  /\ held = [h \in Drivers |-> {}]
  /\ needwakeup = [h \in Drivers |-> FALSE]
  /\ irq = [h \in Drivers |-> FALSE]

CallerStep(r) == Dispatch(r) \/ DispatchInvoke(r) \/ DispatchReturn(r)
ProcStep == ProcTake \/ ProcNothing \/ ProcInvoke \/ ProcReturn \/ ProcSleep
            \/ ProcCheck
RetStep == RetHarvest \/ RetCheck
IrqStep(h) == Complete(h) \/ IrqEnd(h)

Next ==
  \/ \E r \in Reqs : CallerStep(r)
  \/ ProcStep
  \/ RetStep
  \/ \E h \in Drivers : IrqStep(h)
  \/ DoneInsert

(* The threads are scheduled, a caller inside crypto_dispatch goes on, and *)
(* a driver finishes what it holds; no caller is obliged to dispatch.      *)
Fairness ==
  /\ \A r \in Reqs : WF_vars(DispatchInvoke(r)) /\ WF_vars(DispatchReturn(r))
  /\ WF_vars(ProcStep)
  /\ WF_vars(RetStep)
  /\ \A h \in Drivers : WF_vars(Complete(h)) /\ WF_vars(IrqEnd(h))
  /\ WF_vars(DoneInsert)

Spec == Init /\ [][Next]_vars
LiveSpec == Spec /\ Fairness

-----------------------------------------------------------------------------
(* Types of the state, and the limit: no more than crypto_q_max requests   *)
(* are ever outstanding (crypto_dispatch's test at the head).              *)
Types ==
  /\ crp_q \in Seq(Reqs) /\ crp_ret_q \in Seq(Reqs)
  /\ cc_qblocked \in [Drivers -> BOOLEAN]
  /\ crypto_all_qblocked \in BOOLEAN /\ crp_sleep \in BOOLEAN
  /\ out \subseteq Reqs
  /\ disp \in [Reqs -> InDispatch \cup {"idle"}]
  /\ proc \in ProcStates
  /\ submit \in Reqs \cup {NoReq} /\ donePend \in Reqs \cup {NoReq}
  /\ ret \in {"run", "check", "asleep"}
  /\ held \in [Drivers -> SUBSET Reqs]
  /\ needwakeup \in [Drivers -> BOOLEAN] /\ irq \in [Drivers -> BOOLEAN]

TypeOK == Types /\ crypto_q_cnt \in 0 .. QMax

Finished(r) == r \in Rng(crp_ret_q) \/ donePend = r

(* How many of the places a request can be in hold r.                      *)
Places(r) ==
    Cardinality({i \in 1 .. Len(crp_q) : crp_q[i] = r})
  + Cardinality({i \in 1 .. Len(crp_ret_q) : crp_ret_q[i] = r})
  + Cardinality({h \in Drivers : r \in held[h]})
  + (IF disp[r] \in {"invoke", "refused"} THEN 1 ELSE 0)
  + (IF submit = r /\ proc \in {"invoke", "refused"} THEN 1 ELSE 0)
  + (IF donePend = r THEN 1 ELSE 0)

(* A dispatched request is in exactly one of the caller's invocation, the  *)
(* request queue, the thread's invocation, the driver and the return       *)
(* queue, and one that was called back is in none: the re-insertion after  *)
(* ERESTART never doubles or loses a request, whichever completion or      *)
(* unblock got in between.                                                 *)
OnePlace == \A r \in Reqs : Places(r) = (IF r \in out THEN 1 ELSE 0)

(* crypto_q_cnt counts the requests that are dispatched and not done yet:  *)
(* a drift would close crypto_dispatch (or open its limit) for ever.       *)
QCountExact ==
  crypto_q_cnt = Cardinality({r \in out : ~Finished(r)})

(* A blocked driver will be unblocked: somebody is inside an invocation of *)
(* it and will take the mark off, or it refused, still has operations (or  *)
(* its interrupt is running), and will call crypto_unblock.                *)
BlockedHasUnblocker ==
  \A h \in Drivers \ Mute : cc_qblocked[h] =>
     \/ \E r \in Reqs : HidOf[r] = h /\ disp[r] # "idle"
     \/ submit \in Reqs /\ HidOf[submit] = h
     \/ needwakeup[h] /\ (held[h] # {} \/ irq[h])

(* crypto_ret_proc never sleeps over a completed request: every insertion  *)
(* into an empty return queue is preceded by a wake-up it cannot miss.     *)
RetNotStranded ==
  ret = "asleep" => crp_ret_q = <<>>

(* When crypto_proc sleeps over a queue that is not empty, some request in *)
(* it waits for a blocked driver, whose unblocking will wake the thread.   *)
SleepJustified ==
  proc = "asleep" /\ crp_q # <<>> =>
     \E i \in 1 .. Len(crp_q) : Blocked(HidOf[crp_q[i]])

(* Once callers stop submitting new requests, every outstanding request is *)
(* called back: nothing is left behind in a queue, a driver or a sleep.    *)
CallersStop == <>[][\A r \in Reqs : r \in out' => r \in out]_vars
Served == CallersStop => \A r \in Reqs : r \in out ~> r \notin out

=============================================================================
