--------------------------- MODULE OcfQueueProofs ---------------------------
(***************************************************************************)
(* Proofs about OcfQueue, for any set of callers and drivers, any capacity *)
(* of a driver and any limit of the queue.                                 *)
(*                                                                         *)
(*  - TypesCorrect, the types of the state;                                *)
(*  - BlockedCorrect, every blocked driver has an unblocker, on one CPU    *)
(*    and on several;                                                      *)
(*  - RetCorrect and SleepCorrect, neither thread sleeps over work it will *)
(*    not be woken for, on one CPU;                                        *)
(*  - OnePlaceCorrect, a dispatched request is in exactly one place, on    *)
(*    one CPU and on several;                                              *)
(*  - CountCorrect and LimitCorrect, crypto_q_cnt is exact and within its  *)
(*    limit.                                                               *)
(***************************************************************************)
EXTENDS OcfQueue, TLAPS, FiniteSetTheorems, SequenceTheorems

(* Taking an element out of a queue leaves a queue of the same requests.   *)
LEMMA WithoutType ==
  ASSUME NEW S, NEW s \in Seq(S), NEW k \in 1 .. Len(s)
  PROVE  Without(s, k) \in Seq(S)
<1>1. SubSeq(s, 1, k - 1) \in Seq(S)
  OBVIOUS
<1>2. SubSeq(s, k + 1, Len(s)) \in Seq(S)
  OBVIOUS
<1> QED  BY <1>1, <1>2 DEF Without

(* So does putting one at the front.                                       *)
LEMMA FrontType ==
  ASSUME NEW S, NEW s \in Seq(S), NEW x \in S
  PROVE  <<x>> \o s \in Seq(S)
<1>1. <<x>> \in Seq(S)
  OBVIOUS
<1> QED  BY <1>1, ConcatProperties

(* A request the thread invokes was taken from the queue.                  *)
SubmitOK == proc \in InDispatch => submit \in Reqs

TypeInv == Types /\ SubmitOK

(* The types that completing a request, from wherever it is, preserves.    *)
LEMMA DoneType ==
  ASSUME TypeInv, NEW r \in Reqs, Done(r)
  PROVE  /\ crp_ret_q' \in Seq(Reqs)
         /\ out' \subseteq Reqs
         /\ donePend' \in Reqs \cup {NoReq}
         /\ ret' \in {"run", "check", "asleep"}
  BY DEF TypeInv, Types, Done, retVars, RetWoken

LEMMA ProcessType ==
  ASSUME TypeInv, NEW r \in Reqs, NEW answer, Process(r, answer)
  PROVE  /\ crp_ret_q' \in Seq(Reqs)
         /\ out' \subseteq Reqs
         /\ donePend' \in Reqs \cup {NoReq}
         /\ ret' \in {"run", "check", "asleep"}
         /\ held' \in [Drivers -> SUBSET Reqs]
         /\ needwakeup' \in [Drivers -> BOOLEAN]
         /\ irq' \in [Drivers -> BOOLEAN]
         /\ answer \in {"accepted", "refused"}
<1>1. CASE answer = "accepted" /\ DriverFinish(r)
  BY <1>1, DoneType DEF TypeInv, Types, DriverFinish, driverVars
<1>2. CASE answer = "accepted" /\ DriverAccept(r)
  BY <1>2, OcfAssumption DEF TypeInv, Types, DriverAccept, retVars
<1>3. CASE answer = "refused" /\ DriverRefuse(r)
  BY <1>3, OcfAssumption DEF TypeInv, Types, DriverRefuse, retVars
<1> QED  BY <1>1, <1>2, <1>3 DEF Process

LEMMA TypeStep == TypeInv /\ [Next]_vars => TypeInv'
<1> SUFFICES ASSUME TypeInv, [Next]_vars  PROVE TypeInv'
  OBVIOUS
<1> USE OcfAssumption DEF ProcStates, InDispatch
<1>1. ASSUME NEW r \in Reqs, Dispatch(r)  PROVE TypeInv'
  <2>1. crp_q \in Seq(Reqs) /\ Append(crp_q, r) \in Seq(Reqs)
    BY AppendProperties DEF TypeInv, Types
  <2>a. crp_q' \in Seq(Reqs)
    BY <1>1, <2>1 DEF Dispatch
  <2>b. out' \subseteq Reqs
    BY <1>1 DEF Dispatch, TypeInv, Types
  <2>2. /\ cc_qblocked' \in [Drivers -> BOOLEAN]
        /\ crypto_all_qblocked' \in BOOLEAN
        /\ disp' \in [Reqs -> InDispatch \cup {"idle"}]
    BY <1>1 DEF Dispatch, TypeInv, Types
  <2>3. proc' \in ProcStates /\ (proc' \in InDispatch => proc' = proc)
    BY <1>1 DEF Dispatch, TypeInv, Types, Woken
  <2>4. UNCHANGED <<crp_ret_q, crp_sleep, ret, donePend, submit, driverVars>>
    BY <1>1 DEF Dispatch, retVars
  <2> QED
    BY <2>a, <2>b, <2>2, <2>3, <2>4
    DEF TypeInv, Types, SubmitOK, driverVars
<1>2. ASSUME NEW r \in Reqs, DispatchInvoke(r)  PROVE TypeInv'
  <2>1. PICK answer \in {"accepted", "refused"} :
          Process(r, answer) /\ disp' = [disp EXCEPT ![r] = answer]
    BY <1>2 DEF DispatchInvoke
  <2> QED
    BY <1>2, <2>1, ProcessType
    DEF TypeInv, Types, SubmitOK, DispatchInvoke, queueVars
<1>3. ASSUME NEW r \in Reqs, DispatchReturn(r)  PROVE TypeInv'
  <2>a. crp_q \in Seq(Reqs) /\ <<r>> \o crp_q \in Seq(Reqs)
    BY FrontType DEF TypeInv, Types
  <2>1. crp_q' \in Seq(Reqs)
    BY <1>3, <2>a DEF DispatchReturn
  <2>2. /\ cc_qblocked' \in [Drivers -> BOOLEAN]
        /\ disp' \in [Reqs -> InDispatch \cup {"idle"}]
    BY <1>3 DEF DispatchReturn, TypeInv, Types
  <2>3. proc' \in ProcStates /\ (proc' \in InDispatch => proc' = proc)
    BY <1>3 DEF DispatchReturn, TypeInv, Types, Woken
  <2>4. UNCHANGED <<crypto_all_qblocked, crp_ret_q, crp_sleep, ret, donePend,
                    out, submit, driverVars>>
    BY <1>3 DEF DispatchReturn, retVars
  <2> QED
    BY <2>1, <2>2, <2>3, <2>4 DEF TypeInv, Types, SubmitOK, driverVars
<1>4. CASE ProcTake
  <2>1. PICK k \in Ready :
          /\ submit' = crp_q[k]
          /\ crp_q' = Without(crp_q, k)
          /\ cc_qblocked' = [cc_qblocked EXCEPT ![HidOf[crp_q[k]]] = TRUE]
    BY <1>4 DEF ProcTake
  <2>2. k \in 1 .. Len(crp_q) /\ crp_q[k] \in Reqs
    BY <2>1 DEF Ready, TypeInv, Types
  <2>3. crp_q' \in Seq(Reqs)
    BY <2>1, <2>2, WithoutType DEF TypeInv, Types
  <2>4. cc_qblocked' \in [Drivers -> BOOLEAN]
    BY <2>1 DEF TypeInv, Types
  <2>5. /\ UNCHANGED <<crp_sleep, crp_ret_q, ret, donePend, out, disp,
                       driverVars>>
        /\ crypto_all_qblocked' = FALSE /\ proc' = "invoke"
    BY <1>4 DEF ProcTake, retVars
  <2> QED
    BY <2>1, <2>2, <2>3, <2>4, <2>5 DEF TypeInv, Types, SubmitOK, driverVars
<1>5. CASE ProcNothing
  BY <1>5 DEF TypeInv, Types, SubmitOK, ProcNothing, retVars, driverVars
<1>6. CASE ProcInvoke
  <2>1. PICK answer \in {"accepted", "refused"} :
          Process(submit, answer) /\ proc' = answer
    BY <1>6 DEF ProcInvoke
  <2>2. submit \in Reqs
    BY <1>6 DEF ProcInvoke, TypeInv, SubmitOK
  <2> QED
    BY <1>6, <2>1, <2>2, ProcessType
    DEF TypeInv, Types, SubmitOK, ProcInvoke, queueVars
<1>7. CASE ProcReturn
  <2>1. submit \in Reqs
    BY <1>7 DEF ProcReturn, TypeInv, SubmitOK
  <2>a. crp_q \in Seq(Reqs) /\ <<submit>> \o crp_q \in Seq(Reqs)
    BY <2>1, FrontType DEF TypeInv, Types
  <2>2. crp_q' \in Seq(Reqs)
    BY <1>7, <2>a DEF ProcReturn
  <2>3. cc_qblocked' \in [Drivers -> BOOLEAN]
    BY <1>7, <2>1 DEF ProcReturn, TypeInv, Types
  <2>4. /\ UNCHANGED <<crypto_all_qblocked, crp_sleep, crp_ret_q, ret,
                       donePend, out, disp, driverVars>>
        /\ submit' = NoReq /\ proc' = "scan"
    BY <1>7 DEF ProcReturn, retVars
  <2> QED
    BY <2>2, <2>3, <2>4 DEF TypeInv, Types, SubmitOK, driverVars
<1>8. CASE ProcSleep
  BY <1>8
  DEF TypeInv, Types, SubmitOK, ProcSleep, queueVars, retVars, driverVars
<1>9. CASE ProcCheck
  BY <1>9
  DEF TypeInv, Types, SubmitOK, ProcCheck, queueVars, retVars, driverVars
<1>10. CASE RetHarvest
  <2>1. crp_ret_q # <<>> => Tail(crp_ret_q) \in Seq(Reqs)
    BY HeadTailProperties DEF TypeInv, Types
  <2>2. crp_ret_q' \in Seq(Reqs)
    BY <1>10, <2>1 DEF RetHarvest, TypeInv, Types
  <2>3. out' \subseteq Reqs /\ ret' \in {"run", "check", "asleep"}
    BY <1>10 DEF RetHarvest, TypeInv, Types
  <2>4. UNCHANGED <<queueVars, crp_sleep, donePend, disp, proc, submit,
                    driverVars>>
    BY <1>10 DEF RetHarvest
  <2> QED
    BY <2>2, <2>3, <2>4
    DEF TypeInv, Types, SubmitOK, queueVars, driverVars
<1>11. CASE RetCheck
  BY <1>11 DEF TypeInv, Types, SubmitOK, RetCheck, queueVars, driverVars
<1>12. ASSUME NEW h \in Drivers, Complete(h)  PROVE TypeInv'
  <2>1. PICK r \in held[h] :
          Done(r) /\ held' = [held EXCEPT ![h] = @ \ {r}]
    BY <1>12 DEF Complete
  <2>2. r \in Reqs
    BY <2>1 DEF TypeInv, Types
  <2> QED
    BY <1>12, <2>1, <2>2, DoneType
    DEF TypeInv, Types, SubmitOK, Complete, queueVars
<1>13. ASSUME NEW h \in Drivers, IrqEnd(h)  PROVE TypeInv'
  <2>1. /\ cc_qblocked' \in [Drivers -> BOOLEAN]
        /\ crypto_all_qblocked' \in BOOLEAN
    BY <1>13 DEF IrqEnd, Unblock, TypeInv, Types
  <2>2. needwakeup' \in [Drivers -> BOOLEAN] /\ irq' \in [Drivers -> BOOLEAN]
    BY <1>13 DEF IrqEnd, TypeInv, Types
  <2>3. proc' \in ProcStates /\ (proc' \in InDispatch => proc' = proc)
    BY <1>13 DEF IrqEnd, Unblock, Woken, TypeInv, Types
  <2>4. UNCHANGED <<crp_q, crp_sleep, crp_ret_q, ret, donePend, out, disp,
                    submit, held>>
    BY <1>13 DEF IrqEnd, retVars
  <2> QED  BY <2>1, <2>2, <2>3, <2>4 DEF TypeInv, Types, SubmitOK
<1>14. CASE DoneInsert
  BY <1>14 DEF TypeInv, Types, SubmitOK, DoneInsert, queueVars, driverVars
<1>15. CASE UNCHANGED vars
  BY <1>15 DEF TypeInv, Types, SubmitOK, vars, queueVars, retVars, driverVars
<1> QED
  BY <1>1, <1>2, <1>3, <1>4, <1>5, <1>6, <1>7, <1>8, <1>9, <1>10, <1>11,
     <1>12, <1>13, <1>14, <1>15
  DEF Next, CallerStep, ProcStep, RetStep, IrqStep

LEMMA InitType == Init => TypeInv
<1> SUFFICES ASSUME Init PROVE TypeInv
  OBVIOUS
<1>1. crp_q \in Seq(Reqs) /\ crp_ret_q \in Seq(Reqs)
  BY EmptySeq DEF Init
<1> QED  BY <1>1 DEF Init, TypeInv, Types, SubmitOK, ProcStates, InDispatch

(* The framework's state keeps its type: in particular the thread only     *)
(* invokes requests it took from the queue.                                *)
THEOREM TypesCorrect == Spec => []Types
<1>1. TypeInv => Types
  BY DEF TypeInv
<1> QED  BY <1>1, InitType, TypeStep, PTL DEF Spec

-----------------------------------------------------------------------------
(* Who owes a blocked driver its unblocking: a caller or the thread inside *)
(* an invocation that was not refused, or the driver itself.  This is      *)
(* stronger than BlockedHasUnblocker, where a refused caller counts too,   *)
(* and inductive: a refusal hands the duty over before the caller returns. *)
CallerOwes(h) ==
  \E r \in Reqs : HidOf[r] = h /\ disp[r] \in {"invoke", "accepted"}
ThreadOwes(h) ==
  submit \in Reqs /\ HidOf[submit] = h /\ proc \in {"invoke", "accepted"}
DriverOwes(h) == needwakeup[h] /\ (held[h] # {} \/ irq[h])

BlockInv ==
  \A h \in Drivers \ Mute :
     cc_qblocked[h] => CallerOwes(h) \/ ThreadOwes(h) \/ DriverOwes(h)

(* A driver that refuses holds operations, so its interrupt will come.     *)
LEMMA RefuseOwes ==
  ASSUME TypeInv, NEW r \in Reqs, DriverRefuse(r), HidOf[r] \notin Mute
  PROVE  DriverOwes(HidOf[r])'
<1> DEFINE h == HidOf[r]
<1>1. h \in Drivers
  BY OcfAssumption
<1>2. held[h] # {}
  <2>1. SUFFICES ASSUME held[h] = {} PROVE FALSE
    OBVIOUS
  <2>2. Cardinality(held[h]) = 0
    BY <2>1, FS_EmptySet
  <2> QED  BY <2>2, OcfAssumption DEF DriverRefuse
<1>3. needwakeup'[h] = TRUE
  BY <1>1 DEF DriverRefuse, TypeInv, Types
<1> QED  BY <1>2, <1>3 DEF DriverRefuse, DriverOwes

(* No answer of a driver takes the duty from a driver that has it.         *)
LEMMA ProcessKeepsDuty ==
  ASSUME TypeInv, NEW r \in Reqs, NEW answer, Process(r, answer),
         NEW h \in Drivers \ Mute, DriverOwes(h)
  PROVE  DriverOwes(h)'
<1>1. CASE DriverFinish(r)
  BY <1>1 DEF DriverFinish, driverVars, DriverOwes
<1>2. CASE DriverAccept(r)
  <2>1. held[h] \subseteq held'[h]
    BY <1>2, OcfAssumption DEF DriverAccept, TypeInv, Types
  <2> QED  BY <1>2, <2>1 DEF DriverAccept, DriverOwes
<1>3. CASE DriverRefuse(r)
  BY <1>3, RefuseOwes, OcfAssumption
  DEF DriverRefuse, DriverOwes, TypeInv, Types
<1> QED  BY <1>1, <1>2, <1>3 DEF Process

LEMMA BlockStep == TypeInv /\ BlockInv /\ [Next]_vars => BlockInv'
<1> SUFFICES ASSUME TypeInv, BlockInv, [Next]_vars,
                    NEW h \in Drivers \ Mute, cc_qblocked'[h]
             PROVE  CallerOwes(h)' \/ ThreadOwes(h)' \/ DriverOwes(h)'
  BY DEF BlockInv
<1> USE OcfAssumption
<1>0. cc_qblocked[h] => CallerOwes(h) \/ ThreadOwes(h) \/ DriverOwes(h)
  BY DEF BlockInv
<1>1. ASSUME NEW r \in Reqs, Dispatch(r)
      PROVE  CallerOwes(h)' \/ ThreadOwes(h)' \/ DriverOwes(h)'
  <2>1. CASE HidOf[r] = h /\ disp' = [disp EXCEPT ![r] = "invoke"]
    BY <2>1 DEF CallerOwes, TypeInv, Types
  <2>2. CASE ~(HidOf[r] = h /\ disp' = [disp EXCEPT ![r] = "invoke"])
    <3>1. cc_qblocked[h]
      BY <1>1, <2>2 DEF Dispatch, TypeInv, Types
    <3>2. CallerOwes(h) => CallerOwes(h)'
      BY <1>1 DEF Dispatch, CallerOwes, TypeInv, Types
    <3>3. ThreadOwes(h) => ThreadOwes(h)'
      BY <1>1 DEF Dispatch, ThreadOwes, Woken
    <3>4. DriverOwes(h) => DriverOwes(h)'
      BY <1>1 DEF Dispatch, DriverOwes, driverVars
    <3> QED  BY <1>0, <3>1, <3>2, <3>3, <3>4
  <2> QED  BY <2>1, <2>2
<1>2. ASSUME NEW r \in Reqs, DispatchInvoke(r)
      PROVE  CallerOwes(h)' \/ ThreadOwes(h)' \/ DriverOwes(h)'
  <2>1. PICK answer \in {"accepted", "refused"} :
          Process(r, answer) /\ disp' = [disp EXCEPT ![r] = answer]
    BY <1>2 DEF DispatchInvoke
  <2>2. cc_qblocked[h]
    BY <1>2 DEF DispatchInvoke, queueVars
  <2>3. DriverOwes(h) => DriverOwes(h)'
    BY <2>1, ProcessKeepsDuty
  <2>4. ThreadOwes(h) => ThreadOwes(h)'
    BY <1>2 DEF DispatchInvoke, ThreadOwes
  <2>5. CallerOwes(h) => CallerOwes(h)' \/ DriverOwes(h)'
    <3>1. CASE answer = "accepted" \/ HidOf[r] # h
      BY <2>1, <3>1 DEF CallerOwes, TypeInv, Types
    <3>2. CASE answer = "refused" /\ HidOf[r] = h
      BY <2>1, <3>2, RefuseOwes DEF Process
    <3> QED  BY <2>1, <3>1, <3>2
  <2> QED  BY <1>0, <2>2, <2>3, <2>4, <2>5
<1>3. ASSUME NEW r \in Reqs, DispatchReturn(r)
      PROVE  CallerOwes(h)' \/ ThreadOwes(h)' \/ DriverOwes(h)'
  <2>1. /\ cc_qblocked[h]
        /\ HidOf[r] # h \/ disp[r] = "refused"
    BY <1>3 DEF DispatchReturn, TypeInv, Types
  <2>2. CallerOwes(h) => CallerOwes(h)'
    BY <1>3, <2>1 DEF DispatchReturn, CallerOwes, TypeInv, Types
  <2>3. ThreadOwes(h) => ThreadOwes(h)'
    BY <1>3 DEF DispatchReturn, ThreadOwes, Woken
  <2>4. DriverOwes(h) => DriverOwes(h)'
    BY <1>3 DEF DispatchReturn, DriverOwes, driverVars
  <2> QED  BY <1>0, <2>1, <2>2, <2>3, <2>4
<1>4. CASE ProcTake
  <2>1. PICK k \in Ready :
          /\ submit' = crp_q[k]
          /\ cc_qblocked' = [cc_qblocked EXCEPT ![HidOf[crp_q[k]]] = TRUE]
    BY <1>4 DEF ProcTake
  <2>2. crp_q[k] \in Reqs
    BY <2>1 DEF Ready, TypeInv, Types
  <2>3. CASE HidOf[crp_q[k]] = h
    BY <1>4, <2>1, <2>2, <2>3 DEF ProcTake, ThreadOwes
  <2>4. CASE HidOf[crp_q[k]] # h
    <3>1. cc_qblocked[h]
      BY <2>1, <2>4 DEF TypeInv, Types
    <3>2. ~ThreadOwes(h)
      BY <1>4 DEF ProcTake, ThreadOwes
    <3>3. (CallerOwes(h) => CallerOwes(h)') /\ (DriverOwes(h) => DriverOwes(h)')
      BY <1>4 DEF ProcTake, CallerOwes, DriverOwes, driverVars
    <3> QED  BY <1>0, <3>1, <3>2, <3>3
  <2> QED  BY <2>3, <2>4
<1>5. CASE ProcInvoke
  <2>1. PICK answer \in {"accepted", "refused"} :
          Process(submit, answer) /\ proc' = answer
    BY <1>5 DEF ProcInvoke
  <2>2. submit \in Reqs /\ cc_qblocked[h]
    BY <1>5 DEF ProcInvoke, TypeInv, SubmitOK, InDispatch, queueVars
  <2>3. DriverOwes(h) => DriverOwes(h)'
    BY <2>1, <2>2, ProcessKeepsDuty
  <2>4. CallerOwes(h) => CallerOwes(h)'
    BY <1>5 DEF ProcInvoke, CallerOwes
  <2>5. ThreadOwes(h) => ThreadOwes(h)' \/ DriverOwes(h)'
    <3>1. CASE answer = "accepted"
      BY <1>5, <2>1, <3>1 DEF ProcInvoke, ThreadOwes
    <3>2. CASE answer = "refused" /\ HidOf[submit] = h
      BY <2>1, <2>2, <3>2, RefuseOwes DEF Process
    <3> QED  BY <2>1, <3>1, <3>2 DEF ThreadOwes
  <2> QED  BY <1>0, <2>2, <2>3, <2>4, <2>5
<1>6. CASE ProcReturn
  <2>1. /\ cc_qblocked[h]
        /\ HidOf[submit] # h \/ proc = "refused"
    BY <1>6 DEF ProcReturn, TypeInv, Types
  <2>2. ~ThreadOwes(h)
    BY <1>6, <2>1 DEF ProcReturn, ThreadOwes
  <2>3. (CallerOwes(h) => CallerOwes(h)') /\ (DriverOwes(h) => DriverOwes(h)')
    BY <1>6 DEF ProcReturn, CallerOwes, DriverOwes, driverVars
  <2> QED  BY <1>0, <2>1, <2>2, <2>3
<1>7. CASE ProcNothing \/ ProcSleep \/ ProcCheck
  <2>1. cc_qblocked[h] /\ ~ThreadOwes(h)
    BY <1>7 DEF ProcNothing, ProcSleep, ProcCheck, ThreadOwes, queueVars
  <2>2. (CallerOwes(h) => CallerOwes(h)') /\ (DriverOwes(h) => DriverOwes(h)')
    BY <1>7
    DEF ProcNothing, ProcSleep, ProcCheck, CallerOwes, DriverOwes, driverVars
  <2> QED  BY <1>0, <2>1, <2>2
<1>8. CASE RetStep \/ DoneInsert \/ UNCHANGED vars
  <2>1. UNCHANGED <<cc_qblocked, disp, submit, proc, needwakeup, held, irq>>
    BY <1>8
    DEF RetStep, RetHarvest, RetCheck, DoneInsert, vars, queueVars, driverVars
  <2> QED  BY <1>0, <2>1 DEF CallerOwes, ThreadOwes, DriverOwes
<1>9. ASSUME NEW g \in Drivers, Complete(g)
      PROVE  CallerOwes(h)' \/ ThreadOwes(h)' \/ DriverOwes(h)'
  <2>1. /\ UNCHANGED <<cc_qblocked, disp, submit, proc, needwakeup>>
        /\ h # g => held'[h] = held[h] /\ irq'[h] = irq[h]
        /\ h = g => irq'[h]
    BY <1>9 DEF Complete, queueVars, TypeInv, Types
  <2> QED  BY <1>0, <2>1 DEF CallerOwes, ThreadOwes, DriverOwes
<1>10. ASSUME NEW g \in Drivers, IrqEnd(g)
       PROVE  CallerOwes(h)' \/ ThreadOwes(h)' \/ DriverOwes(h)'
  <2>1. CASE needwakeup[g] /\ g = h
    BY <1>10, <2>1 DEF IrqEnd, Unblock, TypeInv, Types
  <2>2. CASE ~(needwakeup[g] /\ g = h)
    <3>1. cc_qblocked[h]
      BY <1>10, <2>2 DEF IrqEnd, Unblock, TypeInv, Types
    <3>2. CallerOwes(h) => CallerOwes(h)'
      BY <1>10 DEF IrqEnd, CallerOwes
    <3>3. ThreadOwes(h) => ThreadOwes(h)'
      BY <1>10 DEF IrqEnd, Unblock, Woken, ThreadOwes
    <3>4. DriverOwes(h) => DriverOwes(h)'
      BY <1>10, <2>2 DEF IrqEnd, DriverOwes, TypeInv, Types
    <3> QED  BY <1>0, <3>1, <3>2, <3>3, <3>4
  <2> QED  BY <2>1, <2>2
<1> QED
  BY <1>1, <1>2, <1>3, <1>4, <1>5, <1>6, <1>7, <1>8, <1>9, <1>10
  DEF Next, CallerStep, ProcStep, IrqStep

(* A blocked driver has somebody who will unblock it, on one CPU and on    *)
(* several, for any drivers that keep to the protocol of ERESTART.         *)
THEOREM BlockedCorrect == Spec => []BlockedHasUnblocker
<1>1. Init => TypeInv /\ BlockInv
  BY InitType DEF Init, BlockInv
<1>2. TypeInv /\ BlockInv => BlockedHasUnblocker
  BY DEF BlockInv, BlockedHasUnblocker, CallerOwes, ThreadOwes, DriverOwes
<1> QED  BY <1>1, <1>2, TypeStep, BlockStep, PTL DEF Spec

-----------------------------------------------------------------------------
(* On one CPU the callback thread reads its condition while no crypto_done *)
(* is between its wake-up and its insertion, so that the wake-up cannot be *)
(* consumed too early.                                                     *)
RetInv == ret = "asleep" => crp_ret_q = <<>> /\ donePend = NoReq

LEMMA DoneRet ==
  ASSUME RetInv, NEW r, Done(r)
  PROVE  RetInv'
  BY DEF RetInv, Done, RetWoken, retVars

LEMMA RetStepInv == ~SMP /\ RetInv /\ [Next]_vars => RetInv'
<1> SUFFICES ASSUME ~SMP, RetInv, [Next]_vars  PROVE RetInv'
  OBVIOUS
<1>1. ASSUME NEW r \in Reqs, Dispatch(r) \/ DispatchReturn(r)  PROVE RetInv'
  BY <1>1 DEF Dispatch, DispatchReturn, retVars, RetInv
<1>2. ASSUME NEW r, NEW answer, Process(r, answer)  PROVE RetInv'
  <2>1. CASE DriverFinish(r)
    BY <2>1, DoneRet DEF DriverFinish
  <2>2. CASE DriverAccept(r) \/ DriverRefuse(r)
    BY <2>2 DEF DriverAccept, DriverRefuse, retVars, RetInv
  <2> QED  BY <1>2, <2>1, <2>2 DEF Process
<1>3. ASSUME NEW r \in Reqs, DispatchInvoke(r)  PROVE RetInv'
  BY <1>2, <1>3 DEF DispatchInvoke
<1>4. CASE ProcInvoke
  BY <1>2, <1>4 DEF ProcInvoke
<1>5. CASE ProcTake \/ ProcNothing \/ ProcReturn \/ ProcSleep \/ ProcCheck
  BY <1>5
  DEF ProcTake, ProcNothing, ProcReturn, ProcSleep, ProcCheck, retVars, RetInv
<1>6. CASE RetHarvest
  BY <1>6 DEF RetHarvest, RetInv
<1>7. CASE RetCheck
  BY <1>7 DEF RetCheck, MayStart, IrqMid, RetInv
<1>8. ASSUME NEW h \in Drivers, Complete(h)  PROVE RetInv'
  BY <1>8, DoneRet DEF Complete
<1>9. ASSUME NEW h \in Drivers, IrqEnd(h)  PROVE RetInv'
  BY <1>9 DEF IrqEnd, retVars, RetInv
<1>10. CASE DoneInsert
  BY <1>10 DEF DoneInsert, RetInv
<1>11. CASE UNCHANGED vars
  BY <1>11 DEF vars, retVars, RetInv
<1> QED
  BY <1>1, <1>3, <1>4, <1>5, <1>6, <1>7, <1>8, <1>9, <1>10, <1>11
  DEF Next, CallerStep, ProcStep, RetStep, IrqStep

(* On one CPU crypto_ret_proc never sleeps over a completed request.       *)
THEOREM RetCorrect == ASSUME ~SMP PROVE Spec => []RetNotStranded
<1>1. Init => RetInv
  BY DEF Init, RetInv
<1>2. RetInv => RetNotStranded
  BY DEF RetInv, RetNotStranded
<1>3. RetInv /\ [Next]_vars => RetInv'
  BY RetStepInv
<1> QED  BY <1>1, <1>2, <1>3, PTL DEF Spec

-----------------------------------------------------------------------------
(* The queue and the summary flag, on one CPU.  While a caller is inside   *)
(* crypto_dispatch the flag is down; from its last scan on the thread has  *)
(* it up only over a queue with a request for a blocked driver, and it     *)
(* sleeps with crp_sleep set, so that whoever clears the last such mark    *)
(* either wakes it or has the flag down.                                   *)
HasBlocked == \E i \in 1 .. Len(crp_q) : cc_qblocked[HidOf[crp_q[i]]]

SleepInv ==
  /\ (\E r \in Reqs : disp[r] # "idle") => ~crypto_all_qblocked
  /\ proc \in {"unlocked", "check", "asleep"} /\ crypto_all_qblocked
        => HasBlocked
  /\ proc \in {"check", "asleep"} => crp_sleep
  /\ proc = "asleep" /\ crp_q # <<>> => HasBlocked

(* A queue that grows at either end still has its blocked requests.        *)
LEMMA GrowBlocked ==
  ASSUME TypeInv, HasBlocked, NEW r \in Reqs,
         crp_q' = Append(crp_q, r) \/ crp_q' = <<r>> \o crp_q,
         \A h \in Drivers : cc_qblocked[h] => cc_qblocked'[h]
  PROVE  HasBlocked'
<1>1. PICK i \in 1 .. Len(crp_q) : cc_qblocked[HidOf[crp_q[i]]]
  BY DEF HasBlocked
<1>2. crp_q[i] \in Reqs /\ HidOf[crp_q[i]] \in Drivers
  BY OcfAssumption DEF TypeInv, Types
<1>3. CASE crp_q' = Append(crp_q, r)
  <2>1. i \in 1 .. Len(crp_q') /\ crp_q'[i] = crp_q[i]
    BY <1>3, AppendProperties DEF TypeInv, Types
  <2> QED  BY <1>1, <1>2, <2>1 DEF HasBlocked
<1>4. CASE crp_q' = <<r>> \o crp_q
  <2>1. <<r>> \in Seq(Reqs) /\ Len(<<r>>) = 1
    OBVIOUS
  <2>2. i + 1 \in 1 .. Len(crp_q') /\ crp_q'[i + 1] = crp_q[i]
    BY <1>4, <2>1, ConcatProperties DEF TypeInv, Types
  <2> QED  BY <1>1, <1>2, <2>2 DEF HasBlocked
<1> QED  BY <1>3, <1>4

LEMMA SleepStep ==
  ~SMP /\ TypeInv /\ SleepInv /\ [Next]_vars => SleepInv'
<1> SUFFICES ASSUME ~SMP, TypeInv, SleepInv, [Next]_vars  PROVE SleepInv'
  OBVIOUS
<1> USE OcfAssumption
<1>1. ASSUME NEW r \in Reqs, Dispatch(r)  PROVE SleepInv'
  <2>1. CASE r \notin Batch /\ ~Blocked(HidOf[r])
    <3>1. /\ ~crypto_all_qblocked'
          /\ UNCHANGED <<crp_q, proc, crp_sleep>>
          /\ \A h \in Drivers : cc_qblocked[h] => cc_qblocked'[h]
      BY <1>1, <2>1 DEF Dispatch, TypeInv, Types
    <3>2. HasBlocked => HasBlocked'
      BY <3>1 DEF HasBlocked, TypeInv, Types
    <3> QED  BY <3>1, <3>2 DEF SleepInv
  <2>2. CASE ~(r \notin Batch /\ ~Blocked(HidOf[r]))
    <3>1. /\ crp_q' = Append(crp_q, r)
          /\ proc' = Woken(proc)
          /\ UNCHANGED <<crypto_all_qblocked, cc_qblocked, disp, crp_sleep>>
      BY <1>1, <2>2 DEF Dispatch
    <3>2. HasBlocked => HasBlocked'
      BY <3>1, GrowBlocked
    <3> QED  BY <3>1, <3>2 DEF SleepInv, Woken
  <2> QED  BY <2>1, <2>2
<1>2. ASSUME NEW r \in Reqs, DispatchInvoke(r)  PROVE SleepInv'
  <2>1. /\ disp[r] = "invoke"
        /\ UNCHANGED <<queueVars, crp_sleep, proc>>
    BY <1>2 DEF DispatchInvoke
  <2>2. ~crypto_all_qblocked
    BY <2>1 DEF SleepInv
  <2> QED  BY <2>1, <2>2 DEF SleepInv, HasBlocked, queueVars
<1>3. ASSUME NEW r \in Reqs, DispatchReturn(r)  PROVE SleepInv'
  <2>1. /\ disp[r] # "idle"
        /\ proc' = Woken(proc)
        /\ UNCHANGED <<crypto_all_qblocked, crp_sleep>>
    BY <1>3 DEF DispatchReturn
  <2>2. ~crypto_all_qblocked
    BY <2>1 DEF SleepInv
  <2> QED  BY <2>1, <2>2 DEF SleepInv, Woken
<1>4. CASE ProcTake \/ ProcInvoke \/ ProcReturn
  <2>1. proc' \notin {"unlocked", "check", "asleep"}
    BY <1>4 DEF ProcTake, ProcInvoke, ProcReturn
  <2>a. UNCHANGED disp
    BY <1>4 DEF ProcTake, ProcInvoke, ProcReturn
  <2>b. crypto_all_qblocked' = FALSE \/ UNCHANGED crypto_all_qblocked
    BY <1>4 DEF ProcTake, ProcInvoke, ProcReturn, queueVars
  <2>2. UNCHANGED disp /\ (crypto_all_qblocked' => crypto_all_qblocked)
    BY <2>a, <2>b
  <2>3. proc' \notin {"check", "asleep"} /\ proc' # "asleep"
    BY <2>1
  <2>4. (\E r \in Reqs : disp[r] # "idle") => ~crypto_all_qblocked'
    BY <2>2 DEF SleepInv
  <2> QED  BY <2>1, <2>2, <2>3, <2>4 DEF SleepInv
<1>5. CASE ProcNothing
  <2>1. \A r \in Reqs : disp[r] = "idle"
    BY <1>5 DEF ProcNothing, MayStart, ProcessMid, SoftMid
  <2>2. crp_q # <<>> => HasBlocked
    <3>1. SUFFICES ASSUME crp_q # <<>> PROVE HasBlocked
      OBVIOUS
    <3>2. 1 \in 1 .. Len(crp_q)
      BY <3>1, EmptySeq DEF TypeInv, Types
    <3> QED  BY <1>5, <3>2 DEF ProcNothing, Ready, Blocked, HasBlocked
  <2>3. /\ crypto_all_qblocked' = (crp_q # <<>>)
        /\ proc' = "unlocked"
        /\ UNCHANGED <<crp_q, cc_qblocked, disp>>
    BY <1>5 DEF ProcNothing
  <2>4. HasBlocked => HasBlocked'
    BY <2>3 DEF HasBlocked
  <2>5. crypto_all_qblocked' => crp_q # <<>>
    BY <2>3
  <2> QED  BY <2>1, <2>2, <2>3, <2>4, <2>5 DEF SleepInv
<1>6. CASE ProcSleep
  BY <1>6 DEF ProcSleep, SleepInv, HasBlocked, queueVars
<1>7. CASE ProcCheck
  <2>1. UNCHANGED <<queueVars, disp>> /\ proc = "check"
    BY <1>7 DEF ProcCheck
  <2>2. \/ proc' = "scan"
        \/ /\ proc' = "asleep" /\ UNCHANGED crp_sleep
           /\ crp_q = <<>> \/ crypto_all_qblocked
    BY <1>7 DEF ProcCheck
  <2>3. proc' = "asleep" => crp_sleep
    BY <2>1, <2>2 DEF SleepInv
  <2> QED  BY <2>1, <2>2, <2>3 DEF SleepInv, HasBlocked, queueVars
<1>8. ASSUME NEW h \in Drivers, Complete(h)  PROVE SleepInv'
  BY <1>8 DEF Complete, SleepInv, HasBlocked, queueVars
<1>9. ASSUME NEW h \in Drivers, IrqEnd(h)  PROVE SleepInv'
  <2>1. CASE needwakeup[h]
    BY <1>9, <2>1 DEF IrqEnd, Unblock, Woken, SleepInv
  <2>2. CASE ~needwakeup[h]
    BY <1>9, <2>2 DEF IrqEnd, SleepInv, HasBlocked
  <2> QED  BY <2>1, <2>2
<1>10. CASE RetStep \/ DoneInsert \/ UNCHANGED vars
  <2>1. UNCHANGED <<queueVars, disp, proc, crp_sleep>>
    BY <1>10 DEF RetStep, RetHarvest, RetCheck, DoneInsert, vars
  <2> QED  BY <2>1 DEF SleepInv, HasBlocked, queueVars
<1> QED
  BY <1>1, <1>2, <1>3, <1>4, <1>5, <1>6, <1>7, <1>8, <1>9, <1>10
  DEF Next, CallerStep, ProcStep, IrqStep

(* On one CPU crypto_proc sleeps over a queue that is not empty only while *)
(* some request of it waits for a blocked driver.                          *)
THEOREM SleepCorrect == ASSUME ~SMP PROVE Spec => []SleepJustified
<1>1. Init => TypeInv /\ SleepInv
  BY InitType DEF Init, SleepInv
<1>2. SleepInv => SleepJustified
  BY DEF SleepInv, HasBlocked, SleepJustified, Blocked
<1>3. TypeInv /\ SleepInv /\ [Next]_vars => TypeInv' /\ SleepInv'
  BY TypeStep, SleepStep
<1> QED  BY <1>1, <1>2, <1>3, PTL DEF Spec

-----------------------------------------------------------------------------
(* The places of a request. No queue holds a request twice, a driver holds *)
(* only its own, and every step moves one request from one place to        *)
(* another and leaves the places of all others alone.                      *)

(* A queue without repetitions.                                            *)
NoRep(s) == \A i, j \in 1 .. Len(s) : s[i] = s[j] => i = j

LEMMA AppendOne ==
  ASSUME NEW s \in Seq(Reqs), NEW x \in Reqs
  PROVE  /\ Rng(Append(s, x)) = Rng(s) \cup {x}
         /\ x \notin Rng(s) /\ NoRep(s) => NoRep(Append(s, x))
<1> DEFINE t == Append(s, x)
<1>1. /\ Len(t) = Len(s) + 1 /\ Len(s) \in Nat
      /\ \A i \in 1 .. Len(s) : t[i] = s[i]
      /\ t[Len(s) + 1] = x
  BY AppendProperties, LenProperties
<1> HIDE DEF t
<1>2. Rng(t) = Rng(s) \cup {x}
  BY <1>1 DEF Rng
<1>3. ASSUME x \notin Rng(s), NoRep(s)  PROVE NoRep(t)
  BY <1>1, <1>3 DEF Rng, NoRep
<1> QED  BY <1>2, <1>3 DEF t

LEMMA FrontOne ==
  ASSUME NEW s \in Seq(Reqs), NEW x \in Reqs
  PROVE  /\ Rng(<<x>> \o s) = Rng(s) \cup {x}
         /\ x \notin Rng(s) /\ NoRep(s) => NoRep(<<x>> \o s)
<1> DEFINE t == <<x>> \o s
<1>1. /\ Len(t) = Len(s) + 1 /\ Len(s) \in Nat
      /\ \A i \in 1 .. Len(s) : t[i + 1] = s[i]
      /\ t[1] = x
  <2>1. <<x>> \in Seq(Reqs) /\ Len(<<x>>) = 1 /\ <<x>>[1] = x
    OBVIOUS
  <2>2. /\ Len(t) = 1 + Len(s) /\ Len(s) \in Nat
        /\ \A i \in 1 .. 1 + Len(s) :
             t[i] = IF i <= 1 THEN <<x>>[i] ELSE s[i - 1]
    BY <2>1, ConcatProperties, LenProperties
  <2> HIDE DEF t
  <2> QED  BY <2>1, <2>2
<1> HIDE DEF t
<1>2. \A i \in 1 .. Len(t) : i = 1 \/ (i - 1 \in 1 .. Len(s) /\ t[i] = s[i - 1])
  BY <1>1
<1>3. Rng(t) = Rng(s) \cup {x}
  BY <1>1, <1>2 DEF Rng
<1>4. ASSUME x \notin Rng(s), NoRep(s),
             NEW i \in 1 .. Len(t), NEW j \in 1 .. Len(t), t[i] = t[j]
      PROVE  i = j
  <2>1. \A n \in 1 .. Len(s) : s[n] # x
    BY <1>4 DEF Rng
  <2>2. CASE i = 1 \/ j = 1
    BY <1>1, <1>2, <1>4, <2>1, <2>2
  <2>3. CASE i # 1 /\ j # 1
    <3>1. /\ i - 1 \in 1 .. Len(s) /\ j - 1 \in 1 .. Len(s)
          /\ s[i - 1] = s[j - 1]
      BY <1>2, <1>4, <2>3
    <3>2. i - 1 = j - 1
      BY <1>4, <3>1 DEF NoRep
    <3> QED  BY <1>1, <3>2
  <2> QED  BY <2>2, <2>3
<1>5. x \notin Rng(s) /\ NoRep(s) => NoRep(t)
  BY <1>4 DEF NoRep
<1> QED  BY <1>3, <1>5 DEF t

LEMMA WithoutOne ==
  ASSUME NEW s \in Seq(Reqs), NEW k \in 1 .. Len(s), NoRep(s)
  PROVE  /\ Rng(Without(s, k)) = Rng(s) \ {s[k]}
         /\ NoRep(Without(s, k))
<1> DEFINE a == SubSeq(s, 1, k - 1)
           b == SubSeq(s, k + 1, Len(s))
           t == Without(s, k)
<1>1. Len(s) \in Nat /\ \A i \in 1 .. Len(s) : s[i] \in Reqs
  BY LenProperties, ElementOfSeq
<1>2. /\ a \in Seq(Reqs) /\ Len(a) = k - 1
      /\ \A i \in 1 .. k - 1 : a[i] = s[i]
  BY <1>1, SubSeqProperties
<1>3. /\ b \in Seq(Reqs) /\ Len(b) = Len(s) - k
      /\ \A i \in 1 .. Len(s) - k : b[i] = s[k + i]
  BY <1>1, SubSeqProperties
<1> HIDE DEF a, b
<1>4. /\ Len(a \o b) = Len(a) + Len(b)
      /\ \A i \in 1 .. Len(a) + Len(b) :
            (a \o b)[i] = IF i <= Len(a) THEN a[i] ELSE b[i - Len(a)]
  BY <1>2, <1>3, ConcatProperties
<1>5. /\ Len(t) = Len(s) - 1
      /\ \A i \in 1 .. Len(s) - 1 : t[i] = IF i < k THEN s[i] ELSE s[i + 1]
  <2>1. t = a \o b
    BY DEF Without, a, b
  <2> HIDE DEF t
  <2>2. Len(t) = Len(s) - 1
    BY <1>1, <1>2, <1>3, <1>4, <2>1
  <2>3. ASSUME NEW i \in 1 .. Len(s) - 1
        PROVE  t[i] = IF i < k THEN s[i] ELSE s[i + 1]
    <3>1. i \in 1 .. Len(a) + Len(b) /\ Len(a) = k - 1 /\ i \in Int /\ k \in Int
      BY <1>1, <1>2, <1>3
    <3>2. t[i] = IF i <= Len(a) THEN a[i] ELSE b[i - Len(a)]
      BY <1>4, <2>1, <3>1
    <3>3. CASE i < k
      <4>1. i <= Len(a) /\ i \in 1 .. k - 1
        BY <1>1, <2>3, <3>1, <3>3
      <4>2. a[i] = s[i]
        BY <1>2, <4>1
      <4>3. QED
        BY <3>2, <3>3, <4>1, <4>2
    <3>4. CASE ~(i < k)
      <4>1. ~(i <= Len(a)) /\ i - Len(a) \in 1 .. Len(s) - k /\ k + (i - Len(a)) = i + 1
        BY <1>1, <2>3, <3>1, <3>4
      <4>2. b[i - Len(a)] = s[k + (i - Len(a))]
        BY <1>3, <4>1
      <4>3. QED
        BY <3>2, <3>4, <4>1, <4>2
    <3>5. QED
      BY <3>3, <3>4
  <2> QED  BY <2>2, <2>3
<1> HIDE DEF t
<1>6. \A i \in 1 .. Len(t) : \E j \in 1 .. Len(s) : j # k /\ t[i] = s[j]
  BY <1>1, <1>5
<1>7. ASSUME NEW j \in 1 .. Len(s), j # k
      PROVE  \E i \in 1 .. Len(t) : t[i] = s[j]
  <2>1. CASE j < k
    BY <1>1, <1>5, <2>1
  <2>2. CASE j > k
    <3>1. j - 1 \in 1 .. Len(s) - 1 /\ t[j - 1] = s[j]
      BY <1>1, <1>5, <2>2
    <3> QED  BY <1>5, <3>1
  <2> QED  BY <1>1, <1>7, <2>1, <2>2
<1>8. Rng(t) = Rng(s) \ {s[k]}
  <2>1. Rng(t) \subseteq Rng(s) \ {s[k]}
    BY <1>6 DEF Rng, NoRep
  <2>2. Rng(s) \ {s[k]} \subseteq Rng(t)
    BY <1>7 DEF Rng
  <2> QED  BY <2>1, <2>2
<1>9. NoRep(t)
  BY <1>1, <1>5 DEF NoRep
<1> QED  BY <1>8, <1>9 DEF t

LEMMA TailOne ==
  ASSUME NEW s \in Seq(Reqs), s # <<>>, NoRep(s)
  PROVE  /\ Rng(Tail(s)) = Rng(s) \ {Head(s)} /\ Head(s) \in Rng(s)
         /\ NoRep(Tail(s))
<1> DEFINE t == Tail(s)
<1>1. /\ Len(s) \in Nat \ {0} /\ Len(t) = Len(s) - 1 /\ Head(s) = s[1]
      /\ \A i \in 1 .. Len(t) : t[i] = s[i + 1]
  BY EmptySeq, HeadTailProperties
<1> HIDE DEF t
<1>2. Head(s) \in Rng(s)
  BY <1>1 DEF Rng
<1>3. NoRep(t)
  BY <1>1 DEF NoRep
<1>4. Rng(t) \subseteq Rng(s) \ {Head(s)}
  BY <1>1 DEF Rng, NoRep
<1>5. ASSUME NEW j \in 2 .. Len(s)  PROVE s[j] \in Rng(t)
  <2>1. j - 1 \in 1 .. Len(t) /\ t[j - 1] = s[j]
    BY <1>1
  <2> QED  BY <2>1 DEF Rng
<1>6. Rng(s) \ {Head(s)} \subseteq Rng(t)
  <2>1. SUFFICES ASSUME NEW j \in 1 .. Len(s), s[j] # Head(s)
                 PROVE  s[j] \in Rng(t)
    BY DEF Rng
  <2>2. j \in 2 .. Len(s)
    BY <1>1, <2>1
  <2> QED  BY <1>5, <2>2
<1> QED  BY <1>2, <1>3, <1>4, <1>6 DEF t

-----------------------------------------------------------------------------
(* The places of a request. A driver that has it and a caller or thread    *)
(* that has been told so are one place: the driver's.                      *)
AtQueue(r)  == r \in Rng(crp_q)
AtRet(r)    == r \in Rng(crp_ret_q)
AtDone(r)   == donePend = r
AtCaller(r) == disp[r] \in {"invoke", "refused"}
AtThread(r) == submit = r /\ proc \in {"invoke", "refused"}
AtDriver(r) == r \in held[HidOf[r]]

One(r) ==
  /\ AtQueue(r)  => ~AtRet(r) /\ ~AtDone(r) /\ ~AtCaller(r) /\ ~AtThread(r)
                    /\ ~AtDriver(r)
  /\ AtRet(r)    => ~AtDone(r) /\ ~AtCaller(r) /\ ~AtThread(r) /\ ~AtDriver(r)
  /\ AtDone(r)   => ~AtCaller(r) /\ ~AtThread(r) /\ ~AtDriver(r)
  /\ AtCaller(r) => ~AtThread(r) /\ ~AtDriver(r)
  /\ AtThread(r) => ~AtDriver(r)
  /\ r \in out <=> \/ AtQueue(r) \/ AtRet(r) \/ AtDone(r)
                   \/ AtCaller(r) \/ AtThread(r) \/ AtDriver(r)

HeldOwn == \A h \in Drivers : \A r \in held[h] : HidOf[r] = h
Shape == NoRep(crp_q) /\ NoRep(crp_ret_q) /\ HeldOwn

PlaceInv == Shape /\ \A r \in Reqs : One(r)

(* A step leaves the place of r alone.                                     *)
Stay(r) ==
  /\ (AtQueue(r)' <=> AtQueue(r))    /\ (AtRet(r)' <=> AtRet(r))
  /\ (AtDone(r)' <=> AtDone(r))      /\ (AtCaller(r)' <=> AtCaller(r))
  /\ (AtThread(r)' <=> AtThread(r))  /\ (AtDriver(r)' <=> AtDriver(r))
  /\ (r \in out' <=> r \in out)

(* What crypto_q_cnt counts, and how a step may change it.                 *)
Busy(r) == r \in out /\ ~AtRet(r) /\ ~AtDone(r)

Others(a) == \A r \in Reqs \ {a} : (Busy(r)' <=> Busy(r))
Even == crypto_q_cnt' = crypto_q_cnt /\ \A r \in Reqs : (Busy(r)' <=> Busy(r))
More(a) == /\ crypto_q_cnt' = crypto_q_cnt + 1 /\ crypto_q_cnt < QMax
           /\ ~Busy(a) /\ Busy(a)' /\ Others(a)
Less(a) == /\ crypto_q_cnt' = crypto_q_cnt - 1
           /\ Busy(a) /\ ~Busy(a)' /\ Others(a)

Moved == PlaceInv' /\ (Even \/ \E a \in Reqs : More(a) \/ Less(a))

LEMMA AllStay ==
  ASSUME PlaceInv, \A r \in Reqs : Stay(r), Shape',
         crypto_q_cnt' = crypto_q_cnt
  PROVE  Moved
<1>1. ASSUME NEW r \in Reqs  PROVE One(r)' /\ (Busy(r)' <=> Busy(r))
  BY DEF PlaceInv, Stay, One, Busy
<1> QED  BY <1>1 DEF Moved, PlaceInv, Even

LEMMA OneMoves ==
  ASSUME PlaceInv, NEW a \in Reqs, \A r \in Reqs \ {a} : Stay(r),
         Shape', One(a)'
  PROVE  PlaceInv' /\ Others(a)
<1>1. ASSUME NEW r \in Reqs \ {a}  PROVE One(r)' /\ (Busy(r)' <=> Busy(r))
  BY DEF PlaceInv, Stay, One, Busy
<1> QED  BY <1>1 DEF PlaceInv, Others

LEMMA OneMovesEven ==
  ASSUME PlaceInv, NEW a \in Reqs, \A r \in Reqs \ {a} : Stay(r),
         Shape', One(a)', (Busy(a)' <=> Busy(a)), crypto_q_cnt' = crypto_q_cnt
  PROVE  Moved
<1>1. PlaceInv' /\ Others(a)
  BY OneMoves
<1> QED  BY <1>1 DEF Moved, Even, Others

(* crypto_done: the request goes to the return queue, or is called back.   *)
LEMMA DoneMoves ==
  ASSUME TypeInv, NEW r \in Reqs, Done(r)
  PROVE  /\ \A q \in Reqs \ {r} : /\ (AtDone(q)' <=> AtDone(q))
                                  /\ (q \in out' <=> q \in out)
         /\ \/ (r \in out' <=> r \in out) /\ AtDone(r)'
            \/ r \notin out' /\ (AtDone(r)' <=> AtDone(r))
         /\ crp_ret_q' = crp_ret_q /\ crypto_q_cnt' = crypto_q_cnt - 1
<1>1. CASE r \in Direct
  BY <1>1 DEF Done, retVars, AtDone
<1>2. CASE r \notin Direct
  BY <1>2, NoReqAssumption DEF Done, AtDone
<1> QED  BY <1>1, <1>2

(* The answers of a driver's process().                                    *)
LEMMA ProcessMoves ==
  ASSUME TypeInv, HeldOwn, NEW r \in Reqs, NEW answer, Process(r, answer)
  PROVE  /\ \A q \in Reqs \ {r} : /\ (AtDone(q)' <=> AtDone(q))
                                  /\ (AtDriver(q)' <=> AtDriver(q))
                                  /\ (q \in out' <=> q \in out)
         /\ crp_ret_q' = crp_ret_q /\ HeldOwn'
         /\ \/ /\ answer = "refused" /\ crypto_q_cnt' = crypto_q_cnt
               /\ UNCHANGED <<out, held, donePend>>
            \/ /\ answer = "accepted" /\ crypto_q_cnt' = crypto_q_cnt
               /\ UNCHANGED <<out, donePend>> /\ AtDriver(r)'
            \/ /\ answer = "accepted" /\ crypto_q_cnt' = crypto_q_cnt - 1
               /\ UNCHANGED held
               /\ \/ (r \in out' <=> r \in out) /\ AtDone(r)'
                  \/ r \notin out' /\ (AtDone(r)' <=> AtDone(r))
<1> USE OcfAssumption
<1>1. CASE answer = "accepted" /\ DriverFinish(r)
  BY <1>1, DoneMoves DEF DriverFinish, driverVars, AtDriver, HeldOwn
<1>2. CASE answer = "accepted" /\ DriverAccept(r)
  <2>1. /\ held' = [held EXCEPT ![HidOf[r]] = @ \cup {r}]
        /\ held \in [Drivers -> SUBSET Reqs] /\ HidOf[r] \in Drivers
        /\ UNCHANGED <<crypto_q_cnt, out, crp_ret_q, donePend>>
    BY <1>2 DEF DriverAccept, retVars, TypeInv, Types
  <2>2. AtDriver(r)' /\ \A q \in Reqs \ {r} : (AtDriver(q)' <=> AtDriver(q))
    BY <2>1 DEF AtDriver
  <2>3. HeldOwn'
    BY <2>1 DEF HeldOwn
  <2> QED  BY <1>2, <2>1, <2>2, <2>3 DEF AtDone
<1>3. CASE answer = "refused" /\ DriverRefuse(r)
  BY <1>3 DEF DriverRefuse, retVars, AtDriver, AtDone, HeldOwn
<1> QED  BY <1>1, <1>2, <1>3 DEF Process

(* An invocation, from a caller or from the thread.                        *)
LEMMA InvokeMoves ==
  ASSUME TypeInv, PlaceInv, NEW r \in Reqs, NEW answer, Process(r, answer),
         UNCHANGED crp_q, AtCaller(r) \/ AtThread(r),
         \A q \in Reqs \ {r} : /\ (AtCaller(q)' <=> AtCaller(q))
                               /\ (AtThread(q)' <=> AtThread(q)),
         answer = "refused" => /\ (AtCaller(r)' <=> AtCaller(r))
                               /\ (AtThread(r)' <=> AtThread(r)),
         answer = "accepted" => ~AtCaller(r)' /\ ~AtThread(r)'
  PROVE  Moved
<1> DEFINE Refused  == /\ answer = "refused" /\ crypto_q_cnt' = crypto_q_cnt
                       /\ UNCHANGED <<out, held, donePend>>
           Accepted == /\ answer = "accepted" /\ crypto_q_cnt' = crypto_q_cnt
                       /\ UNCHANGED <<out, donePend>> /\ AtDriver(r)'
           Finishes == /\ answer = "accepted"
                        /\ crypto_q_cnt' = crypto_q_cnt - 1
                        /\ UNCHANGED held
                        /\ \/ (r \in out' <=> r \in out) /\ AtDone(r)'
                           \/ r \notin out' /\ (AtDone(r)' <=> AtDone(r))
<1>0. Shape /\ HeldOwn /\ One(r)
  BY DEF PlaceInv, Shape
<1>1. /\ \A q \in Reqs \ {r} : /\ (AtDone(q)' <=> AtDone(q))
                               /\ (AtDriver(q)' <=> AtDriver(q))
                               /\ (q \in out' <=> q \in out)
      /\ crp_ret_q' = crp_ret_q /\ HeldOwn'
  BY <1>0, ProcessMoves
<1>2. Refused \/ Accepted \/ Finishes
  BY <1>0, ProcessMoves
<1>3. ASSUME NEW q \in Reqs
      PROVE  (AtQueue(q)' <=> AtQueue(q)) /\ (AtRet(q)' <=> AtRet(q))
  BY <1>1 DEF AtQueue, AtRet
<1>4. \A q \in Reqs \ {r} : Stay(q)
  BY <1>1, <1>3 DEF Stay
<1>5. Shape'
  BY <1>0, <1>1 DEF Shape
<1>6. /\ ~AtQueue(r) /\ ~AtRet(r) /\ ~AtDone(r) /\ ~AtDriver(r)
      /\ r \in out
  BY <1>0 DEF One
<1>7. CASE Refused
  <2>1. (AtDone(r)' <=> AtDone(r)) /\ (AtDriver(r)' <=> AtDriver(r))
    BY <1>7 DEF AtDone, AtDriver
  <2>2. Stay(r)
    BY <1>3, <1>7, <2>1 DEF Stay
  <2> QED  BY <1>4, <1>5, <1>7, <2>2, AllStay
<1>8. CASE Accepted
  <2>1. ~AtDone(r)' /\ r \in out'
    BY <1>6, <1>8 DEF AtDone
  <2>2. One(r)' /\ (Busy(r)' <=> Busy(r))
    BY <1>3, <1>6, <1>8, <2>1 DEF One, Busy
  <2> QED  BY <1>4, <1>5, <1>8, <2>2, OneMovesEven
<1>9. CASE Finishes
  <2>1. ~AtDriver(r)'
    BY <1>6, <1>9 DEF AtDriver
  <2>2. One(r)' /\ ~Busy(r)' /\ Busy(r)
    BY <1>3, <1>6, <1>9, <2>1 DEF One, Busy
  <2>3. PlaceInv' /\ Others(r)
    BY <1>4, <1>5, <2>2, OneMoves
  <2> QED  BY <1>9, <2>2, <2>3 DEF Moved, Less
<1> QED  BY <1>2, <1>7, <1>8, <1>9

-----------------------------------------------------------------------------
LEMMA CallerMoves ==
  ASSUME TypeInv, PlaceInv, NEW r \in Reqs, CallerStep(r)
  PROVE  Moved
<1> USE OcfAssumption
<1>0. /\ Shape /\ One(r) /\ crp_q \in Seq(Reqs)
      /\ disp \in [Reqs -> InDispatch \cup {"idle"}]
  BY DEF PlaceInv, TypeInv, Types
<1>1. CASE Dispatch(r)
  <2>1. /\ UNCHANGED <<crp_ret_q, donePend, submit, held>>
        /\ out' = out \cup {r} /\ r \notin out /\ crypto_q_cnt < QMax
        /\ crypto_q_cnt' = crypto_q_cnt + 1 /\ disp[r] = "idle"
        /\ \/ /\ disp' = [disp EXCEPT ![r] = "invoke"] /\ UNCHANGED crp_q
           \/ /\ crp_q' = Append(crp_q, r) /\ UNCHANGED disp
    BY <1>1 DEF Dispatch, retVars, driverVars
  <2>2. proc' \in InDispatch \/ proc \in InDispatch => proc' = proc
    BY <1>1 DEF Dispatch, Woken, InDispatch
  <2>3. /\ ~AtQueue(r) /\ ~AtRet(r) /\ ~AtDone(r) /\ ~AtCaller(r)
        /\ ~AtThread(r) /\ ~AtDriver(r)
    BY <1>0, <2>1 DEF One
  <2>4. ASSUME NEW q \in Reqs
        PROVE  /\ (AtRet(q)' <=> AtRet(q))  /\ (AtDone(q)' <=> AtDone(q))
               /\ (AtThread(q)' <=> AtThread(q))
               /\ (AtDriver(q)' <=> AtDriver(q))
               /\ q # r => (q \in out' <=> q \in out)
    BY <2>1, <2>2 DEF AtRet, AtDone, AtThread, AtDriver, InDispatch
  <2>5. CASE disp' = [disp EXCEPT ![r] = "invoke"] /\ UNCHANGED crp_q
    <3>1. AtCaller(r)' /\ \A q \in Reqs \ {r} : (AtCaller(q)' <=> AtCaller(q))
      BY <1>0, <2>5 DEF AtCaller
    <3>2. \A q \in Reqs : (AtQueue(q)' <=> AtQueue(q))
      BY <2>5 DEF AtQueue
    <3>3. Shape'
      BY <1>0, <2>1, <2>5 DEF Shape, HeldOwn
    <3>4. One(r)' /\ Busy(r)' /\ ~Busy(r)
      BY <2>1, <2>3, <2>4, <3>1, <3>2 DEF One, Busy
    <3>5. \A q \in Reqs \ {r} : Stay(q)
      BY <2>4, <3>1, <3>2 DEF Stay
    <3>6. PlaceInv' /\ Others(r)
      BY <3>3, <3>4, <3>5, OneMoves
    <3> QED  BY <2>1, <3>4, <3>6 DEF Moved, More
  <2>6. CASE crp_q' = Append(crp_q, r) /\ UNCHANGED disp
    <3>1. AtQueue(r)' /\ \A q \in Reqs \ {r} : (AtQueue(q)' <=> AtQueue(q))
      BY <1>0, <2>6, AppendOne DEF AtQueue
    <3>2. \A q \in Reqs : (AtCaller(q)' <=> AtCaller(q))
      BY <2>6 DEF AtCaller
    <3>3. Shape'
      BY <1>0, <2>1, <2>3, <2>6, AppendOne DEF Shape, HeldOwn, AtQueue
    <3>4. One(r)' /\ Busy(r)' /\ ~Busy(r)
      BY <2>1, <2>3, <2>4, <3>1, <3>2 DEF One, Busy
    <3>5. \A q \in Reqs \ {r} : Stay(q)
      BY <2>4, <3>1, <3>2 DEF Stay
    <3>6. PlaceInv' /\ Others(r)
      BY <3>3, <3>4, <3>5, OneMoves
    <3> QED  BY <2>1, <3>4, <3>6 DEF Moved, More
  <2> QED  BY <2>1, <2>5, <2>6
<1>2. CASE DispatchInvoke(r)
  <2>1. PICK answer \in {"accepted", "refused"} :
          Process(r, answer) /\ disp' = [disp EXCEPT ![r] = answer]
    BY <1>2 DEF DispatchInvoke
  <2>2. UNCHANGED <<crp_q, proc, submit>> /\ disp[r] = "invoke"
    BY <1>2 DEF DispatchInvoke, queueVars
  <2>3. AtCaller(r) /\ HeldOwn
    BY <1>0, <2>2 DEF AtCaller, Shape
  <2>4. /\ AtCaller(r)' <=> (answer = "refused")
        /\ \A q \in Reqs \ {r} : (AtCaller(q)' <=> AtCaller(q))
    BY <1>0, <2>1 DEF AtCaller
  <2>5. \A q \in Reqs : (AtThread(q)' <=> AtThread(q))
    BY <2>2 DEF AtThread
  <2>6. ~AtThread(r)
    BY <1>0, <2>3 DEF One
  <2> QED  BY <2>1, <2>2, <2>3, <2>4, <2>5, <2>6, InvokeMoves
<1>3. CASE DispatchReturn(r)
  <2>1. /\ UNCHANGED <<crp_ret_q, donePend, submit, held, out, crypto_q_cnt>>
        /\ disp[r] \in {"accepted", "refused"}
        /\ disp' = [disp EXCEPT ![r] = "idle"]
        /\ crp_q' = IF disp[r] = "refused" THEN <<r>> \o crp_q ELSE crp_q
    BY <1>3 DEF DispatchReturn, retVars, driverVars
  <2>2. proc' \in InDispatch \/ proc \in InDispatch => proc' = proc
    BY <1>3 DEF DispatchReturn, Woken, InDispatch
  <2>3. ASSUME NEW q \in Reqs
        PROVE  /\ (AtRet(q)' <=> AtRet(q))  /\ (AtDone(q)' <=> AtDone(q))
               /\ (AtThread(q)' <=> AtThread(q))
               /\ (AtDriver(q)' <=> AtDriver(q))
               /\ (q \in out' <=> q \in out)
    BY <2>1, <2>2 DEF AtRet, AtDone, AtThread, AtDriver, InDispatch
  <2>4. ~AtCaller(r)' /\ \A q \in Reqs \ {r} : (AtCaller(q)' <=> AtCaller(q))
    BY <1>0, <2>1 DEF AtCaller
  <2>5. CASE disp[r] = "refused"
    <3>1. AtCaller(r) /\ ~AtQueue(r)
      BY <1>0, <2>5 DEF AtCaller, One
    <3>2. AtQueue(r)' /\ \A q \in Reqs \ {r} : (AtQueue(q)' <=> AtQueue(q))
      BY <1>0, <2>1, <2>5, FrontOne DEF AtQueue
    <3>3. Shape'
      BY <1>0, <2>1, <2>5, <3>1, FrontOne DEF Shape, HeldOwn, AtQueue
    <3>4. One(r)' /\ (Busy(r)' <=> Busy(r))
      BY <1>0, <2>3, <2>4, <3>1, <3>2 DEF One, Busy
    <3>5. \A q \in Reqs \ {r} : Stay(q)
      BY <2>3, <2>4, <3>2 DEF Stay
    <3> QED  BY <2>1, <3>3, <3>4, <3>5, OneMovesEven
  <2>6. CASE disp[r] # "refused"
    <3>1. ~AtCaller(r)
      BY <2>1, <2>6 DEF AtCaller
    <3>2. \A q \in Reqs : (AtQueue(q)' <=> AtQueue(q))
      BY <2>1, <2>6 DEF AtQueue
    <3>3. Shape'
      BY <1>0, <2>1, <2>6 DEF Shape, HeldOwn
    <3>4. \A q \in Reqs : Stay(q)
      BY <2>3, <2>4, <3>1, <3>2 DEF Stay
    <3> QED  BY <2>1, <3>3, <3>4, AllStay
  <2> QED  BY <2>5, <2>6
<1> QED  BY <1>1, <1>2, <1>3 DEF CallerStep

LEMMA ProcMoves ==
  ASSUME TypeInv, PlaceInv, ProcStep
  PROVE  Moved
<1> USE OcfAssumption
<1>0. Shape /\ crp_q \in Seq(Reqs) /\ NoRep(crp_q)
  BY DEF PlaceInv, Shape, TypeInv, Types
<1>1. CASE ProcTake
  <2>1. PICK k \in Ready : submit' = crp_q[k] /\ crp_q' = Without(crp_q, k)
    BY <1>1 DEF ProcTake
  <2>a. k \in 1 .. Len(crp_q)
    BY <2>1 DEF Ready
  <2>b. PICK r \in Reqs : r = crp_q[k]
    BY <1>0, <2>a, ElementOfSeq
  <2>2. AtQueue(r) /\ One(r)
    BY <2>a, <2>b DEF AtQueue, Rng, PlaceInv
  <2>3. submit' = r /\ Rng(crp_q') = Rng(crp_q) \ {r} /\ NoRep(crp_q')
    BY <1>0, <2>1, <2>a, <2>b, WithoutOne
  <2>4. /\ UNCHANGED <<crp_ret_q, donePend, held, out, crypto_q_cnt, disp>>
        /\ proc = "scan" /\ proc' = "invoke"
    BY <1>1 DEF ProcTake, retVars, driverVars
  <2>5. ASSUME NEW q \in Reqs
        PROVE  /\ (AtRet(q)' <=> AtRet(q))  /\ (AtDone(q)' <=> AtDone(q))
               /\ (AtCaller(q)' <=> AtCaller(q))
               /\ (AtDriver(q)' <=> AtDriver(q))
               /\ (q \in out' <=> q \in out)
    BY <2>4 DEF AtRet, AtDone, AtCaller, AtDriver
  <2>6. ~AtQueue(r)' /\ \A q \in Reqs \ {r} : (AtQueue(q)' <=> AtQueue(q))
    BY <2>3 DEF AtQueue
  <2>7. AtThread(r)' /\ \A q \in Reqs \ {r} : (AtThread(q)' <=> AtThread(q))
    BY <2>3, <2>4 DEF AtThread
  <2>8. Shape'
    BY <1>0, <2>3, <2>4 DEF Shape, HeldOwn
  <2>9. One(r)' /\ (Busy(r)' <=> Busy(r))
    BY <2>2, <2>5, <2>6, <2>7 DEF One, Busy
  <2>10. \A q \in Reqs \ {r} : Stay(q)
    BY <2>5, <2>6, <2>7 DEF Stay
  <2> QED  BY <2>2, <2>4, <2>8, <2>9, <2>10, OneMovesEven
<1>2. CASE ProcNothing \/ ProcSleep \/ ProcCheck
  <2>1. /\ UNCHANGED <<crp_q, crp_ret_q, donePend, held, out, crypto_q_cnt,
                       disp, submit>>
        /\ proc \notin InDispatch /\ proc' \notin InDispatch
    BY <1>2 DEF ProcNothing, ProcSleep, ProcCheck, queueVars, retVars,
                driverVars, InDispatch
  <2>2. \A q \in Reqs : Stay(q)
    BY <2>1 DEF Stay, AtQueue, AtRet, AtDone, AtCaller, AtThread, AtDriver,
                InDispatch
  <2>3. Shape'
    BY <1>0, <2>1 DEF Shape, HeldOwn
  <2> QED  BY <2>1, <2>2, <2>3, AllStay
<1>3. CASE ProcInvoke
  <2>1. PICK answer \in {"accepted", "refused"} :
          Process(submit, answer) /\ proc' = answer
    BY <1>3 DEF ProcInvoke
  <2>2. UNCHANGED <<crp_q, submit, disp>> /\ proc = "invoke"
    BY <1>3 DEF ProcInvoke, queueVars
  <2>3. submit \in Reqs /\ AtThread(submit) /\ One(submit)
    BY <2>2 DEF TypeInv, SubmitOK, InDispatch, AtThread, PlaceInv
  <2>4. ~AtCaller(submit)
    BY <2>3 DEF One
  <2>5. /\ \A q \in Reqs : (AtCaller(q)' <=> AtCaller(q))
        /\ \A q \in Reqs \ {submit} : (AtThread(q)' <=> AtThread(q))
    BY <2>2 DEF AtCaller, AtThread
  <2>6. /\ answer = "refused" => \A q \in Reqs : (AtThread(q)' <=> AtThread(q))
        /\ answer = "accepted" => \A q \in Reqs : ~AtThread(q)'
    BY <2>1, <2>2 DEF AtThread
  <2> DEFINE r == submit
  <2>7. r \in Reqs /\ Process(r, answer)
    BY <2>1, <2>3
  <2>8. /\ AtCaller(r) \/ AtThread(r)
        /\ \A q \in Reqs \ {r} : /\ (AtCaller(q)' <=> AtCaller(q))
                                 /\ (AtThread(q)' <=> AtThread(q))
        /\ answer = "refused" => /\ (AtCaller(r)' <=> AtCaller(r))
                                 /\ (AtThread(r)' <=> AtThread(r))
        /\ answer = "accepted" => ~AtCaller(r)' /\ ~AtThread(r)'
    BY <2>2, <2>3, <2>4, <2>5, <2>6
  <2> QED  BY <2>2, <2>7, <2>8, InvokeMoves
<1>4. CASE ProcReturn
  <2>1. /\ UNCHANGED <<crp_ret_q, donePend, held, out, crypto_q_cnt, disp>>
        /\ proc \in {"accepted", "refused"}
        /\ submit' = NoReq /\ proc' = "scan"
        /\ crp_q' = IF proc = "refused" THEN <<submit>> \o crp_q ELSE crp_q
    BY <1>4 DEF ProcReturn, retVars, driverVars
  <2>2. submit \in Reqs /\ One(submit)
    BY <2>1 DEF TypeInv, SubmitOK, InDispatch, PlaceInv
  <2>3. ASSUME NEW q \in Reqs
        PROVE  /\ (AtRet(q)' <=> AtRet(q))  /\ (AtDone(q)' <=> AtDone(q))
               /\ (AtCaller(q)' <=> AtCaller(q))
               /\ (AtDriver(q)' <=> AtDriver(q))
               /\ (q \in out' <=> q \in out)
    BY <2>1 DEF AtRet, AtDone, AtCaller, AtDriver
  <2>4. \A q \in Reqs : ~AtThread(q)'
    BY <2>1 DEF AtThread
  <2>5. CASE proc = "refused"
    <3>a. PICK r \in Reqs : r = submit
      BY <2>2
    <3>1. AtThread(r) /\ ~AtQueue(r) /\ One(r)
      BY <2>2, <2>5, <3>a DEF AtThread, One
    <3>2. crp_q' = <<r>> \o crp_q
      BY <2>1, <2>5, <3>a
    <3>3. \A q \in Reqs \ {r} : ~AtThread(q)
      BY <3>a DEF AtThread
    <3>4. /\ AtQueue(r)' /\ NoRep(crp_q')
          /\ \A q \in Reqs \ {r} : (AtQueue(q)' <=> AtQueue(q))
      BY <1>0, <3>1, <3>2, FrontOne DEF AtQueue
    <3>5. Shape'
      BY <1>0, <2>1, <3>4 DEF Shape, HeldOwn
    <3>6. \A q \in Reqs \ {r} : Stay(q)
      BY <2>3, <2>4, <3>3, <3>4 DEF Stay
    <3>7. /\ (AtRet(r)' <=> AtRet(r))  /\ (AtDone(r)' <=> AtDone(r))
          /\ (AtCaller(r)' <=> AtCaller(r))
          /\ (AtDriver(r)' <=> AtDriver(r))
          /\ (r \in out' <=> r \in out)
          /\ ~AtThread(r)'
      BY <2>3, <2>4, <3>1
    <3>8. One(r)' /\ (Busy(r)' <=> Busy(r))
      BY <3>1, <3>4, <3>7 DEF One, Busy
    <3> QED  BY <2>1, <3>1, <3>5, <3>6, <3>8, OneMovesEven
  <2>6. CASE proc # "refused"
    <3>1. \A q \in Reqs : ~AtThread(q)
      BY <2>1, <2>6 DEF AtThread
    <3>2. \A q \in Reqs : (AtQueue(q)' <=> AtQueue(q))
      BY <2>1, <2>6 DEF AtQueue
    <3>3. Shape'
      BY <1>0, <2>1, <2>6 DEF Shape, HeldOwn
    <3>4. \A q \in Reqs : Stay(q)
      BY <2>3, <2>4, <3>1, <3>2 DEF Stay
    <3> QED  BY <2>1, <3>3, <3>4, AllStay
  <2> QED  BY <2>5, <2>6
<1> QED  BY <1>1, <1>2, <1>3, <1>4 DEF ProcStep

LEMMA RetMoves ==
  ASSUME TypeInv, PlaceInv, RetStep
  PROVE  Moved
<1>0. Shape /\ crp_ret_q \in Seq(Reqs) /\ NoRep(crp_ret_q)
  BY DEF PlaceInv, Shape, TypeInv, Types
<1>1. CASE RetHarvest /\ crp_ret_q # <<>>
  <2>1. PICK r \in Reqs : r = Head(crp_ret_q)
    BY <1>0, <1>1, HeadTailProperties
  <2>2. /\ UNCHANGED <<crp_q, donePend, disp, proc, submit, held,
                       crypto_q_cnt>>
        /\ crp_ret_q' = Tail(crp_ret_q) /\ out' = out \ {r}
    BY <1>1, <2>1 DEF RetHarvest, queueVars, driverVars
  <2>3. /\ Rng(crp_ret_q') = Rng(crp_ret_q) \ {r} /\ r \in Rng(crp_ret_q)
        /\ NoRep(crp_ret_q')
    BY <1>0, <1>1, <2>1, <2>2, TailOne
  <2>4. AtRet(r) /\ One(r)
    BY <2>1, <2>3 DEF AtRet, PlaceInv
  <2>5. ASSUME NEW q \in Reqs
        PROVE  /\ (AtQueue(q)' <=> AtQueue(q))  /\ (AtDone(q)' <=> AtDone(q))
               /\ (AtCaller(q)' <=> AtCaller(q))
               /\ (AtThread(q)' <=> AtThread(q))
               /\ (AtDriver(q)' <=> AtDriver(q))
    BY <2>2 DEF AtQueue, AtDone, AtCaller, AtThread, AtDriver
  <2>6. /\ ~AtRet(r)' /\ r \notin out'
        /\ \A q \in Reqs \ {r} : /\ (AtRet(q)' <=> AtRet(q))
                                 /\ (q \in out' <=> q \in out)
    BY <2>2, <2>3 DEF AtRet
  <2>7. Shape'
    BY <1>0, <2>2, <2>3 DEF Shape, HeldOwn
  <2>8. One(r)' /\ (Busy(r)' <=> Busy(r))
    BY <2>1, <2>4, <2>5, <2>6 DEF One, Busy
  <2>9. \A q \in Reqs \ {r} : Stay(q)
    BY <2>5, <2>6 DEF Stay
  <2> QED  BY <2>1, <2>2, <2>7, <2>8, <2>9, OneMovesEven
<1>2. CASE RetCheck \/ (RetHarvest /\ crp_ret_q = <<>>)
  <2>1. UNCHANGED <<crp_q, crp_ret_q, donePend, disp, proc, submit, held,
                    out, crypto_q_cnt>>
    BY <1>2 DEF RetCheck, RetHarvest, queueVars, driverVars
  <2>2. \A q \in Reqs : Stay(q)
    BY <2>1 DEF Stay, AtQueue, AtRet, AtDone, AtCaller, AtThread, AtDriver
  <2>3. Shape'
    BY <1>0, <2>1 DEF Shape, HeldOwn
  <2> QED  BY <2>1, <2>2, <2>3, AllStay
<1> QED  BY <1>1, <1>2 DEF RetStep

LEMMA IrqMoves ==
  ASSUME TypeInv, PlaceInv, NEW h \in Drivers, IrqStep(h)
  PROVE  Moved
<1> USE OcfAssumption
<1>0. Shape /\ HeldOwn /\ held \in [Drivers -> SUBSET Reqs]
  BY DEF PlaceInv, Shape, TypeInv, Types
<1>1. CASE Complete(h)
  <2>1. PICK r \in held[h] : Done(r) /\ held' = [held EXCEPT ![h] = @ \ {r}]
    BY <1>1 DEF Complete
  <2>2. r \in Reqs /\ HidOf[r] = h /\ AtDriver(r)
    BY <1>0 DEF HeldOwn, AtDriver
  <2>3. One(r)
    BY <2>2 DEF PlaceInv
  <2>4. UNCHANGED <<crp_q, disp, proc, submit>>
    BY <1>1 DEF Complete, queueVars
  <2>5. /\ ~AtDriver(r)'
        /\ \A q \in Reqs \ {r} : (AtDriver(q)' <=> AtDriver(q))
        /\ HeldOwn'
    BY <1>0, <2>1, <2>2 DEF AtDriver, HeldOwn
  <2>6. /\ \A q \in Reqs \ {r} : /\ (AtDone(q)' <=> AtDone(q))
                                 /\ (q \in out' <=> q \in out)
        /\ \/ (r \in out' <=> r \in out) /\ AtDone(r)'
           \/ r \notin out' /\ (AtDone(r)' <=> AtDone(r))
        /\ crp_ret_q' = crp_ret_q /\ crypto_q_cnt' = crypto_q_cnt - 1
    BY <2>1, <2>2, DoneMoves
  <2>7. ASSUME NEW q \in Reqs
        PROVE  /\ (AtQueue(q)' <=> AtQueue(q)) /\ (AtRet(q)' <=> AtRet(q))
               /\ (AtCaller(q)' <=> AtCaller(q))
               /\ (AtThread(q)' <=> AtThread(q))
    BY <2>4, <2>6 DEF AtQueue, AtRet, AtCaller, AtThread
  <2>8. Shape'
    BY <1>0, <2>4, <2>5, <2>6 DEF Shape
  <2>9. One(r)' /\ Busy(r) /\ ~Busy(r)'
    BY <2>2, <2>3, <2>5, <2>6, <2>7 DEF One, Busy
  <2>10. \A q \in Reqs \ {r} : Stay(q)
    BY <2>5, <2>6, <2>7 DEF Stay
  <2>11. PlaceInv' /\ Others(r)
    BY <2>2, <2>8, <2>9, <2>10, OneMoves
  <2> QED  BY <2>2, <2>6, <2>9, <2>11 DEF Moved, Less
<1>2. CASE IrqEnd(h)
  <2>1. UNCHANGED <<crp_q, crp_ret_q, donePend, disp, submit, held, out,
                    crypto_q_cnt>>
    BY <1>2 DEF IrqEnd, retVars
  <2>2. proc' \in InDispatch \/ proc \in InDispatch => proc' = proc
    BY <1>2 DEF IrqEnd, Unblock, Woken, InDispatch
  <2>3. \A q \in Reqs : Stay(q)
    BY <2>1, <2>2 DEF Stay, AtQueue, AtRet, AtDone, AtCaller, AtThread,
                      AtDriver, InDispatch
  <2>4. Shape'
    BY <1>0, <2>1 DEF Shape, HeldOwn
  <2> QED  BY <2>1, <2>3, <2>4, AllStay
<1> QED  BY <1>1, <1>2 DEF IrqStep

LEMMA InsertMoves ==
  ASSUME TypeInv, PlaceInv, DoneInsert
  PROVE  Moved
<1>a. PICK r \in Reqs : r = donePend
  BY DEF TypeInv, Types, DoneInsert
<1>0. /\ Shape /\ crp_ret_q \in Seq(Reqs) /\ NoRep(crp_ret_q)
      /\ AtDone(r) /\ One(r)
  BY <1>a DEF PlaceInv, Shape, TypeInv, Types, AtDone
<1>1. /\ UNCHANGED <<crp_q, disp, proc, submit, held, out, crypto_q_cnt>>
      /\ crp_ret_q' = Append(crp_ret_q, r) /\ donePend' = NoReq
  BY <1>a DEF DoneInsert, queueVars, driverVars
<1>2. \A q \in Reqs : ~AtDone(q)'
  BY <1>1, NoReqAssumption DEF AtDone
<1>3. \A q \in Reqs \ {r} : ~AtDone(q)
  BY <1>a DEF AtDone
<1>4. ~AtRet(r)
  BY <1>0 DEF One
<1>5. /\ AtRet(r)' /\ NoRep(crp_ret_q')
      /\ \A q \in Reqs \ {r} : (AtRet(q)' <=> AtRet(q))
  BY <1>0, <1>1, <1>4, AppendOne DEF AtRet
<1>6. ASSUME NEW q \in Reqs
      PROVE  /\ (AtQueue(q)' <=> AtQueue(q))  /\ (q \in out' <=> q \in out)
             /\ (AtCaller(q)' <=> AtCaller(q))
             /\ (AtThread(q)' <=> AtThread(q))
             /\ (AtDriver(q)' <=> AtDriver(q))
  BY <1>1 DEF AtQueue, AtCaller, AtThread, AtDriver
<1>7. Shape'
  BY <1>0, <1>1, <1>5 DEF Shape, HeldOwn
<1>8. \A q \in Reqs \ {r} : Stay(q)
  BY <1>2, <1>3, <1>5, <1>6 DEF Stay
<1>9. One(r)' /\ (Busy(r)' <=> Busy(r))
  BY <1>0, <1>2, <1>5, <1>6 DEF One, Busy
<1> QED  BY <1>0, <1>1, <1>7, <1>8, <1>9, OneMovesEven

LEMMA StepMoves ==
  ASSUME TypeInv, PlaceInv, [Next]_vars
  PROVE  Moved
<1>1. CASE UNCHANGED vars
  <2>1. UNCHANGED <<crp_q, crp_ret_q, donePend, disp, proc, submit, held,
                    out, crypto_q_cnt>>
    BY <1>1 DEF vars, queueVars, retVars, driverVars
  <2>2. \A q \in Reqs : Stay(q)
    BY <2>1 DEF Stay, AtQueue, AtRet, AtDone, AtCaller, AtThread, AtDriver
  <2>3. Shape'
    BY <2>1 DEF PlaceInv, Shape, HeldOwn
  <2> QED  BY <2>1, <2>2, <2>3, AllStay
<1> QED
  BY <1>1, CallerMoves, ProcMoves, RetMoves, IrqMoves, InsertMoves DEF Next

LEMMA InitPlace == Init => PlaceInv
<1> SUFFICES ASSUME Init  PROVE PlaceInv
  OBVIOUS
<1>1. Rng(crp_q) = {} /\ Rng(crp_ret_q) = {}
  BY EmptySeq DEF Init, Rng
<1>2. Shape
  BY EmptySeq DEF Init, Shape, NoRep, HeldOwn
<1>3. ASSUME NEW r \in Reqs  PROVE One(r)
  BY <1>1, OcfAssumption, NoReqAssumption
  DEF Init, One, AtQueue, AtRet, AtDone, AtCaller, AtThread, AtDriver
<1> QED  BY <1>2, <1>3 DEF PlaceInv

LEMMA Placed == Spec => [](TypeInv /\ PlaceInv)
<1>1. Init => TypeInv /\ PlaceInv
  BY InitType, InitPlace
<1>2. TypeInv /\ PlaceInv /\ [Next]_vars => (TypeInv /\ PlaceInv)'
  BY TypeStep, StepMoves DEF Moved
<1> QED  BY <1>1, <1>2, PTL DEF Spec

(* In a queue without repetitions a request has at most one position.      *)
LEMMA OnePosition ==
  ASSUME NEW s \in Seq(Reqs), NoRep(s), NEW r
  PROVE  Cardinality({i \in 1 .. Len(s) : s[i] = r})
           = IF r \in Rng(s) THEN 1 ELSE 0
<1> DEFINE I == {i \in 1 .. Len(s) : s[i] = r}
<1>1. CASE r \in Rng(s)
  <2>1. PICK i \in 1 .. Len(s) : s[i] = r
    BY <1>1 DEF Rng
  <2>2. I = {i}
    BY <2>1 DEF NoRep
  <2> QED  BY <1>1, <2>2, FS_Singleton
<1>2. CASE r \notin Rng(s)
  <2>1. I = {}
    BY <1>2 DEF Rng
  <2> QED  BY <1>2, <2>1, FS_EmptySet
<1> QED  BY <1>1, <1>2

(* A dispatched request is in exactly one place and any other in none,     *)
(* through refusals, completions inside process() and re-insertions, on    *)
(* one CPU and on several.                                                 *)
THEOREM OnePlaceCorrect == Spec => []OnePlace
<1>1. ASSUME TypeInv, PlaceInv, NEW r \in Reqs
      PROVE  Places(r) = IF r \in out THEN 1 ELSE 0
  <2>1. /\ crp_q \in Seq(Reqs) /\ crp_ret_q \in Seq(Reqs)
        /\ NoRep(crp_q) /\ NoRep(crp_ret_q) /\ HeldOwn /\ One(r)
    BY <1>1 DEF TypeInv, Types, PlaceInv, Shape
  <2>2. Cardinality({i \in 1 .. Len(crp_q) : crp_q[i] = r})
          = IF AtQueue(r) THEN 1 ELSE 0
    BY <2>1, OnePosition DEF AtQueue
  <2>3. Cardinality({i \in 1 .. Len(crp_ret_q) : crp_ret_q[i] = r})
          = IF AtRet(r) THEN 1 ELSE 0
    BY <2>1, OnePosition DEF AtRet
  <2>4. Cardinality({h \in Drivers : r \in held[h]})
          = IF AtDriver(r) THEN 1 ELSE 0
    <3>1. CASE AtDriver(r)
      <4>1. {h \in Drivers : r \in held[h]} = {HidOf[r]}
        BY <2>1, <3>1, OcfAssumption DEF AtDriver, HeldOwn
      <4> QED  BY <3>1, <4>1, FS_Singleton
    <3>2. CASE ~AtDriver(r)
      <4>1. {h \in Drivers : r \in held[h]} = {}
        BY <2>1, <3>2 DEF AtDriver, HeldOwn
      <4> QED  BY <3>2, <4>1, FS_EmptySet
    <3> QED  BY <3>1, <3>2
  <2>5. Places(r) = (IF AtQueue(r) THEN 1 ELSE 0) + (IF AtRet(r) THEN 1 ELSE 0)
                    + (IF AtDriver(r) THEN 1 ELSE 0)
                    + (IF AtCaller(r) THEN 1 ELSE 0)
                    + (IF AtThread(r) THEN 1 ELSE 0)
                    + (IF AtDone(r) THEN 1 ELSE 0)
    BY <2>2, <2>3, <2>4 DEF Places, AtCaller, AtThread, AtDone
  <2> QED  BY <2>1, <2>5 DEF One
<1>2. TypeInv /\ PlaceInv => OnePlace
  BY <1>1 DEF OnePlace
<1> QED  BY <1>2, Placed, PTL

-----------------------------------------------------------------------------
Undone == {r \in out : ~Finished(r)}

CountInv ==
  /\ IsFiniteSet(Undone) /\ crypto_q_cnt = Cardinality(Undone)
  /\ crypto_q_cnt <= QMax

LEMMA CountStep ==
  ASSUME TypeInv, TypeInv', CountInv, Moved
  PROVE  CountInv'
<1>1. Undone = {r \in Reqs : Busy(r)}
  BY DEF Undone, Busy, Finished, AtRet, AtDone, TypeInv, Types
<1>2. Undone' = {r \in Reqs : Busy(r)'}
  BY DEF Undone, Busy, Finished, AtRet, AtDone, TypeInv, Types
<1>3. Cardinality(Undone) \in Nat /\ QMax \in Nat
  BY FS_CardinalityType, OcfAssumption DEF CountInv
<1>4. CASE Even
  <2>1. Undone' = Undone
    BY <1>1, <1>2, <1>4 DEF Even
  <2> QED  BY <1>4, <2>1 DEF CountInv, Even
<1>5. ASSUME NEW a \in Reqs, More(a)  PROVE CountInv'
  <2>1. Undone' = Undone \cup {a} /\ a \notin Undone
    BY <1>1, <1>2, <1>5 DEF More, Others
  <2>2. /\ IsFiniteSet(Undone')
        /\ Cardinality(Undone') = Cardinality(Undone) + 1
    BY <2>1, FS_AddElement DEF CountInv
  <2> QED  BY <1>3, <1>5, <2>2 DEF CountInv, More
<1>6. ASSUME NEW a \in Reqs, Less(a)  PROVE CountInv'
  <2>1. Undone' = Undone \ {a} /\ a \in Undone
    BY <1>1, <1>2, <1>6 DEF Less, Others
  <2>2. /\ IsFiniteSet(Undone')
        /\ Cardinality(Undone') = Cardinality(Undone) - 1
    BY <2>1, FS_RemoveElement DEF CountInv
  <2> QED  BY <1>3, <1>6, <2>2 DEF CountInv, Less
<1> QED  BY <1>4, <1>5, <1>6 DEF Moved

LEMMA Counted == Spec => [](TypeInv /\ PlaceInv /\ CountInv)
<1>1. Init => CountInv
  <2> SUFFICES ASSUME Init  PROVE CountInv
    OBVIOUS
  <2>1. Undone = {} /\ crypto_q_cnt = 0
    BY DEF Init, Undone
  <2> QED  BY <2>1, FS_EmptySet, OcfAssumption DEF CountInv
<1>2. Init => TypeInv /\ PlaceInv /\ CountInv
  BY <1>1, InitType, InitPlace
<1>3. TypeInv /\ PlaceInv /\ CountInv /\ [Next]_vars
        => (TypeInv /\ PlaceInv /\ CountInv)'
  <2> SUFFICES ASSUME TypeInv, PlaceInv, CountInv, [Next]_vars
               PROVE  TypeInv' /\ PlaceInv' /\ CountInv'
    OBVIOUS
  <2>1. Moved /\ TypeInv'
    BY TypeStep, StepMoves
  <2> QED  BY <2>1, CountStep DEF Moved
<1> QED  BY <1>2, <1>3, PTL DEF Spec

(* crypto_q_cnt is the number of requests dispatched and not yet done:     *)
(* crypto_done runs once for each that crypto_dispatch has counted.        *)
THEOREM CountCorrect == Spec => []QCountExact
<1>1. CountInv => QCountExact
  BY DEF CountInv, QCountExact, Undone
<1> QED  BY <1>1, Counted, PTL

(* With the count exact, it stays within its limit and never wraps.        *)
THEOREM LimitCorrect == Spec => []TypeOK
<1>1. TypeInv /\ CountInv => TypeOK
  BY FS_CardinalityType, OcfAssumption DEF TypeInv, CountInv, TypeOK
<1> QED  BY <1>1, Counted, PTL

=============================================================================
