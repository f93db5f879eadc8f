---------------------------- MODULE LeavesProofs ----------------------------
(***************************************************************************)
(* Proofs about four small components that have nothing to do with each    *)
(* other: the netdev LED trigger, for any set of devices and any number of *)
(* references; the VLANs of the RTL8366S, for any number of ports, member  *)
(* configurations and VLANs; YAFFS2's code over the tags, for tags of any  *)
(* length and contents; its short-operation cache, for any files, any      *)
(* number of chunks and a cache of any size. Each has an inductive         *)
(* invariant (LedInv, VlanInv, EccInv, CacheInv) that the properties are   *)
(* parts of or follow from.                                                *)
(***************************************************************************)
EXTENDS LedNetdev, Rtl8366Vlan, YaffsEcc, YaffsCache, SequenceTheorems, FiniteSetTheorems,
        WellFoundedInduction, TLAPS

(* LedNetdev.                                                              *)

Todos == {<<>>, <<"timer">>, <<"led", "timer">>, <<"flags", "led", "timer">>}

LedTypes ==
  /\ trigger \in {"off", "on", "stopping"}
  /\ net_dev \in Devs \cup {NoDev}
  /\ device \in [Devs -> {"none", "there", "going"}]
  /\ refs \in [Devs -> Nat]
  /\ todo \in Todos

(* From the unlock of netdev_trig_deactivate on there is nothing left but  *)
(* the timer, and after del_timer_sync not even that.                      *)
Quiet ==
  /\ trigger # "on" => net_dev = NoDev /\ todo = <<>>
  /\ trigger = "off" => ~pending

LedInv == LedTypes /\ Quiet /\ NetDevHeld /\ BlinkArmed

LEMMA InitLed == LedInit => LedInv
  BY DEF LedInit, LedInv, LedTypes, Todos, Quiet, NetDevHeld, BlinkArmed

(* What a writer has left to do is one of four lists.                      *)
LEMMA BaselineLists ==
  /\ Baseline \in Todos /\ <<"flags">> \o Baseline \in Todos
  /\ Baseline # <<>> /\ <<"flags">> \o Baseline # <<>>
<1>1. <<"flags">> \o <<"led", "timer">> = <<"flags", "led", "timer">>
  <2> DEFINE S == {"flags", "led", "timer"}
             f == <<"flags">>
             b == <<"led", "timer">>
             l == <<"flags", "led", "timer">>
  <2>1. f \in Seq(S) /\ b \in Seq(S) /\ l \in Seq(S)
    OBVIOUS
  <2>2. /\ Len(f) = 1 /\ f[1] = "flags"
        /\ Len(b) = 2 /\ b[1] = "led" /\ b[2] = "timer"
        /\ Len(l) = 3 /\ l[1] = "flags" /\ l[2] = "led" /\ l[3] = "timer"
    OBVIOUS
  <2> HIDE DEF S, f, b, l
  <2>3. /\ f \o b \in Seq(S) /\ Len(f \o b) = 3
        /\ \A i \in 1 .. 3 : (f \o b)[i] = IF i <= 1 THEN f[i] ELSE b[i - 1]
    <3>1. /\ f \o b \in Seq(S) /\ Len(f \o b) = Len(f) + Len(b)
          /\ \A i \in 1 .. Len(f) + Len(b) : (f \o b)[i] =
               IF i <= Len(f) THEN f[i] ELSE b[i - Len(f)]
      BY <2>1, ConcatProperties, Zenon
    <3>2. Len(f) + Len(b) = 3
      BY <2>2
    <3> QED  BY <2>2, <3>1, <3>2, Zenon
  <2>4. \A i \in 1 .. 3 : (f \o b)[i] = l[i]
    BY <2>2, <2>3
  <2>5. f \o b = l
    BY <2>1, <2>2, <2>3, <2>4, SeqEqual
  <2> QED  BY <2>5 DEF f, b, l
<1>2. <<"led", "timer">> # <<>> /\ <<"flags", "led", "timer">> # <<>>
  OBVIOUS
<1> QED  BY <1>1, <1>2 DEF Baseline, Todos

LEMMA TailList ==
  ASSUME NEW t \in Todos, t # <<>>
  PROVE  /\ Tail(t) \in Todos
         /\ Head(t) # "timer" => Tail(t) # <<>>
<1>1. CASE t = <<"timer">>
  <2>1. Tail(<<"timer">>) = <<>> /\ Head(<<"timer">>) = "timer"
    OBVIOUS
  <2> QED  BY <1>1, <2>1 DEF Todos
<1>2. CASE t = <<"led", "timer">>
  <2>1. Tail(<<"led", "timer">>) = <<"timer">> /\ <<"timer">> # <<>>
    OBVIOUS
  <2> QED  BY <1>2, <2>1 DEF Todos
<1>3. CASE t = <<"flags", "led", "timer">>
  <2>1. /\ Tail(<<"flags", "led", "timer">>) = <<"led", "timer">>
        /\ <<"led", "timer">> # <<>>
    OBVIOUS
  <2> QED  BY <1>3, <2>1 DEF Todos
<1> QED  BY <1>1, <1>2, <1>3 DEF Todos

(* The trigger puts only what it holds: the counts stay natural numbers.    *)
LEMMA PutType ==
  ASSUME LedTypes, NetDevHeld
  PROVE  Put(refs, net_dev) \in [Devs -> Nat]
  BY LedAssumption DEF LedTypes, NetDevHeld, Put

LEMMA LedStep == LedInv /\ [LedNext]_ledVars => LedInv'
<1> SUFFICES ASSUME LedInv, [LedNext]_ledVars  PROVE LedInv'
  OBVIOUS
<1> USE LedAssumption DEF LedInv, deviceVars, dataVars
<1>1. CASE Activate
  BY <1>1 DEF Activate, LedTypes, Quiet, NetDevHeld, BlinkArmed, Todos
<1>2. CASE Deactivate
  <2>1. LedTypes'
    BY <1>2, PutType DEF Deactivate, LedTypes
  <2> QED
    BY <1>2, <2>1 DEF Deactivate, Quiet, NetDevHeld, BlinkArmed, Idle
<1>3. CASE Deactivated
  BY <1>3 DEF Deactivated, LedTypes, Quiet, NetDevHeld, BlinkArmed
<1>4. ASSUME NEW n \in Devs \cup {NoDev}, StoreName(n)  PROVE LedInv'
  <2>1. refs' \in [Devs -> Nat] /\ net_dev' \in Devs \cup {NoDev}
    BY <1>4 DEF StoreName, LedTypes, Hold
  <2>4. todo' \in Todos
    BY <1>4, BaselineLists DEF StoreName, LedTypes
  <2>2. NetDevHeld'
    BY <1>4 DEF StoreName, LedTypes, NetDevHeld, Hold
  <2>3. Quiet' /\ BlinkArmed'
    BY <1>4, BaselineLists DEF StoreName, Quiet, BlinkArmed, Idle
  <2>5. LedTypes'
    BY <1>4, <2>1, <2>4 DEF StoreName, LedTypes
  <2> QED  BY <2>2, <2>3, <2>5
<1>5. ASSUME NEW m \in Modes, StoreMode(m)  PROVE LedInv'
  BY <1>5, BaselineLists
  DEF StoreMode, LedTypes, Quiet, NetDevHeld, BlinkArmed, Idle
<1>6. CASE ReadFlags
  BY <1>6, TailList
  DEF ReadFlags, LedTypes, Quiet, NetDevHeld, BlinkArmed, Idle
<1>7. CASE SetLed
  BY <1>7, TailList
  DEF SetLed, LedTypes, Quiet, NetDevHeld, BlinkArmed, Idle
<1>8. CASE SetTimer
  BY <1>8, TailList
  DEF SetTimer, LedTypes, Quiet, NetDevHeld, BlinkArmed, Idle
<1>9. ASSUME NEW n \in Devs, Register(n)  PROVE LedInv'
  <2>1. LedTypes' /\ NetDevHeld'
    BY <1>9, PutType DEF Register, LedTypes, NetDevHeld, Hold
  <2>2. Quiet' /\ BlinkArmed'
    BY <1>9 DEF Register, Notified, Quiet, BlinkArmed, Idle
  <2> QED  BY <2>1, <2>2
<1>10. ASSUME NEW n \in Devs, Unregister(n)  PROVE LedInv'
  <2>1. LedTypes' /\ NetDevHeld'
    BY <1>10, PutType, BaselineLists
    DEF Unregister, LedTypes, NetDevHeld
  <2>2. Quiet' /\ BlinkArmed'
    BY <1>10, BaselineLists DEF Unregister, Notified, Quiet, BlinkArmed, Idle
  <2> QED  BY <2>1, <2>2
<1>11. ASSUME NEW n \in Devs, Freed(n)  PROVE LedInv'
  BY <1>11 DEF Freed, LedTypes, Quiet, NetDevHeld, BlinkArmed, Idle
<1>12. ASSUME NEW n \in Devs, NEW linked, LinkEvent(n, linked)  PROVE LedInv'
  BY <1>12, BaselineLists
  DEF LinkEvent, Notified, LedTypes, Quiet, NetDevHeld, BlinkArmed, Idle
<1>13. ASSUME NEW n \in Devs, IfUp(n) \/ IfDown(n) \/ Carrier(n)
       PROVE  LedInv'
  <2>1. CASE \E linked : LinkEvent(n, linked)
    BY <1>12, <2>1
  <2>2. CASE UNCHANGED <<trigger, dataVars, pending, news, lit, todo, device,
                         refs>>
    BY <2>2 DEF LedTypes, Quiet, NetDevHeld, BlinkArmed, Idle
  <2> QED  BY <1>13, <2>1, <2>2 DEF IfUp, IfDown, Carrier
<1>14. CASE Traffic
  BY <1>14 DEF Traffic, LedTypes, Quiet, NetDevHeld, BlinkArmed, Idle
<1>15. CASE Timer
  <2>1. \/ UNCHANGED pending
        \/ /\ pending /\ pending' = FALSE
           /\ ~link_up \/ net_dev = NoDev \/ "activity" \notin mode
    BY <1>15 DEF Timer
  <2> QED
    BY <1>15, <2>1
    DEF Timer, LedTypes, Quiet, NetDevHeld, BlinkArmed, Idle
<1>16. CASE UNCHANGED ledVars
  BY <1>16 DEF ledVars, LedTypes, Quiet, NetDevHeld, BlinkArmed, Idle
<1> QED
  BY <1>1, <1>2, <1>3, <1>4, <1>5, <1>6, <1>7, <1>8, <1>9, <1>10, <1>11,
     <1>13, <1>14, <1>15, <1>16 DEF LedNext

THEOREM LedInvariant == LedSpec => []LedInv
  BY InitLed, LedStep, PTL DEF LedSpec

(* Whatever the order of stores, notifications and timer ticks, the device *)
(* the timer asks for its counters is held by a reference of the trigger.  *)
THEOREM HeldCorrect == LedSpec => []NetDevHeld
<1>1. LedInv => NetDevHeld
  BY DEF LedInv
<1> QED  BY <1>1, LedInvariant, PTL

(* No sequence of link events, stores and ticks leaves a link to watch     *)
(* without a queued timer.                                                 *)
THEOREM BlinkCorrect == LedSpec => []BlinkArmed
<1>1. LedInv => BlinkArmed
  BY DEF LedInv
<1> QED  BY <1>1, LedInvariant, PTL

(* The trigger's data is freed with no timer queued and nothing held.      *)
THEOREM FreedCorrect == LedSpec => []FreedQuiet
<1>1. LedInv => FreedQuiet
  BY DEF LedInv, Quiet, FreedQuiet, Idle
<1> QED  BY <1>1, LedInvariant, PTL

-----------------------------------------------------------------------------
(* Rtl8366Vlan.                                                            *)

Mcs == [vid : Vids, member : SUBSET Ports, fid : Nat]
Chips == [table : [Vids -> Cfg], mc : [Entries -> Mcs], mcIndex : [Ports -> Entries]]

(* No VLAN is in two entries, and those of VLANs outside U are as the table*)
(* says.                                                                   *)
Mirrors(s, U) ==
    /\ \A i, j \in Entries : s.mc[i].vid # 0 /\ s.mc[i].vid = s.mc[j].vid => i = j
    /\ \A i \in Entries : s.mc[i].vid # 0 /\ s.mc[i].vid \notin U =>
          CfgOf(s.mc[i]) = s.table[s.mc[i].vid]

(* Ports outside P keep their VLAN.                                        *)
Keeps(s, t, P) == \A p \in Ports \ P : GetPvid(s, p) # 0 => GetPvid(t, p) = GetPvid(s, p)

(* What a call about VLAN v does to what it leaves unsettled.              *)
After(s, o, v, U, settles) ==
    IF o.ret # "0" /\ o.chip # s THEN U \cup {v}
    ELSE IF o.ret = "0" /\ settles THEN U \ {v} ELSE U

Settings == [by : {"none", "core", "driver"}, vid : Vids, ports : Seq(Ports), todo : Seq(Ports)]

(* A call in progress is about the ports it still has to look at.          *)
About(call, A) ==
    /\ call \in Settings
    /\ \A i \in 1 .. Len(call.todo) : call.todo[i] \in A
    /\ \A i \in 1 .. Len(call.ports) : call.ports[i] \in A

VlanInv ==
    /\ chip \in Chips
    /\ About(setting, addressed)
    /\ Mirrors(chip, unsettled)
    /\ PvidNeverRefused

(* What every step does to it.                                             *)
VlanStep == VlanInv' /\ Keeps(chip, chip', addressed')

LEMMA ConstLemma ==
  /\ NumPorts \in Nat \ {0} /\ NumMc \in Nat /\ NumVids \in Nat
  /\ 0 \in Vids /\ 0 \in Entries /\ Vids \in SUBSET Nat /\ Entries \in SUBSET Nat
  /\ Nothing \in Cfg
BY VlanAssumption DEF Vids, Entries, Cfg, Nothing

LEMMA LeastLemma ==
  ASSUME NEW T \in SUBSET Nat, T # {}
  PROVE  LeastOf(T) \in T
<1>1. PICK x \in T : \A y \in T : ~ (<<y, x>> \in OpToRel(<, Nat))
  BY NatLessThanWellFounded, WFMin
<1>2. \A y \in T : <<y, x>> \in OpToRel(<, Nat) <=> y < x
  BY DEF OpToRel
<1>3. \A y \in T : ~ (y < x)
  BY <1>1, <1>2
<1>4. \E y \in T : \A z \in T : y <= z
  BY <1>3
<1>5. QED
  BY <1>4 DEF LeastOf

(* There are more entries than ports, and so one that no port has.         *)
LEMMA VictimLemma ==
  ASSUME NEW s \in Chips
  PROVE  Victims(s) # {}
<1> SUFFICES ASSUME \A i \in Entries : \E p \in Ports : s.mcIndex[p] = i
             PROVE  FALSE
  BY DEF Victims, McIsUsed
<1> DEFINE f == s.mcIndex
<1>1. f \in [Ports -> Entries]
  BY DEF Chips
<1>2. f \in Surjection(Ports, Entries)
  BY <1>1 DEF Surjection
<1>3. NumPorts - 1 \in Int /\ NumMc - 1 \in Int
  BY ConstLemma
<1>4. IsFiniteSet(Ports) /\ Cardinality(Ports) = NumPorts
  <2>1. PICK m, n \in Int : m = 0 /\ n = NumPorts - 1
    BY <1>3
  <2>2. IsFiniteSet(m .. n) /\ Cardinality(m .. n) = IF m > n THEN 0 ELSE n - m + 1
    BY FS_Interval
  <2>3. Ports = m .. n
    BY <2>1 DEF Ports
  <2>4. QED
    BY <2>1, <2>2, <2>3, VlanAssumption
<1>5. Cardinality(Entries) = NumMc
  <2>1. PICK m, n \in Int : m = 0 /\ n = NumMc - 1
    BY <1>3
  <2>2. Cardinality(m .. n) = IF m > n THEN 0 ELSE n - m + 1
    BY FS_Interval
  <2>3. Entries = m .. n
    BY <2>1 DEF Entries
  <2>4. QED
    BY <2>1, <2>2, <2>3, VlanAssumption
<1>6. Cardinality(Entries) <= Cardinality(Ports)
  BY <1>2, <1>4, FS_Surjection
<1>7. QED
  BY <1>4, <1>5, <1>6, VlanAssumption

LEMMA McLemma ==
  ASSUME NEW c \in Cfg, NEW v \in Vids
  PROVE  Mc(v, c) \in Mcs /\ Mc(v, c).vid = v /\ CfgOf(Mc(v, c)) = c
<1>1. Mc(v, c) \in Mcs /\ Mc(v, c).vid = v
  BY DEF Mc, Mcs, Cfg
<1>2. CfgOf(Mc(v, c)) = c
  BY DEF Mc, CfgOf, Cfg
<1>3. QED
  BY <1>1, <1>2

(* The chip with one register changed.                                     *)
LEMMA McWrite ==
  ASSUME NEW s \in Chips, NEW i \in Entries, NEW e \in Mcs
  PROVE  /\ [s EXCEPT !.mc[i] = e] \in Chips
         /\ [s EXCEPT !.mc[i] = e].mc = [s.mc EXCEPT ![i] = e]
         /\ [s EXCEPT !.mc[i] = e].table = s.table
         /\ [s EXCEPT !.mc[i] = e].mcIndex = s.mcIndex
         /\ [s.mc[i] EXCEPT !.vid = e.vid] \in Mcs
         /\ [s.mc[i] EXCEPT !.vid = e.vid].vid = e.vid
         /\ [s EXCEPT !.mc[i].vid = e.vid] = [s EXCEPT !.mc[i] = [s.mc[i] EXCEPT !.vid = e.vid]]
BY DEF Chips, Mcs

Entered(s, i, x) == [s EXCEPT !.mc[i] = x]

LEMMA EnteredLemma ==
  ASSUME NEW s \in Chips, NEW i \in Entries, NEW e \in Mcs
  PROVE  /\ Entered(s, i, e) \in Chips /\ Entered(s, i, e).mc = [s.mc EXCEPT ![i] = e]
         /\ Entered(s, i, e).table = s.table /\ Entered(s, i, e).mcIndex = s.mcIndex
BY DEF Chips, Mcs, Entered

LEMMA IndexWrite ==
  ASSUME NEW s \in Chips, NEW p \in Ports, NEW i \in Entries
  PROVE  /\ [s EXCEPT !.mcIndex[p] = i] \in Chips
         /\ [s EXCEPT !.mcIndex[p] = i].mc = s.mc
         /\ [s EXCEPT !.mcIndex[p] = i].table = s.table
         /\ [s EXCEPT !.mcIndex[p] = i].mcIndex = [s.mcIndex EXCEPT ![p] = i]
BY DEF Chips

-----------------------------------------------------------------------------
(* Moving a port to a VLAN.                                                *)

Fine(s, o, v, U, settles, P) ==
    /\ o.chip \in Chips /\ o.ret # "ENOSPC"
    /\ Mirrors(o.chip, After(s, o, v, U, settles)) /\ Keeps(s, o.chip, P)

LEMMA SameLemma ==
  ASSUME NEW s \in Chips, NEW v, NEW U, NEW P, NEW o, o.chip = s, o.ret # "0", o.ret # "ENOSPC",
         Mirrors(s, U)
  PROVE  /\ Fine(s, o, v, U, FALSE, P) /\ Fine(s, o, v, U, TRUE, P)
BY DEF Fine, After, Keeps

LEMMA WiderLemma ==
  ASSUME NEW s, NEW U, NEW v, Mirrors(s, U)
  PROVE  Mirrors(s, U \cup {v})
BY DEF Mirrors

LEMMA IndexLemma ==
  ASSUME NEW s \in Chips, NEW t \in Chips, NEW p \in Ports, NEW i \in Entries, NEW U,
         Mirrors(t, U), Keeps(s, t, {p})
  PROVE  LET w == [t EXCEPT !.mcIndex[p] = i] IN
         w \in Chips /\ Mirrors(w, U) /\ Keeps(s, w, {p})
<1> DEFINE w == [t EXCEPT !.mcIndex[p] = i]
<1>1. /\ w \in Chips /\ w.mc = t.mc /\ w.table = t.table
      /\ w.mcIndex = [t.mcIndex EXCEPT ![p] = i] /\ t.mcIndex \in [Ports -> Entries]
  BY IndexWrite DEF Chips
<1> HIDE DEF w
<1>2. Mirrors(w, U)
  BY <1>1 DEF Mirrors
<1>3. \A q \in Ports \ {p} : w.mcIndex[q] = t.mcIndex[q]
  BY <1>1
<1>4. \A q \in Ports \ {p} : GetPvid(w, q) = GetPvid(t, q)
  BY <1>1, <1>3 DEF GetPvid
<1>5. Keeps(s, w, {p})
  BY <1>4 DEF Keeps
<1>6. QED
  BY <1>1, <1>2, <1>5 DEF w

(* An entry taken for a VLAN that has none: no port with a VLAN has it.    *)
Free(s) == Empty(s) \cup Victims(s)

LEMMA TakeLemma ==
  ASSUME NEW s \in Chips, NEW i \in Entries, NEW x \in Mcs, NEW v \in Vids, NEW U, NEW P, NEW t,
         Mirrors(s, U), Holding(s, v) = {}, i \in Free(s), x.vid = v,
         t = Entered(s, i, x)
  PROVE  /\ t \in Chips /\ Keeps(s, t, P) /\ Mirrors(t, U \cup {v})
         /\ CfgOf(x) = s.table[v] => Mirrors(t, U)
<1>1. /\ s.mc \in [Entries -> Mcs] /\ s.mcIndex \in [Ports -> Entries]
      /\ t \in Chips /\ t.table = s.table /\ t.mcIndex = s.mcIndex /\ t.mc = [s.mc EXCEPT ![i] = x]
  BY McWrite DEF Chips, Entered
<1>2. t.mc[i] = x /\ \A j \in Entries \ {i} : t.mc[j] = s.mc[j] /\ s.mc[j].vid # v
  BY <1>1 DEF Holding
<1>3. t.table = s.table /\ t.mcIndex = s.mcIndex
  BY <1>1
<1>4. \A j, k \in Entries : t.mc[j].vid # 0 /\ t.mc[j].vid = t.mc[k].vid => j = k
  BY <1>2 DEF Mirrors
<1>5. Mirrors(t, U \cup {v})
  <2>1. \A j \in Entries : t.mc[j].vid # 0 /\ t.mc[j].vid \notin U \cup {v} =>
           CfgOf(t.mc[j]) = t.table[t.mc[j].vid]
    BY <1>2, <1>3 DEF Mirrors
  <2>2. QED
    BY <1>4, <2>1 DEF Mirrors
<1>6. ASSUME CfgOf(x) = s.table[v] PROVE Mirrors(t, U)
  <2>1. \A j \in Entries : t.mc[j].vid # 0 /\ t.mc[j].vid \notin U =>
           CfgOf(t.mc[j]) = t.table[t.mc[j].vid]
    BY <1>2, <1>6, <1>3 DEF Mirrors
  <2>2. QED
    BY <1>4, <2>1 DEF Mirrors
<1>7. ASSUME NEW q \in Ports, GetPvid(s, q) # 0 PROVE GetPvid(t, q) = GetPvid(s, q)
  <2>1. s.mcIndex[q] \in Entries
    BY <1>1
  <2>2. s.mcIndex[q] # i
    BY <1>7 DEF Free, Empty, Victims, McIsUsed, GetPvid
  <2>3. QED
    BY <1>2, <1>3, <2>1, <2>2 DEF GetPvid
<1>8. Keeps(s, t, P)
  BY <1>7 DEF Keeps
<1>9. QED
  BY <1>1, <1>5, <1>6, <1>8

LEMMA PutLemma ==
  ASSUME NEW s \in Chips, NEW p \in Ports, NEW v \in Vids, NEW i \in Entries, NEW U, Mirrors(s, U),
         Holding(s, v) = {}, i \in Free(s),
         NEW o \in {x \in SetVlanMc(s, i, Fill(s, i, v)) : x.ret # "0"}
                   \cup SetMcIndex([s EXCEPT !.mc[i] = Fill(s, i, v)], p, i)
  PROVE  Fine(s, o, v, U, FALSE, {p})
<1>1. PICK e : e = Fill(s, i, v)
  OBVIOUS
<1>2. e \in Mcs /\ e.vid = v /\ CfgOf(e) = s.table[v]
  <2>1. s.table[v] \in Cfg
    BY DEF Chips
  <2>2. QED
    BY <1>1, <2>1, McLemma DEF Fill
<1>3. PICK x : x = [s.mc[i] EXCEPT !.vid = e.vid]
  OBVIOUS
<1>4. x \in Mcs /\ x.vid = v /\ [s EXCEPT !.mc[i].vid = e.vid] = [s EXCEPT !.mc[i] = x]
  BY <1>2, <1>3, McWrite
<1>5. PICK t, h : t = Entered(s, i, e) /\ h = Entered(s, i, x)
  OBVIOUS
<1> DEFINE w == [t EXCEPT !.mcIndex[p] = i]
<1>6. \/ o = Call(s, "EIO") \/ o = Call(h, "EIO") \/ o = Call(t, "EIO") \/ o = Call(w, "0")
  BY <1>1, <1>4, <1>5 DEF SetVlanMc, SetMcIndex, Call, Entered
<1>7. t \in Chips /\ Mirrors(t, U) /\ Keeps(s, t, {p})
  BY <1>2, <1>5, TakeLemma
<1>8. h \in Chips /\ Mirrors(h, U \cup {v}) /\ Keeps(s, h, {p})
  BY <1>4, <1>5, TakeLemma
<1>9. w \in Chips /\ Mirrors(w, U) /\ Keeps(s, w, {p})
  BY <1>7, IndexLemma
<1>10. Mirrors(t, U \cup {v})
  BY <1>7, WiderLemma
<1> HIDE DEF w
<1>11. CASE o = Call(s, "EIO")
  BY <1>11, SameLemma DEF Call
<1>12. CASE o = Call(h, "EIO")
  <2>1. o.chip = h /\ o.ret = "EIO"
    BY <1>12 DEF Call
  <2>2. h = s => Fine(s, o, v, U, FALSE, {p})
    BY <2>1, SameLemma
  <2>3. h # s => Fine(s, o, v, U, FALSE, {p})
    BY <1>8, <2>1 DEF Fine, After
  <2>4. QED
    BY <2>2, <2>3
<1>13. CASE o = Call(t, "EIO")
  <2>1. o.chip = t /\ o.ret = "EIO"
    BY <1>13 DEF Call
  <2>2. QED
    BY <1>7, <1>10, <2>1 DEF Fine, After
<1>14. CASE o = Call(w, "0")
  <2>1. o.chip = w /\ o.ret = "0"
    BY <1>14 DEF Call
  <2>2. QED
    BY <1>9, <2>1 DEF Fine, After
<1>15. QED
  BY <1>6, <1>11, <1>12, <1>13, <1>14

LEMMA PvidLemma ==
  ASSUME NEW s \in Chips, NEW p \in Ports, NEW v, NEW U, Mirrors(s, U), NEW o \in SetPvid(s, p, v)
  PROVE  Fine(s, o, v, U, FALSE, {p})
<1>1. CASE Holding(s, v) # {}
  <2> DEFINE i == LeastOf(Holding(s, v))
             w == [s EXCEPT !.mcIndex[p] = i]
  <2>1. i \in Entries
    <3>1. Holding(s, v) \in SUBSET Nat /\ Holding(s, v) \in SUBSET Entries
      BY ConstLemma DEF Holding
    <3>2. QED
      BY <1>1, <3>1, LeastLemma
  <2>2. o = Call(w, "0") \/ o = Call(s, "EIO")
    BY <1>1 DEF SetPvid, SetMcIndex
  <2> HIDE DEF i
  <2>3. Keeps(s, s, {p})
    BY DEF Keeps
  <2>4. w \in Chips /\ Mirrors(w, U) /\ Keeps(s, w, {p})
    BY <2>1, <2>3, IndexLemma
  <2> HIDE DEF w
  <2>5. CASE o = Call(w, "0")
    <3>1. o.chip = w /\ o.ret = "0"
      BY <2>5 DEF Call
    <3>2. QED
      BY <2>4, <3>1 DEF Fine, After
  <2>6. CASE o = Call(s, "EIO")
    BY <2>6, SameLemma DEF Call
  <2>7. QED
    BY <2>2, <2>5, <2>6
<1>2. CASE Holding(s, v) = {}
  <2>1. CASE o = Call(s, "EIO") \/ o = Call(s, "EINVAL")
    BY <2>1, SameLemma DEF Call
  <2>2. CASE ~(o = Call(s, "EIO") \/ o = Call(s, "EINVAL"))
    <3>1. Victims(s) # {}
      BY VictimLemma
    <3>2. PICK T \in {Empty(s), Victims(s)} :
             /\ T # {} /\ v \in Vids
             /\ o \in {x \in SetVlanMc(s, LeastOf(T), Fill(s, LeastOf(T), v)) : x.ret # "0"}
                      \cup SetMcIndex([s EXCEPT !.mc[LeastOf(T)] = Fill(s, LeastOf(T), v)],
                                      p, LeastOf(T))
      BY <1>2, <2>2, <3>1 DEF SetPvid
    <3>3. T \in SUBSET Entries /\ T \in SUBSET Nat
      BY ConstLemma DEF Empty, Victims
    <3>4. LeastOf(T) \in T
      BY <3>2, <3>3, LeastLemma
    <3>5. LeastOf(T) \in Entries /\ LeastOf(T) \in Free(s)
      BY <3>2, <3>3, <3>4 DEF Free
    <3>6. QED
      BY <1>2, <3>2, <3>5, PutLemma
  <2>3. QED
    BY <2>1, <2>2
<1>3. QED
  BY <1>1, <1>2

-----------------------------------------------------------------------------
(* Setting a VLAN's line of the table, and its MC.                         *)

LEMMA LineWrite ==
  ASSUME NEW s \in Chips, NEW v \in Vids, NEW c \in Cfg
  PROVE  LET t == [s EXCEPT !.table[v] = c] IN
         /\ t \in Chips /\ t.mc = s.mc /\ t.mcIndex = s.mcIndex
         /\ t.table[v] = c /\ \A u \in Vids \ {v} : t.table[u] = s.table[u]
BY DEF Chips

LEMMA SameVids ==
  ASSUME NEW s \in Chips, NEW t \in Chips, t.mcIndex = s.mcIndex,
         \A j \in Entries : t.mc[j].vid = s.mc[j].vid
  PROVE  Keeps(s, t, {})
<1>1. \A p \in Ports : s.mcIndex[p] \in Entries
  BY DEF Chips
<1>2. QED
  BY <1>1 DEF Keeps, GetPvid

LEMMA SetVlanLemma ==
  ASSUME NEW s \in Chips, NEW v \in Vids, NEW c \in Cfg, NEW U, Mirrors(s, U),
         NEW o \in SetVlan(s, v, c)
  PROVE  Fine(s, o, v, U, TRUE, {})
<1>1. PICK t : t = [s EXCEPT !.table[v] = c]
  OBVIOUS
<1>2. /\ t \in Chips /\ t.mc = s.mc /\ t.mcIndex = s.mcIndex
      /\ t.table[v] = c /\ \A u \in Vids \ {v} : t.table[u] = s.table[u]
  BY <1>1, LineWrite
<1>3. \A j \in Entries : s.mc[j] \in Mcs /\ s.mc[j].vid \in Vids
  BY DEF Chips, Mcs
<1>4. Keeps(s, t, {})
  BY <1>2, SameVids
<1>5. Mirrors(t, U \cup {v})
  BY <1>2, <1>3 DEF Mirrors
<1>6. ASSUME NEW r, r = Call(s, "EIO") \/ r = Call(t, "EIO") PROVE Fine(s, r, v, U, TRUE, {})
  <2>1. r.ret = "EIO" /\ (r.chip = s \/ r.chip = t)
    BY <1>6 DEF Call
  <2>2. CASE r.chip = s
    BY <2>1, <2>2, SameLemma
  <2>3. CASE r.chip = t /\ t # s
    BY <1>2, <1>4, <1>5, <2>1, <2>3 DEF Fine, After
  <2>4. QED
    BY <2>1, <2>2, <2>3
<1>7. CASE o = Call(s, "EIO") \/ o = Call(t, "EIO")
  BY <1>6, <1>7
<1>8. CASE Holding(t, v) = {} /\ o = Call(t, "0")
  <2>1. \A j \in Entries : t.mc[j].vid # v
    BY <1>8 DEF Holding
  <2>2. Mirrors(t, U \ {v})
    BY <1>2, <1>3, <2>1 DEF Mirrors
  <2>3. o.chip = t /\ o.ret = "0"
    BY <1>8 DEF Call
  <2>4. QED
    BY <1>2, <1>4, <2>2, <2>3 DEF Fine, After
<1>9. CASE Holding(t, v) # {} /\ o \in SetVlanMc(t, LeastOf(Holding(t, v)), Mc(v, c))
  <2>1. PICK i : i = LeastOf(Holding(t, v))
    OBVIOUS
  <2>2. i \in Entries /\ t.mc[i].vid = v
    <3>1. Holding(t, v) \in SUBSET Nat
      BY ConstLemma DEF Holding
    <3>2. i \in Holding(t, v)
      BY <1>9, <2>1, <3>1, LeastLemma
    <3>3. QED
      BY <3>2 DEF Holding
  <2>3. PICK e : e = Mc(v, c)
    OBVIOUS
  <2>4. e \in Mcs /\ e.vid = v /\ CfgOf(e) = c
    BY <2>3, McLemma
  <2>5. PICK w : w = Entered(t, i, e)
    OBVIOUS
  <2>6. w \in Chips /\ w.table = t.table /\ w.mcIndex = t.mcIndex /\ w.mc = [t.mc EXCEPT ![i] = e]
    BY <1>2, <2>2, <2>4, <2>5, EnteredLemma
  <2>7. [t EXCEPT !.mc[i].vid = e.vid] = t
    <3>1. t.mc[i] \in Mcs
      BY <1>2, <1>3, <2>2
    <3>2. [t.mc[i] EXCEPT !.vid = e.vid] = t.mc[i]
      BY <2>2, <2>4, <3>1 DEF Mcs
    <3>3. [t EXCEPT !.mc[i] = t.mc[i]] = t
      BY <1>2, <2>2 DEF Chips
    <3>4. QED
      BY <1>2, <2>2, <2>4, <3>2, <3>3, McWrite
  <2>8. o = Call(w, "0") \/ o = Call(t, "EIO")
    <3>1. SetVlanMc(t, i, e) = {Call(w, "0"), Call(t, "EIO")}
      BY <2>5, <2>7 DEF SetVlanMc, Entered
    <3>2. QED
      BY <1>9, <2>1, <2>3, <3>1
  <2>9. CASE o = Call(t, "EIO")
    BY <1>6, <2>9
  <2>10. CASE o = Call(w, "0")
    <3>1. w.mc[i] = e /\ \A j \in Entries \ {i} : w.mc[j] = s.mc[j]
      BY <1>2, <2>2, <2>6 DEF Chips
    <3>2. \A j \in Entries : w.mc[j].vid = s.mc[j].vid
      BY <1>2, <2>2, <2>4, <3>1
    <3>3. Keeps(s, w, {})
      BY <1>2, <2>6, <3>2, SameVids
    <3>4. \A j, k \in Entries : w.mc[j].vid # 0 /\ w.mc[j].vid = w.mc[k].vid => j = k
      BY <3>2 DEF Mirrors
    <3>5. ASSUME NEW j \in Entries, w.mc[j].vid # 0, w.mc[j].vid \notin U \ {v}
          PROVE  CfgOf(w.mc[j]) = w.table[w.mc[j].vid]
      <4>1. CASE j = i
        BY <1>2, <2>4, <2>6, <3>1, <4>1
      <4>2. CASE j # i
        <5>1. w.mc[j] = s.mc[j] /\ w.mc[i].vid = v
          BY <2>4, <3>1, <4>2
        <5>2. w.mc[j].vid # v
          BY <2>2, <3>4, <3>5, <4>2, <5>1
        <5>3. s.mc[j].vid \in Vids \ {v} /\ s.mc[j].vid # 0 /\ s.mc[j].vid \notin U
          BY <1>3, <3>5, <5>1, <5>2
        <5>4. CfgOf(s.mc[j]) = s.table[s.mc[j].vid]
          BY <5>3 DEF Mirrors
        <5>5. QED
          BY <1>2, <2>6, <5>1, <5>3, <5>4
      <4>3. QED
        BY <4>1, <4>2
    <3>6. Mirrors(w, U \ {v})
      BY <3>4, <3>5 DEF Mirrors
    <3>7. o.chip = w /\ o.ret = "0"
      BY <2>10 DEF Call
    <3>8. QED
      BY <2>6, <3>3, <3>6, <3>7 DEF Fine, After
  <2>11. QED
    BY <2>8, <2>9, <2>10
<1>10. QED
  BY <1>1, <1>7, <1>8, <1>9 DEF SetVlan

-----------------------------------------------------------------------------
(* Resetting the chip.                                                     *)

LEMMA ClearedLemma ==
  ASSUME NEW s \in Chips, NEW n \in Nat
  PROVE  /\ Cleared(s, n) \in Chips
         /\ \A i \in Entries : Cleared(s, n).mc[i] = IF i < n THEN Mc(0, Nothing) ELSE s.mc[i]
<1>1. Mc(0, Nothing) \in Mcs
  BY ConstLemma, McLemma
<1>2. QED
  BY <1>1 DEF Cleared, Chips

LEMMA ResetVlanLemma ==
  ASSUME NEW s \in Chips, NEW U, Mirrors(s, U), NEW o \in ResetVlan(s)
  PROVE  /\ o.chip \in Chips /\ o.ret # "ENOSPC"
         /\ Mirrors(o.chip, IF o.ret = "0" THEN {} ELSE Vids)
<1>1. PICK e : e = Mc(0, Nothing)
  OBVIOUS
<1>2. e \in Mcs /\ e.vid = 0
  BY <1>1, ConstLemma, McLemma
<1>3. CASE o = Call(Cleared(s, NumMc), "0")
  <2>1. o.chip = Cleared(s, NumMc) /\ o.ret = "0"
    BY <1>3 DEF Call
  <2>2. o.chip \in Chips /\ \A i \in Entries : o.chip.mc[i] = e
    <3>1. \A i \in Entries : i < NumMc
      BY ConstLemma DEF Entries
    <3>2. QED
      BY <2>1, <3>1, ConstLemma, ClearedLemma, <1>1
  <2>3. Mirrors(o.chip, {})
    BY <1>2, <2>2 DEF Mirrors
  <2>4. QED
    BY <2>1, <2>2, <2>3
<1>4. ASSUME NEW n \in Entries, o \in SetVlanMc(Cleared(s, n), n, e), o.ret # "0"
      PROVE  /\ o.chip \in Chips /\ o.ret # "ENOSPC"
             /\ Mirrors(o.chip, IF o.ret = "0" THEN {} ELSE Vids)
  <2>1. PICK t : t = Cleared(s, n)
    OBVIOUS
  <2>2. t \in Chips /\ \A i \in Entries : t.mc[i] = IF i < n THEN e ELSE s.mc[i]
    BY <2>1, ConstLemma, ClearedLemma, <1>1
  <2>3. PICK x : x = [t.mc[n] EXCEPT !.vid = e.vid]
    OBVIOUS
  <2>4. x \in Mcs /\ x.vid = 0 /\ [t EXCEPT !.mc[n].vid = e.vid] = Entered(t, n, x)
    <3>1. t \in Chips
      BY <2>2
    <3>2. e \in Mcs
      BY <1>2
    <3>3. x \in Mcs /\ x.vid = e.vid /\ [t EXCEPT !.mc[n].vid = e.vid] = [t EXCEPT !.mc[n] = x]
      BY <2>3, <3>1, <3>2 DEF Chips, Mcs
    <3>4. QED
      BY <1>2, <3>3 DEF Entered
  <2>5. PICK w : w = Entered(t, n, x)
    OBVIOUS
  <2>6. w \in Chips /\ w.mc = [t.mc EXCEPT ![n] = x]
    BY <2>2, <2>4, <2>5, EnteredLemma
  <2>7. o.ret = "EIO" /\ (o.chip = t \/ o.chip = w)
    BY <1>4, <2>1, <2>4, <2>5 DEF SetVlanMc, Call
  <2>8. \A i \in Entries : t.mc[i].vid = 0 \/ t.mc[i] = s.mc[i]
    BY <1>2, <2>2
  <2>9. \A i \in Entries : w.mc[i].vid = 0 \/ w.mc[i] = s.mc[i]
    BY <2>2, <2>4, <2>6, <2>8 DEF Chips
  <2>10. ASSUME NEW u \in Chips, \A i \in Entries : u.mc[i].vid = 0 \/ u.mc[i] = s.mc[i]
         PROVE  Mirrors(u, Vids)
    <3>1. \A i \in Entries : u.mc[i].vid \in Vids
      BY DEF Chips, Mcs
    <3>2. QED
      BY <2>10, <3>1 DEF Mirrors
  <2>11. QED
    BY <2>2, <2>6, <2>7, <2>8, <2>9, <2>10
<1>5. QED
  BY <1>3, <1>4, <1>1 DEF ResetVlan

LEMMA ResetChipLemma ==
  ASSUME NEW s \in Chips, NEW U, Mirrors(s, U), NEW t \in ResetChip(s)
  PROVE  t \in Chips /\ Mirrors(t, U)
<1>1. Mc(0, Nothing) \in Mcs /\ Mc(0, Nothing).vid = 0
  BY ConstLemma, McLemma
<1>2. CASE t = [table |-> [v \in Vids |-> Nothing], mc |-> [i \in Entries |-> Mc(0, Nothing)],
                mcIndex |-> [p \in Ports |-> 0]]
  <2>1. t \in Chips /\ \A i \in Entries : t.mc[i] = Mc(0, Nothing)
    BY <1>1, <1>2, ConstLemma DEF Chips
  <2>2. QED
    BY <1>1, <2>1 DEF Mirrors
<1>3. QED
  BY <1>2 DEF ResetChip

-----------------------------------------------------------------------------
(* The invariant.                                                          *)

LEMMA LeavesLemma ==
  ASSUME NEW o, NEW v, NEW settles, NEW P, chip \in Chips,
         Fine(chip, o, v, unsettled, settles, P), Leaves(o, v, settles)
  PROVE  /\ chip' \in Chips /\ Mirrors(chip', unsettled') /\ Keeps(chip, chip', P)
         /\ o.ret # "ENOSPC"
BY DEF Fine, Leaves, After

LEMMA KeepsWider ==
  ASSUME NEW s, NEW t, NEW P, NEW Q, Keeps(s, t, P), P \subseteq Q
  PROVE  Keeps(s, t, Q)
BY DEF Keeps

LEMMA SettingLemma ==
  ASSUME NEW A
  PROVE  About(NoSetting, A)
BY ConstLemma DEF About, NoSetting, Setting, Settings

LEMMA TailLemma ==
  ASSUME NEW A, About(setting, A), setting.todo # <<>>
  PROVE  /\ Head(setting.todo) \in A /\ Head(setting.todo) \in Ports
         /\ About([setting EXCEPT !.todo = Tail(@)], A)
<1>1. PICK q : q = setting.todo
  OBVIOUS
<1>2. q \in Seq(Ports) /\ q # <<>> /\ \A i \in 1 .. Len(q) : q[i] \in A
  BY <1>1 DEF About, Settings
<1>3. Head(q) \in Ports /\ Head(q) \in A /\ Tail(q) \in Seq(Ports)
  BY <1>2
<1>4. \A i \in 1 .. Len(Tail(q)) : Tail(q)[i] \in A
  BY <1>2
<1>5. PICK t : t = [setting EXCEPT !.todo = Tail(@)]
  OBVIOUS
<1>6. t \in Settings /\ t.todo = Tail(q) /\ t.ports = setting.ports
  BY <1>1, <1>3, <1>5 DEF About, Settings
<1>7. About(t, A)
  BY <1>4, <1>6 DEF About
<1>8. QED
  BY <1>1, <1>3, <1>5, <1>7

LEMMA RangeLemma ==
  ASSUME NEW q \in Seq(Ports)
  PROVE  Range(q) \in SUBSET Ports /\ \A i \in 1 .. Len(q) : q[i] \in Range(q)
BY DEF Range

LEMMA CfgLemma ==
  ASSUME NEW m \in SUBSET Ports, NEW f \in Nat
  PROVE  [member |-> m, fid |-> f] \in Cfg
BY DEF Cfg

LEMMA PvidStep ==
  ASSUME VlanInv, NEW p \in Ports, NEW v \in 0 .. NumVids, setting = NoSetting, SwSetPortPvid(p, v)
  PROVE  VlanStep
<1>1. PICK o \in SetPvid(chip, p, v) : Leaves(o, v, FALSE) /\ vlanRet' = o.ret
  BY DEF SwSetPortPvid
<1>2. Fine(chip, o, v, unsettled, FALSE, {p})
  BY PvidLemma DEF VlanInv
<1>3. /\ chip' \in Chips /\ Mirrors(chip', unsettled') /\ Keeps(chip, chip', {p})
      /\ o.ret # "ENOSPC"
  BY <1>1, <1>2, LeavesLemma DEF VlanInv
<1>4. setting' = NoSetting /\ addressed' = {p}
  BY DEF SwSetPortPvid
<1>5. About(setting', addressed')
  BY <1>4, SettingLemma
<1>6. QED
  BY <1>1, <1>3, <1>4, <1>5 DEF VlanStep, VlanInv, PvidNeverRefused

LEMMA PortsStep ==
  ASSUME VlanInv, NEW v \in Vids, NEW ports \in CallPorts, SwSetVlanPorts(v, ports)
  PROVE  VlanStep
<1>1. ports \in Seq(Ports)
  BY VlanAssumption
<1>2. setting' = Setting("core", v, ports, ports) /\ addressed' = Range(ports)
  BY DEF SwSetVlanPorts
<1>3. setting' \in Settings /\ setting'.todo = ports /\ setting'.ports = ports
  BY <1>1, <1>2 DEF Setting, Settings
<1>4. About(setting', addressed')
  BY <1>1, <1>2, <1>3, RangeLemma DEF About
<1>5. UNCHANGED <<chip, vlanRet, unsettled>>
  BY DEF SwSetVlanPorts
<1>6. QED
  BY <1>4, <1>5 DEF VlanStep, VlanInv, PvidNeverRefused, Keeps

LEMMA MoveStep ==
  ASSUME VlanInv, MovePort
  PROVE  VlanStep
<1>1. PICK p : p = Head(setting.todo)
  OBVIOUS
<1>2. /\ setting.todo # <<>> /\ addressed' = addressed /\ vlanRet' = vlanRet
      /\ setting' = [setting EXCEPT !.todo = Tail(@)]
  BY DEF MovePort
<1>3. p \in addressed /\ p \in Ports /\ About(setting', addressed')
  BY <1>1, <1>2, TailLemma DEF VlanInv
<1>4. PICK o \in {Call(chip, "0")} \cup SetPvid(chip, p, setting.vid) :
        Leaves(o, setting.vid, FALSE)
  BY <1>1 DEF MovePort
<1>5. Fine(chip, o, setting.vid, unsettled, FALSE, {p})
  <2>1. CASE o = Call(chip, "0")
    <3>1. o.chip = chip /\ o.ret = "0"
      BY <2>1 DEF Call
    <3>2. QED
      BY <3>1 DEF VlanInv, Fine, After, Keeps
  <2>2. CASE o \in SetPvid(chip, p, setting.vid)
    BY <1>3, <2>2, PvidLemma DEF VlanInv
  <2>3. QED
    BY <1>4, <2>1, <2>2
<1>6. chip' \in Chips /\ Mirrors(chip', unsettled') /\ Keeps(chip, chip', {p})
  BY <1>4, <1>5, LeavesLemma DEF VlanInv
<1>7. Keeps(chip, chip', addressed')
  BY <1>2, <1>3, <1>6, KeepsWider
<1>8. QED
  BY <1>2, <1>3, <1>6, <1>7 DEF VlanStep, VlanInv, PvidNeverRefused

LEMMA CallStep ==
  ASSUME VlanInv, CallDriver
  PROVE  VlanStep
<1>1. UNCHANGED <<chip, addressed, unsettled>>
  BY DEF CallDriver
<1>2. About(setting', addressed') /\ vlanRet' # "ENOSPC"
  <2>1. CASE IsVlanValid(setting.vid)
    <3>1. setting' = [setting EXCEPT !.by = "driver", !.todo = setting.ports] /\ vlanRet' = vlanRet
      BY <2>1 DEF CallDriver
    <3>2. setting' \in Settings /\ setting'.todo = setting.ports /\ setting'.ports = setting.ports
      BY <3>1 DEF VlanInv, About, Settings
    <3>3. QED
      BY <1>1, <3>1, <3>2 DEF VlanInv, About, PvidNeverRefused
  <2>2. CASE ~IsVlanValid(setting.vid)
    BY <2>2, SettingLemma DEF CallDriver
  <2>3. QED
    BY <2>1, <2>2
<1>3. QED
  BY <1>1, <1>2 DEF VlanStep, VlanInv, PvidNeverRefused, Keeps

LEMMA PortStep ==
  ASSUME VlanInv, SetVlanPort
  PROVE  VlanStep
<1>1. PICK p : p = Head(setting.todo)
  OBVIOUS
<1>2. setting.todo # <<>> /\ addressed' = addressed
  BY DEF SetVlanPort
<1>3. /\ p \in addressed /\ p \in Ports
      /\ About([setting EXCEPT !.todo = Tail(@)], addressed)
  BY <1>1, <1>2, TailLemma DEF VlanInv
<1>4. PICK o \in SetPvid(chip, p, setting.vid) :
        /\ Leaves(o, setting.vid, FALSE)
        /\ IF o.ret = "0"
           THEN setting' = [setting EXCEPT !.todo = Tail(@)] /\ UNCHANGED vlanRet
           ELSE setting' = NoSetting /\ vlanRet' = o.ret
  BY <1>1 DEF SetVlanPort
<1>5. Fine(chip, o, setting.vid, unsettled, FALSE, {p})
  BY <1>3, PvidLemma DEF VlanInv
<1>6. /\ chip' \in Chips /\ Mirrors(chip', unsettled') /\ Keeps(chip, chip', {p})
      /\ o.ret # "ENOSPC"
  BY <1>4, <1>5, LeavesLemma DEF VlanInv
<1>7. Keeps(chip, chip', addressed')
  BY <1>2, <1>3, <1>6, KeepsWider
<1>8. About(setting', addressed') /\ vlanRet' # "ENOSPC"
  <2>1. CASE o.ret = "0"
    BY <1>2, <1>3, <1>4, <2>1 DEF VlanInv, PvidNeverRefused
  <2>2. CASE o.ret # "0"
    BY <1>4, <1>6, <2>2, SettingLemma
  <2>3. QED
    BY <2>1, <2>2
<1>9. QED
  BY <1>6, <1>7, <1>8 DEF VlanStep, VlanInv, PvidNeverRefused

LEMMA MembersStep ==
  ASSUME VlanInv, SetVlanMembers
  PROVE  VlanStep
<1>1. PICK c : c = [member |-> Range(setting.ports), fid |-> 0]
  OBVIOUS
<1>2. setting.vid \in Vids /\ c \in Cfg
  BY <1>1, RangeLemma, CfgLemma DEF VlanInv, About, Settings
<1>3. PICK o \in SetVlan(chip, setting.vid, c) : Leaves(o, setting.vid, TRUE) /\ vlanRet' = o.ret
  BY <1>1 DEF SetVlanMembers
<1>4. Fine(chip, o, setting.vid, unsettled, TRUE, {})
  BY <1>2, SetVlanLemma DEF VlanInv
<1>5. /\ chip' \in Chips /\ Mirrors(chip', unsettled') /\ Keeps(chip, chip', {})
      /\ o.ret # "ENOSPC"
  BY <1>3, <1>4, LeavesLemma DEF VlanInv
<1>6. Keeps(chip, chip', addressed')
  BY <1>5, KeepsWider
<1>7. About(setting', addressed')
  BY SettingLemma DEF SetVlanMembers
<1>8. QED
  BY <1>3, <1>5, <1>6, <1>7 DEF VlanStep, VlanInv, PvidNeverRefused

LEMMA FidStep ==
  ASSUME VlanInv, NEW v \in Vids, NEW f \in Fids, setting = NoSetting, SwSetVlanFid(v, f)
  PROVE  VlanStep
<1>1. PICK c : c = [member |-> chip.table[v].member, fid |-> f]
  OBVIOUS
<1>2. c \in Cfg
  <2>1. chip.table[v] \in Cfg /\ f \in Nat
    BY VlanAssumption DEF VlanInv, Chips
  <2>2. chip.table[v].member \in SUBSET Ports
    BY <2>1 DEF Cfg
  <2>3. QED
    BY <1>1, <2>1, <2>2, CfgLemma
<1>3. PICK o \in SetVlan(chip, v, c) : Leaves(o, v, TRUE) /\ vlanRet' = o.ret
  BY <1>1 DEF SwSetVlanFid
<1>4. Fine(chip, o, v, unsettled, TRUE, {})
  BY <1>2, SetVlanLemma DEF VlanInv
<1>5. /\ chip' \in Chips /\ Mirrors(chip', unsettled') /\ Keeps(chip, chip', {})
      /\ o.ret # "ENOSPC"
  BY <1>3, <1>4, LeavesLemma DEF VlanInv
<1>6. Keeps(chip, chip', addressed')
  BY <1>5, KeepsWider
<1>7. About(setting', addressed')
  BY SettingLemma DEF SwSetVlanFid
<1>8. QED
  BY <1>3, <1>5, <1>6, <1>7 DEF VlanStep, VlanInv, PvidNeverRefused

LEMMA EnableStep ==
  ASSUME VlanInv, setting = NoSetting, SwSetVlanEnable
  PROVE  VlanStep
<1>1. UNCHANGED <<chip, unsettled, setting>> /\ vlanRet' # "ENOSPC"
  BY DEF SwSetVlanEnable
<1>2. About(setting', addressed')
  BY <1>1, SettingLemma
<1>3. QED
  BY <1>1, <1>2 DEF VlanStep, VlanInv, PvidNeverRefused, Keeps

LEMMA ResetStep ==
  ASSUME VlanInv, setting = NoSetting, SwResetSwitch
  PROVE  VlanStep
<1>1. PICK s \in ResetChip(chip) : \E o \in ResetVlan(s) :
        /\ chip' = o.chip /\ vlanRet' \in {o.ret, "EIO"}
        /\ unsettled' = IF o.ret = "0" THEN {} ELSE Vids
  BY DEF SwResetSwitch
<1>2. PICK o \in ResetVlan(s) :
        /\ chip' = o.chip /\ vlanRet' \in {o.ret, "EIO"}
        /\ unsettled' = IF o.ret = "0" THEN {} ELSE Vids
  BY <1>1
<1>3. s \in Chips /\ Mirrors(s, unsettled)
  BY ResetChipLemma DEF VlanInv
<1>4. /\ o.chip \in Chips /\ o.ret # "ENOSPC"
      /\ Mirrors(o.chip, IF o.ret = "0" THEN {} ELSE Vids)
  BY <1>3, ResetVlanLemma
<1>5. Mirrors(chip', unsettled')
  BY <1>2, <1>4
<1>6. addressed' = Ports /\ setting' = NoSetting
  BY DEF SwResetSwitch
<1>7. About(setting', addressed')
  BY <1>6, SettingLemma
<1>8. Keeps(chip, chip', addressed')
  BY <1>6 DEF Keeps
<1>9. QED
  BY <1>2, <1>4, <1>5, <1>7, <1>8 DEF VlanStep, VlanInv, PvidNeverRefused

LEMMA NextLemma ==
  ASSUME VlanInv, [VlanNext]_vlanVars
  PROVE  VlanStep
<1>1. CASE UNCHANGED vlanVars
  BY <1>1 DEF vlanVars, VlanStep, VlanInv, PvidNeverRefused, Keeps
<1>2. CASE VlanCall
  <2>1. setting = NoSetting
    BY <1>2 DEF VlanCall
  <2>2. \/ \E p \in Ports, v \in 0 .. NumVids : SwSetPortPvid(p, v)
        \/ \E v \in Vids, ports \in CallPorts : SwSetVlanPorts(v, ports)
        \/ \E v \in Vids, f \in Fids : SwSetVlanFid(v, f)
        \/ SwSetVlanEnable
        \/ SwResetSwitch
    BY <1>2, Zenon DEF VlanCall
  <2>3. QED
    BY <2>1, <2>2, PvidStep, PortsStep, FidStep, EnableStep, ResetStep
<1>3. QED
  BY <1>1, <1>2, MoveStep, CallStep, PortStep, MembersStep DEF VlanNext

LEMMA VlanInitLemma ==
  ASSUME VlanInit
  PROVE  VlanInv
<1>1. \A p \in Ports : OwnVlan(p) \in Cfg
  BY ConstLemma DEF OwnVlan, Cfg, CpuPort, Ports
<1>2. Mc(0, Nothing) \in Mcs /\ Mc(0, Nothing).vid = 0
  BY ConstLemma, McLemma
<1>3. \A p \in Ports : p \in Entries /\ p + 1 \in Vids /\ p + 1 \in Nat /\ p + 1 # 0
  BY VlanAssumption DEF Ports, Entries, Vids
<1>4. \A p \in Ports : /\ Mc(p + 1, OwnVlan(p)) \in Mcs /\ Mc(p + 1, OwnVlan(p)).vid = p + 1
                       /\ CfgOf(Mc(p + 1, OwnVlan(p))) = OwnVlan(p)
  BY <1>1, <1>3, McLemma
<1>5. chip \in Chips
  <2>1. [v \in Vids |-> IF v - 1 \in Ports THEN OwnVlan(v - 1) ELSE Nothing] \in [Vids -> Cfg]
    BY <1>1, ConstLemma
  <2>2. [i \in Entries |-> IF i \in Ports THEN Mc(i + 1, OwnVlan(i)) ELSE Mc(0, Nothing)]
          \in [Entries -> Mcs]
    BY <1>2, <1>4
  <2>3. [p \in Ports |-> p] \in [Ports -> Entries]
    BY <1>3
  <2>4. QED
    BY <2>1, <2>2, <2>3 DEF VlanInit, Chips
<1>6. \A i \in Entries : chip.mc[i] = IF i \in Ports THEN Mc(i + 1, OwnVlan(i)) ELSE Mc(0, Nothing)
  BY DEF VlanInit
<1>7. ASSUME NEW p \in Ports PROVE chip.table[p + 1] = OwnVlan(p)
  <2>1. PICK u : u = p + 1
    OBVIOUS
  <2>2. u \in Vids /\ u - 1 = p
    <3>1. u \in Vids
      BY <1>3, <2>1
    <3>2. p \in Int
      BY DEF Ports
    <3>3. u - 1 = p
      BY <2>1, <3>2
    <3>4. QED
      BY <3>1, <3>3
  <2>3. chip.table[u] = IF u - 1 \in Ports THEN OwnVlan(u - 1) ELSE Nothing
    BY <2>2 DEF VlanInit
  <2>4. chip.table[u] = OwnVlan(p)
    BY <2>2, <2>3
  <2>5. QED
    BY <2>1, <2>4
<1>8. \A i \in Entries : chip.mc[i].vid # 0 => i \in Ports /\ chip.mc[i].vid = i + 1
  BY <1>2, <1>4, <1>6
<1>9. \A i, j \in Entries : chip.mc[i].vid # 0 /\ chip.mc[i].vid = chip.mc[j].vid => i = j
  BY <1>8, ConstLemma
<1>10. ASSUME NEW i \in Entries, chip.mc[i].vid # 0
       PROVE  CfgOf(chip.mc[i]) = chip.table[chip.mc[i].vid]
  <2>1. i \in Ports /\ chip.mc[i].vid = i + 1
    BY <1>8, <1>10
  <2>2. chip.table[i + 1] = OwnVlan(i)
    BY <1>7, <2>1
  <2>3. chip.mc[i] = Mc(i + 1, OwnVlan(i))
    BY <1>6, <2>1
  <2>4. CfgOf(chip.mc[i]) = OwnVlan(i)
    BY <1>4, <2>1, <2>3
  <2>5. QED
    BY <2>1, <2>2, <2>4
<1>11. Mirrors(chip, unsettled)
  BY <1>9, <1>10 DEF Mirrors
<1>12. About(setting, addressed) /\ PvidNeverRefused
  BY SettingLemma DEF VlanInit, PvidNeverRefused
<1>13. QED
  BY <1>5, <1>11, <1>12 DEF VlanInv

LEMMA VlanInvariant == VlanSpec => []VlanInv
<1>1. VlanInit => VlanInv
  BY VlanInitLemma
<1>2. VlanInv /\ [VlanNext]_vlanVars => VlanInv'
  BY NextLemma DEF VlanStep
<1>3. QED
  BY <1>1, <1>2, PTL DEF VlanSpec

(* The switch forwards by its member configurations as by its table of     *)
(* VLANs: no VLAN has two entries, and a settled one's entry is its line,  *)
(* whichever entries were taken for other VLANs, for any number of ports,  *)
(* of entries and of VLANs, and of calls that broke off half-way.          *)
THEOREM McCorrect == VlanSpec => []McMirrors
<1>1. VlanInv => McMirrors
  BY DEF VlanInv, Mirrors, McMirrors, Holding
<1>2. QED
  BY <1>1, VlanInvariant, PTL

(* No call takes a port out of a VLAN but one that names the port, nor     *)
(* does any step of one: the entry rtl8366_set_pvid takes for a VLAN is    *)
(* never one that a port in a VLAN points at.                              *)
THEOREM PvidCorrect == VlanSpec => PvidKept
<1>1. VlanInv /\ [VlanNext]_vlanVars =>
        [\A p \in Ports :
           GetPvid(chip, p) # 0 /\ GetPvid(chip', p) # GetPvid(chip, p) => p \in addressed']_vlanVars
  BY NextLemma DEF VlanStep, Keeps
<1>2. QED
  BY <1>1, VlanInvariant, PTL DEF VlanSpec, PvidKept

(* With more entries than ports there is always one that no port has, so   *)
(* that no call ends with -ENOSPC.                                         *)
THEOREM RefusedNever == VlanSpec => []PvidNeverRefused
<1>1. VlanInv => PvidNeverRefused
  BY DEF VlanInv
<1>2. QED
  BY <1>1, VlanInvariant, PTL

-----------------------------------------------------------------------------
(* YaffsEcc.                                                               *)

Data == [BytesOf -> SUBSET (0 .. 7)]

(* What bit b of byte i is to the parities.                                *)
BitSig(b) == {c \in Columns : Set(b, c[1]) = c[2]}

LEMMA Finite ==
  /\ IsFiniteSet(BytesOf) /\ IsFiniteSet(Lines) /\ IsFiniteSet(Columns) /\ IsFiniteSet(0 .. 7)
<1>1. IsFiniteSet(BytesOf) /\ IsFiniteSet(Lines) /\ IsFiniteSet(0 .. 7)
  <2>1. NBytes - 1 \in Int /\ Width - 1 \in Int
    BY EccAssumption
  <2>2. IsFiniteSet(BytesOf) /\ IsFiniteSet(Lines)
    BY <2>1, FS_Interval DEF BytesOf, Lines
  <2>3. IsFiniteSet(0 .. 7)
    <3>1. PICK m, n \in Int : m = 0 /\ n = 7
      OBVIOUS
    <3>2. IsFiniteSet(m .. n)
      BY FS_Interval
    <3>3. QED
      BY <3>1, <3>2
  <2>4. QED
    BY <2>2, <2>3
<1>2. IsFiniteSet({0, 1, 2}) /\ IsFiniteSet({TRUE, FALSE})
  <2>1. IsFiniteSet({0}) /\ IsFiniteSet({TRUE})
    BY FS_Singleton
  <2>2. IsFiniteSet({0} \cup {1})
    BY <2>1, FS_AddElement
  <2>3. IsFiniteSet(({0} \cup {1}) \cup {2})
    BY <2>2, FS_AddElement
  <2>4. IsFiniteSet({TRUE} \cup {FALSE})
    BY <2>1, FS_AddElement
  <2>5. {0, 1, 2} = ({0} \cup {1}) \cup {2}
    OBVIOUS
  <2>6. {TRUE, FALSE} = {TRUE} \cup {FALSE}
    OBVIOUS
  <2>7. QED
    BY <2>3, <2>4, <2>5, <2>6
<1>3. IsFiniteSet(Columns)
  BY <1>2, FS_Product DEF Columns
<1>4. QED
  BY <1>1, <1>3

LEMMA ParityLemma ==
  ASSUME NEW n \in Int
  PROVE  /\ (n + 1) % 2 = 1 <=> ~ (n % 2 = 1)
         /\ (n - 1) % 2 = 1 <=> ~ (n % 2 = 1)
OBVIOUS

(* One element more or less, and an even number becomes odd.               *)
LEMMA ToggleLemma ==
  ASSUME NEW S, IsFiniteSet(S), NEW T, NEW x,
         \A y : y # x => (y \in T <=> y \in S), x \in T <=> x \notin S
  PROVE  Odd(T) <=> ~Odd(S)
<1>1. PICK n, m : n = Cardinality(S) /\ m = Cardinality(T)
  OBVIOUS
<1>2. n \in Int /\ (m = n - 1 \/ m = n + 1)
  <2>1. CASE x \in S
    <3>1. T = S \ {x}
      BY <2>1
    <3>2. Cardinality(S) \in Nat /\ Cardinality(T) = Cardinality(S) - 1
      BY <2>1, <3>1, FS_CardinalityType, FS_RemoveElement
    <3>3. QED
      BY <1>1, <3>2
  <2>2. CASE x \notin S
    <3>1. T = S \cup {x}
      BY <2>2
    <3>2. Cardinality(S) \in Nat /\ Cardinality(T) = Cardinality(S) + 1
      BY <2>2, <3>1, FS_CardinalityType, FS_AddElement
    <3>3. QED
      BY <1>1, <3>2
  <2>3. QED
    BY <2>1, <2>2
<1>3. (m % 2 = 1) <=> ~(n % 2 = 1)
  BY <1>2, ParityLemma
<1>4. QED
  BY <1>1, <1>3, Zenon DEF Odd

LEMMA ColumnLemma ==
  ASSUME NEW d \in SUBSET (0 .. 7), NEW b \in 0 .. 7
  PROVE  ColumnParity[Xor(d, {b})] = Xor(ColumnParity[d], BitSig(b))
<1>1. PICK e : e = Xor(d, {b})
  OBVIOUS
<1>2. e \in SUBSET (0 .. 7) /\ \A j : j # b => (j \in e <=> j \in d)
  BY <1>1 DEF Xor
<1>3. b \in e <=> b \notin d
  BY <1>1 DEF Xor
<1>4. ASSUME NEW c \in Columns PROVE c \in ColumnParity[e] <=> c \in Xor(ColumnParity[d], BitSig(b))
  <2> DEFINE S == {j \in d : Set(j, c[1]) = c[2]}
             T == {j \in e : Set(j, c[1]) = c[2]}
  <2>1. IsFiniteSet(S)
    BY FS_Subset, Finite
  <2>2. \A j : j # b => (j \in T <=> j \in S)
    BY <1>2
  <2>3. c \in ColumnParity[d] <=> Odd(S)
    BY DEF ColumnParity
  <2>4. c \in ColumnParity[e] <=> Odd(T)
    BY <1>2 DEF ColumnParity
  <2>5. CASE c \in BitSig(b)
    <3>1. b \in T <=> b \notin S
      BY <1>3, <2>5 DEF BitSig
    <3> HIDE DEF S, T
    <3>2. Odd(T) <=> ~Odd(S)
      BY <2>1, <2>2, <3>1, ToggleLemma
    <3>3. QED
      BY <2>3, <2>4, <2>5, <3>2 DEF Xor
  <2>6. CASE c \notin BitSig(b)
    <3>1. T = S
      BY <1>2, <2>2, <2>6 DEF BitSig
    <3> HIDE DEF S, T
    <3>2. QED
      BY <2>3, <2>4, <2>6, <3>1 DEF Xor
  <2>7. QED
    BY <2>5, <2>6
<1>5. ColumnParity[e] \subseteq Columns /\ ColumnParity[d] \subseteq Columns /\ BitSig(b) \subseteq Columns
  BY <1>2 DEF ColumnParity, BitSig
<1>6. QED
  BY <1>1, <1>4, <1>5 DEF Xor

LEMMA FlippedLemma ==
  ASSUME NEW d \in Data, NEW i \in BytesOf, NEW b \in 0 .. 7
  PROVE  /\ Flipped(d, i, b) \in Data /\ Flipped(d, i, b)[i] = Xor(d[i], {b})
         /\ \A k \in BytesOf : k # i => Flipped(d, i, b)[k] = d[k]
         /\ Flipped(Flipped(d, i, b), i, b) = d
<1>1. d[i] \in SUBSET (0 .. 7) /\ Xor(d[i], {b}) \in SUBSET (0 .. 7)
  BY DEF Data, Xor
<1>2. Xor(Xor(d[i], {b}), {b}) = d[i]
  BY DEF Xor
<1>3. PICK e : e = Flipped(d, i, b)
  OBVIOUS
<1>4. e \in Data /\ e[i] = Xor(d[i], {b}) /\ \A k \in BytesOf : k # i => e[k] = d[k]
  BY <1>1, <1>3 DEF Flipped, Data
<1>5. Flipped(e, i, b) = d
  BY <1>2, <1>4 DEF Flipped, Data
<1>6. QED
  BY <1>3, <1>4, <1>5

(* The code is linear: a flipped bit is the same change of it in any block.*)
LEMMA CodeLemma ==
  ASSUME NEW d \in Data, NEW i \in BytesOf, NEW b \in 0 .. 7
  PROVE  LET c == ECCCalculateOther(d)
             e == ECCCalculateOther(Flipped(d, i, b)) IN
         /\ e.col = Xor(c.col, BitSig(b))
         /\ e.line = Xor(c.line, LineBits[i])
         /\ e.prime = Xor(c.prime, Lines \ LineBits[i])
<1>1. PICK g : g = Flipped(d, i, b)
  OBVIOUS
<1>2. g \in Data /\ g[i] = Xor(d[i], {b}) /\ \A k \in BytesOf : k # i => g[k] = d[k]
  BY <1>1, FlippedLemma
<1> DEFINE c == ECCCalculateOther(d)
           e == ECCCalculateOther(g)
           odd == {k \in BytesOf : Odd(d[k])}
           odd2 == {k \in BytesOf : Odd(g[k])}
<1>3. d[i] \in SUBSET (0 .. 7) /\ LineBits[i] \subseteq Lines
  BY DEF Data, LineBits
<1>4. \A k : k # i => (k \in odd2 <=> k \in odd)
  BY <1>2
<1>5. i \in odd2 <=> i \notin odd
  <2>1. IsFiniteSet(d[i])
    BY <1>3, Finite, FS_Subset
  <2>2. \A y : y # b => (y \in g[i] <=> y \in d[i])
    BY <1>2 DEF Xor
  <2>3. b \in g[i] <=> b \notin d[i]
    BY <1>2 DEF Xor
  <2>4. Odd(g[i]) <=> ~Odd(d[i])
    BY <2>1, <2>2, <2>3, ToggleLemma
  <2>5. QED
    BY <2>4
<1>6. c.line = {j \in Lines : Odd({k \in odd : j \in LineBits[k]})}
  BY DEF ECCCalculateOther
<1>7. e.line = {j \in Lines : Odd({k \in odd2 : j \in LineBits[k]})}
  BY DEF ECCCalculateOther
<1>8. c.prime = {j \in Lines : Odd({k \in odd : j \notin LineBits[k]})}
  BY DEF ECCCalculateOther
<1>9. e.prime = {j \in Lines : Odd({k \in odd2 : j \notin LineBits[k]})}
  BY DEF ECCCalculateOther
<1>10. odd \subseteq BytesOf
  OBVIOUS
<1>11. c.col = {x \in Columns : Odd({k \in BytesOf : x \in ColumnParity[d[k]]})}
  BY DEF ECCCalculateOther
<1>12. e.col = {x \in Columns : Odd({k \in BytesOf : x \in ColumnParity[g[k]]})}
  BY DEF ECCCalculateOther
<1> HIDE DEF c, e, odd, odd2
<1>13. ASSUME NEW j \in Lines
       PROVE  /\ j \in e.line <=> j \in Xor(c.line, LineBits[i])
              /\ j \in e.prime <=> j \in Xor(c.prime, Lines \ LineBits[i])
  <2> DEFINE S == {k \in odd : j \in LineBits[k]}
             T == {k \in odd2 : j \in LineBits[k]}
             U == {k \in odd : j \notin LineBits[k]}
             V == {k \in odd2 : j \notin LineBits[k]}
  <2>1. IsFiniteSet(S) /\ IsFiniteSet(U)
    BY <1>10, Finite, FS_Subset
  <2>2. \A k : k # i => (k \in T <=> k \in S) /\ (k \in V <=> k \in U)
    BY <1>4
  <2>3. /\ j \in c.line <=> Odd(S)
        /\ j \in e.line <=> Odd(T)
        /\ j \in c.prime <=> Odd(U)
        /\ j \in e.prime <=> Odd(V)
    BY <1>6, <1>7, <1>8, <1>9
  <2>4. CASE j \in LineBits[i]
    <3>1. i \in T <=> i \notin S
      BY <1>5, <2>4
    <3>2. V = U
      BY <2>2, <2>4
    <3> HIDE DEF S, T, U, V
    <3>3. Odd(T) <=> ~Odd(S)
      BY <2>1, <2>2, <3>1, ToggleLemma
    <3>4. QED
      BY <2>3, <2>4, <3>2, <3>3 DEF Xor
  <2>5. CASE j \notin LineBits[i]
    <3>1. i \in V <=> i \notin U
      BY <1>5, <2>5
    <3>2. T = S
      BY <2>2, <2>5
    <3> HIDE DEF S, T, U, V
    <3>3. Odd(V) <=> ~Odd(U)
      BY <2>1, <2>2, <3>1, ToggleLemma
    <3>4. QED
      BY <2>3, <2>5, <3>2, <3>3 DEF Xor
  <2>6. QED
    BY <2>4, <2>5
<1>14. ASSUME NEW x \in Columns PROVE x \in e.col <=> x \in Xor(c.col, BitSig(b))
  <2> DEFINE S == {k \in BytesOf : x \in ColumnParity[d[k]]}
             T == {k \in BytesOf : x \in ColumnParity[g[k]]}
  <2>1. IsFiniteSet(S)
    BY Finite, FS_Subset
  <2>2. \A k : k # i => (k \in T <=> k \in S)
    BY <1>2
  <2>3. (x \in c.col <=> Odd(S)) /\ (x \in e.col <=> Odd(T))
    BY <1>11, <1>12
  <2>4. ColumnParity[g[i]] = Xor(ColumnParity[d[i]], BitSig(b))
    BY <1>2, <1>3, ColumnLemma
  <2>5. CASE x \in BitSig(b)
    <3>1. i \in T <=> i \notin S
      BY <2>4, <2>5 DEF Xor
    <3> HIDE DEF S, T
    <3>2. Odd(T) <=> ~Odd(S)
      BY <2>1, <2>2, <3>1, ToggleLemma
    <3>3. QED
      BY <2>3, <2>5, <3>2 DEF Xor
  <2>6. CASE x \notin BitSig(b)
    <3>1. i \in T <=> i \in S
      BY <2>4, <2>6 DEF Xor
    <3>2. T = S
      BY <2>2, <3>1
    <3> HIDE DEF S, T
    <3>3. QED
      BY <2>3, <2>6, <3>2 DEF Xor
  <2>7. QED
    BY <2>5, <2>6
<1>15. /\ c.line \subseteq Lines /\ e.line \subseteq Lines /\ c.prime \subseteq Lines
       /\ e.prime \subseteq Lines /\ c.col \subseteq Columns /\ e.col \subseteq Columns
       /\ BitSig(b) \subseteq Columns
  BY <1>6, <1>7, <1>8, <1>9, <1>11, <1>12 DEF BitSig
<1>16. e.line = Xor(c.line, LineBits[i])
  BY <1>3, <1>13, <1>15 DEF Xor
<1>17. e.prime = Xor(c.prime, Lines \ LineBits[i])
  BY <1>13, <1>15 DEF Xor
<1>18. e.col = Xor(c.col, BitSig(b))
  BY <1>14, <1>15 DEF Xor
<1>19. QED
  BY <1>1, <1>16, <1>17, <1>18 DEF c, e

-----------------------------------------------------------------------------
(* What a flipped bit is to the parities, of the block or of the code.     *)

AllFlips ==
    {"data"} \X BytesOf \X (0 .. 7) \cup {"col"} \X {0, 1, 2} \X {0, 1}
    \cup {"line", "prime"} \X Lines \X {0}

SigC(f) == IF f[1] = "data" THEN BitSig(f[3])
           ELSE IF f[1] = "col" THEN {<<f[2], f[3] = 1>>} ELSE {}
SigL(f) == IF f[1] = "data" THEN LineBits[f[2]] ELSE IF f[1] = "line" THEN {f[2]} ELSE {}
SigP(f) == IF f[1] = "data" THEN Lines \ LineBits[f[2]]
           ELSE IF f[1] = "prime" THEN {f[2]} ELSE {}

(* More than one parity is wrong.                                          *)
Two(c, l, p) ==
    \/ \E x, y \in c : x # y
    \/ \E x, y \in l : x # y
    \/ \E x, y \in p : x # y
    \/ c # {} /\ l # {}
    \/ c # {} /\ p # {}
    \/ l # {} /\ p # {}

LEMMA CountTwo ==
  ASSUME NEW S, IsFiniteSet(S)
  PROVE  /\ Cardinality(S) \in Nat
         /\ S # {} => Cardinality(S) >= 1
         /\ (\E x, y \in S : x # y) => Cardinality(S) >= 2
<1>1. Cardinality(S) \in Nat /\ (S # {} => Cardinality(S) # 0)
  BY FS_CardinalityType, FS_EmptySet
<1>2. ASSUME NEW x \in S, NEW y \in S, x # y PROVE Cardinality(S) >= 2
  <2>1. IsFiniteSet(S \ {x}) /\ Cardinality(S \ {x}) = Cardinality(S) - 1
    BY FS_RemoveElement
  <2>2. S \ {x} # {}
    BY <1>2
  <2>3. Cardinality(S \ {x}) # 0 /\ Cardinality(S \ {x}) \in Nat
    BY <2>1, <2>2, FS_EmptySet, FS_CardinalityType
  <2>4. QED
    BY <1>1, <2>1, <2>3
<1>3. QED
  BY <1>1, <1>2

LEMMA TwoLemma ==
  ASSUME NEW c \in SUBSET Columns, NEW l \in SUBSET Lines, NEW p \in SUBSET Lines, Two(c, l, p)
  PROVE  /\ ~(c = {} /\ l = {} /\ p = {})
         /\ Cardinality(c) + Cardinality(l) + Cardinality(p) # 1
<1>1. IsFiniteSet(c) /\ IsFiniteSet(l) /\ IsFiniteSet(p)
  BY Finite, FS_Subset
<1>2. PICK n, m, k : n = Cardinality(c) /\ m = Cardinality(l) /\ k = Cardinality(p)
  OBVIOUS
<1>3. n \in Nat /\ (c # {} => n >= 1) /\ ((\E x, y \in c : x # y) => n >= 2)
  BY <1>1, <1>2, CountTwo
<1>4. m \in Nat /\ (l # {} => m >= 1) /\ ((\E x, y \in l : x # y) => m >= 2)
  BY <1>1, <1>2, CountTwo
<1>5. k \in Nat /\ (p # {} => k >= 1) /\ ((\E x, y \in p : x # y) => k >= 2)
  BY <1>1, <1>2, CountTwo
<1>6. n + m + k # 1
  BY <1>3, <1>4, <1>5 DEF Two
<1>7. QED
  BY <1>2, <1>6 DEF Two

LEMMA PairLemma ==
  ASSUME NEW S, NEW T
  PROVE  /\ \A x \in S \X T : \E a \in S, b \in T : x = <<a, b>>
         /\ \A a \in S, b \in T : <<a, b>> \in S \X T /\ <<a, b>>[1] = a /\ <<a, b>>[2] = b
OBVIOUS

LEMMA ColumnsLemma ==
  /\ \A x \in Columns : \E k \in {0, 1, 2}, t \in {TRUE, FALSE} : x = <<k, t>>
  /\ \A k \in {0, 1, 2}, t \in {TRUE, FALSE} :
        <<k, t>> \in Columns /\ <<k, t>>[1] = k /\ <<k, t>>[2] = t
<1>1. PICK S, T : S = {0, 1, 2} /\ T = {TRUE, FALSE}
  OBVIOUS
<1>2. /\ \A x \in S \X T : \E k \in S, t \in T : x = <<k, t>>
      /\ \A k \in S, t \in T : <<k, t>> \in S \X T /\ <<k, t>>[1] = k /\ <<k, t>>[2] = t
  BY PairLemma
<1>3. Columns = S \X T
  BY <1>1 DEF Columns
<1>4. \A x \in Columns : \E k \in S, t \in T : x = <<k, t>>
  BY <1>2, <1>3
<1>5. \A k \in S, t \in T : <<k, t>> \in Columns /\ <<k, t>>[1] = k /\ <<k, t>>[2] = t
  BY <1>2, <1>3
<1>6. QED
  BY <1>1, <1>4, <1>5

LEMMA BitLemma ==
  ASSUME NEW b \in 0 .. 7
  PROVE  /\ BitSig(b) \subseteq Columns
         /\ \A k \in {0, 1, 2} : /\ <<k, TRUE>> \in BitSig(b) <=> Set(b, k)
                                 /\ <<k, FALSE>> \in BitSig(b) <=> ~Set(b, k)
<1>1. ASSUME NEW k \in {0, 1, 2} PROVE <<k, TRUE>> \in Columns /\ <<k, FALSE>> \in Columns
  BY DEF Columns
<1>2. Set(b, 0) \in BOOLEAN /\ Set(b, 1) \in BOOLEAN /\ Set(b, 2) \in BOOLEAN
  BY DEF Set
<1>3. ASSUME NEW k \in {0, 1, 2}
      PROVE  /\ <<k, TRUE>> \in BitSig(b) <=> Set(b, k) = TRUE
             /\ <<k, FALSE>> \in BitSig(b) <=> Set(b, k) = FALSE
  BY <1>1 DEF BitSig
<1>4. QED
  BY <1>3 DEF BitSig, Set

(* The bits of a byte differ in a column.                                  *)
LEMMA BitsDiffer ==
  ASSUME NEW b \in 0 .. 7, NEW d \in 0 .. 7, \A k \in {0, 1, 2} : Set(b, k) = Set(d, k)
  PROVE  b = d
BY DEF Set

IsData(f, i, b) == f = <<"data", i, b>> /\ SigC(f) = BitSig(b)
                   /\ SigL(f) = LineBits[i] /\ SigP(f) = Lines \ LineBits[i]
IsCol(f, x)     == f = <<"col", x[1], IF x[2] THEN 1 ELSE 0>>
                   /\ SigC(f) = {x} /\ SigL(f) = {} /\ SigP(f) = {}
IsLine(f, j)    == f = <<"line", j, 0>> /\ SigC(f) = {} /\ SigL(f) = {j} /\ SigP(f) = {}
IsPrime(f, j)   == f = <<"prime", j, 0>> /\ SigC(f) = {} /\ SigL(f) = {} /\ SigP(f) = {j}

LEMMA SigLemma ==
  ASSUME NEW f \in AllFlips
  PROVE  \/ \E i \in BytesOf, b \in 0 .. 7 : IsData(f, i, b)
         \/ \E x \in Columns : IsCol(f, x)
         \/ \E j \in Lines : IsLine(f, j)
         \/ \E j \in Lines : IsPrime(f, j)
<1>1. CASE f \in {"data"} \X BytesOf \X (0 .. 7)
  <2>1. PICK i \in BytesOf, b \in 0 .. 7 : f = <<"data", i, b>>
    BY <1>1
  <2>2. IsData(f, i, b)
    BY <2>1 DEF IsData, SigC, SigL, SigP
  <2>3. QED
    BY <2>2
<1>2. CASE f \in {"col"} \X {0, 1, 2} \X {0, 1}
  <2>1. PICK k \in {0, 1, 2}, n \in {0, 1} : f = <<"col", k, n>>
    BY <1>2
  <2>2. CASE n = 1
    <3>1. PICK x \in Columns : x = <<k, TRUE>> /\ x[1] = k /\ x[2] = TRUE
      BY ColumnsLemma
    <3>2. f[2] = k /\ f[3] = 1 /\ (f[3] = 1) = TRUE /\ f[1] = "col"
      BY <2>1, <2>2
    <3>3. SigC(f) = {x} /\ SigL(f) = {} /\ SigP(f) = {}
      BY <3>1, <3>2 DEF SigC, SigL, SigP
    <3>4. f = <<"col", x[1], IF x[2] THEN 1 ELSE 0>>
      BY <2>1, <2>2, <3>1
    <3>5. QED
      BY <3>3, <3>4 DEF IsCol
  <2>3. CASE n = 0
    <3>1. PICK x \in Columns : x = <<k, FALSE>> /\ x[1] = k /\ x[2] = FALSE
      BY ColumnsLemma
    <3>2. f[2] = k /\ f[3] # 1 /\ (f[3] = 1) = FALSE /\ f[1] = "col"
      BY <2>1, <2>3
    <3>3. SigC(f) = {x} /\ SigL(f) = {} /\ SigP(f) = {}
      BY <3>1, <3>2 DEF SigC, SigL, SigP
    <3>4. f = <<"col", x[1], IF x[2] THEN 1 ELSE 0>>
      BY <2>1, <2>3, <3>1
    <3>5. QED
      BY <3>3, <3>4 DEF IsCol
  <2>4. QED
    BY <2>2, <2>3
<1>3. CASE f \in {"line", "prime"} \X Lines \X {0}
  <2>1. PICK j \in Lines : f = <<"line", j, 0>> \/ f = <<"prime", j, 0>>
    BY <1>3
  <2>2. IsLine(f, j) \/ IsPrime(f, j)
    BY <2>1 DEF IsLine, IsPrime, SigC, SigL, SigP
  <2>3. QED
    BY <2>2
<1>4. QED
  BY <1>1, <1>2, <1>3 DEF AllFlips

(* Two bits are flipped: it is neither nothing, nor one bit of the code,   *)
(* nor does it look like one bit of the block.                             *)
Noticed(c, l, p) == Two(c, l, p) /\ ~LooksSingle(c, l, p)

LEMMA DataDataLemma ==
  ASSUME NEW i \in BytesOf, NEW b \in 0 .. 7, NEW k \in BytesOf, NEW d \in 0 .. 7, i # k \/ b # d
  PROVE  Noticed(Xor(BitSig(b), BitSig(d)), Xor(LineBits[i], LineBits[k]),
                 Xor(Lines \ LineBits[i], Lines \ LineBits[k]))
<1>1. PICK c, l, p : /\ c = Xor(BitSig(b), BitSig(d)) /\ l = Xor(LineBits[i], LineBits[k])
                     /\ p = Xor(Lines \ LineBits[i], Lines \ LineBits[k])
  OBVIOUS
<1>2. ASSUME NEW n \in {0, 1, 2}
      PROVE  /\ <<n, TRUE>> \in c <=> <<n, FALSE>> \in c
             /\ <<n, TRUE>> \in c <=> ~(Set(b, n) <=> Set(d, n))
  BY <1>1, BitLemma DEF Xor
<1>3. ~LooksSingle(c, l, p)
  <2>1. (<<0, TRUE>> \in c) = (<<0, FALSE>> \in c)
    BY <1>2
  <2>2. QED
    BY <2>1 DEF LooksSingle
<1>4. CASE b # d
  <2>1. PICK n \in {0, 1, 2} : ~(Set(b, n) = Set(d, n))
    BY <1>4, BitsDiffer
  <2>2. <<n, TRUE>> \in c /\ <<n, FALSE>> \in c
    BY <1>2, <2>1 DEF Set
  <2>3. <<n, TRUE>> # <<n, FALSE>>
    OBVIOUS
  <2>4. QED
    BY <1>1, <1>3, <2>2, <2>3 DEF Noticed, Two
<1>5. CASE i # k
  <2>1. LineBits[i] # LineBits[k] /\ LineBits[i] \subseteq Lines /\ LineBits[k] \subseteq Lines
    BY <1>5, EccAssumption DEF LineBits
  <2>2. PICK j \in Lines : ~(j \in LineBits[i] <=> j \in LineBits[k])
    BY <2>1
  <2>3. j \in l /\ j \in p
    BY <1>1, <2>2 DEF Xor
  <2>4. QED
    BY <1>1, <1>3, <2>3 DEF Noticed, Two
<1>6. QED
  BY <1>4, <1>5

LEMMA DataCodeLemma ==
  ASSUME NEW i \in BytesOf, NEW b \in 0 .. 7, NEW c \in SUBSET Columns, NEW l \in SUBSET Lines,
         NEW p \in SUBSET Lines,
         \/ \E x \in Columns : c = Xor(BitSig(b), {x}) /\ l = LineBits[i] /\ p = Lines \ LineBits[i]
         \/ \E j \in Lines : c = BitSig(b) /\ \/ l = Xor(LineBits[i], {j}) /\ p = Lines \ LineBits[i]
                                              \/ l = LineBits[i] /\ p = Xor(Lines \ LineBits[i], {j})
  PROVE  Noticed(c, l, p)
<1>1. \A n \in {0, 1, 2} : /\ <<n, TRUE>> \in BitSig(b) <=> <<n, FALSE>> \notin BitSig(b)
  BY BitLemma
<1>2. CASE \E x \in Columns : c = Xor(BitSig(b), {x})
  <2>1. PICK k \in {0, 1, 2}, t \in {TRUE, FALSE} : c = Xor(BitSig(b), {<<k, t>>})
    BY <1>2, ColumnsLemma
  <2>2. <<k, TRUE>> \in c <=> <<k, FALSE>> \in c
    BY <1>1, <2>1 DEF Xor
  <2>3. ~LooksSingle(c, l, p)
    <3>1. (<<k, TRUE>> \in c) = (<<k, FALSE>> \in c)
      BY <2>2
    <3>2. QED
      BY <3>1 DEF LooksSingle
  <2>4. \A n \in {0, 1, 2} : n # k => <<n, TRUE>> \in c \/ <<n, FALSE>> \in c
    BY <1>1, <2>1 DEF Xor
  <2>5. PICK n, m \in {0, 1, 2} : n # m /\ n # k /\ m # k
    OBVIOUS
  <2>6. PICK s, t2 \in {TRUE, FALSE} : <<n, s>> \in c /\ <<m, t2>> \in c
    BY <2>4, <2>5
  <2>7. <<n, s>> # <<m, t2>>
    BY <2>5
  <2>8. QED
    BY <2>3, <2>6, <2>7 DEF Noticed, Two
<1>3. CASE \E j \in Lines : c = BitSig(b) /\ \/ l = Xor(LineBits[i], {j}) /\ p = Lines \ LineBits[i]
                                             \/ l = LineBits[i] /\ p = Xor(Lines \ LineBits[i], {j})
  <2>1. l # Lines \ p
    BY <1>3 DEF Xor
  <2>2. ~LooksSingle(c, l, p)
    BY <2>1 DEF LooksSingle
  <2>3. PICK s, t \in {TRUE, FALSE} : <<0, s>> \in c /\ <<1, t>> \in c
    BY <1>1, <1>3
  <2>4. <<0, s>> # <<1, t>>
    OBVIOUS
  <2>5. QED
    BY <2>2, <2>3, <2>4 DEF Noticed, Two
<1>4. QED
  BY <1>2, <1>3

LEMMA OnePair ==
  /\ \A x \in Columns : \E k \in {0, 1, 2} : \A n \in {0, 1, 2} \ {k} :
        <<n, TRUE>> \notin {x} /\ <<n, FALSE>> \notin {x}
  /\ \E k \in {0, 1, 2} : \A n \in {0, 1, 2} \ {k} : <<n, TRUE>> \notin {} /\ <<n, FALSE>> \notin {}
<1>1. ASSUME NEW x \in Columns
      PROVE  \E k \in {0, 1, 2} : \A n \in {0, 1, 2} \ {k} :
               <<n, TRUE>> \notin {x} /\ <<n, FALSE>> \notin {x}
  <2>1. PICK k \in {0, 1, 2}, t \in {TRUE, FALSE} : x = <<k, t>>
    BY ColumnsLemma
  <2>2. \A n \in {0, 1, 2} \ {k} : <<n, TRUE>> # x /\ <<n, FALSE>> # x
    BY <2>1
  <2>3. QED
    BY <2>2
<1>2. QED
  BY <1>1

LEMMA CodeCodeLemma ==
  ASSUME NEW f \in AllFlips, NEW g \in AllFlips, f # g, f[1] # "data", g[1] # "data"
  PROVE  Noticed(Xor(SigC(f), SigC(g)), Xor(SigL(f), SigL(g)), Xor(SigP(f), SigP(g)))
<1>1. PICK c, l, p : /\ c = Xor(SigC(f), SigC(g)) /\ l = Xor(SigL(f), SigL(g))
                     /\ p = Xor(SigP(f), SigP(g))
  OBVIOUS
<1>2. \/ \E x \in Columns : IsCol(f, x)
      \/ \E j \in Lines : IsLine(f, j)
      \/ \E j \in Lines : IsPrime(f, j)
  BY SigLemma DEF IsData
<1>3. \/ \E x \in Columns : IsCol(g, x)
      \/ \E j \in Lines : IsLine(g, j)
      \/ \E j \in Lines : IsPrime(g, j)
  BY SigLemma DEF IsData
<1>4. Two(c, l, p)
  <2>1. CASE \E x \in Columns : IsCol(f, x)
    <3>1. PICK x \in Columns : IsCol(f, x)
      BY <2>1
    <3>2. CASE \E y \in Columns : IsCol(g, y)
      <4>1. PICK y \in Columns : IsCol(g, y)
        BY <3>2
      <4>2. x # y
        BY <3>1, <4>1 DEF IsCol
      <4>3. x \in c /\ y \in c
        BY <1>1, <3>1, <4>1, <4>2 DEF IsCol, Xor
      <4>4. QED
        BY <4>2, <4>3 DEF Two
    <3>3. CASE \E j \in Lines : IsLine(g, j) \/ IsPrime(g, j)
      BY <1>1, <3>1, <3>3 DEF IsCol, IsLine, IsPrime, Xor, Two
    <3>4. QED
      BY <1>3, <3>2, <3>3
  <2>2. CASE \E j \in Lines : IsLine(f, j)
    BY <1>1, <1>3, <2>2 DEF IsCol, IsLine, IsPrime, Xor, Two
  <2>3. CASE \E j \in Lines : IsPrime(f, j)
    BY <1>1, <1>3, <2>3 DEF IsCol, IsLine, IsPrime, Xor, Two
  <2>4. QED
    BY <1>2, <2>1, <2>2, <2>3
<1>5. PICK n \in {0, 1, 2} : <<n, TRUE>> \notin c /\ <<n, FALSE>> \notin c
  <2>1. PICK k, m \in {0, 1, 2} : \A n \in {0, 1, 2} \ {k, m} :
          <<n, TRUE>> \notin c /\ <<n, FALSE>> \notin c
    <3>1. PICK k \in {0, 1, 2} : \A n \in {0, 1, 2} \ {k} :
            <<n, TRUE>> \notin SigC(f) /\ <<n, FALSE>> \notin SigC(f)
      BY <1>2, OnePair DEF IsCol, IsLine, IsPrime
    <3>2. PICK m \in {0, 1, 2} : \A n \in {0, 1, 2} \ {m} :
            <<n, TRUE>> \notin SigC(g) /\ <<n, FALSE>> \notin SigC(g)
      BY <1>3, OnePair DEF IsCol, IsLine, IsPrime
    <3>3. QED
      BY <1>1, <3>1, <3>2 DEF Xor
  <2>2. \E n \in {0, 1, 2} : n # k /\ n # m
    OBVIOUS
  <2>3. QED
    BY <2>1, <2>2
<1>6. ~LooksSingle(c, l, p)
  <2>1. (<<n, TRUE>> \in c) = (<<n, FALSE>> \in c)
    BY <1>5
  <2>2. QED
    BY <2>1 DEF LooksSingle
<1>7. QED
  BY <1>1, <1>4, <1>6 DEF Noticed

LEMMA XorLemma ==
  /\ \A a, b : Xor(a, b) = Xor(b, a)
  /\ \A a, b, x : Xor(a, Xor(b, x)) = Xor(Xor(a, b), x) /\ Xor(Xor(a, x), b) = Xor(Xor(a, b), x)
  /\ \A a : Xor(a, {}) = a /\ Xor({}, a) = a /\ Xor(a, a) = {}
<1>1. \A a, b : Xor(a, b) = Xor(b, a)
  BY DEF Xor
<1>2. \A a, b, x : Xor(a, Xor(b, x)) = Xor(Xor(a, b), x)
  BY DEF Xor
<1>3. \A a, b, x : Xor(Xor(a, x), b) = Xor(Xor(a, b), x)
  BY DEF Xor
<1>4. \A a : Xor(a, {}) = a /\ Xor({}, a) = a /\ Xor(a, a) = {}
  BY DEF Xor
<1>5. QED
  BY <1>1, <1>2, <1>3, <1>4

LEMMA SigType ==
  ASSUME NEW f \in AllFlips
  PROVE  SigC(f) \in SUBSET Columns /\ SigL(f) \in SUBSET Lines /\ SigP(f) \in SUBSET Lines
<1>1. CASE \E i \in BytesOf, b \in 0 .. 7 : IsData(f, i, b)
  BY <1>1, BitLemma DEF IsData, LineBits
<1>2. CASE \/ \E x \in Columns : IsCol(f, x)
           \/ \E j \in Lines : IsLine(f, j)
           \/ \E j \in Lines : IsPrime(f, j)
  BY <1>2 DEF IsCol, IsLine, IsPrime
<1>3. QED
  BY <1>1, <1>2, SigLemma

LEMMA MixedLemma ==
  ASSUME NEW f \in AllFlips, NEW g \in AllFlips, f[1] = "data", g[1] # "data"
  PROVE  Noticed(Xor(SigC(f), SigC(g)), Xor(SigL(f), SigL(g)), Xor(SigP(f), SigP(g)))
<1>1. PICK i \in BytesOf, b \in 0 .. 7 : IsData(f, i, b)
  BY SigLemma DEF IsCol, IsLine, IsPrime
<1>2. PICK c, l, p : /\ c = Xor(SigC(f), SigC(g)) /\ l = Xor(SigL(f), SigL(g))
                     /\ p = Xor(SigP(f), SigP(g))
  OBVIOUS
<1>3. c \in SUBSET Columns /\ l \in SUBSET Lines /\ p \in SUBSET Lines
  BY <1>2, SigType DEF Xor
<1>4. \/ \E x \in Columns : c = Xor(BitSig(b), {x}) /\ l = LineBits[i] /\ p = Lines \ LineBits[i]
      \/ \E j \in Lines : c = BitSig(b) /\ \/ l = Xor(LineBits[i], {j}) /\ p = Lines \ LineBits[i]
                                           \/ l = LineBits[i] /\ p = Xor(Lines \ LineBits[i], {j})
  <2>1. \A a : Xor(a, {}) = a
    BY XorLemma
  <2>2. SigC(f) = BitSig(b) /\ SigL(f) = LineBits[i] /\ SigP(f) = Lines \ LineBits[i]
    BY <1>1 DEF IsData
  <2>3. CASE \E x \in Columns : IsCol(g, x)
    <3>1. PICK x \in Columns : SigC(g) = {x} /\ SigL(g) = {} /\ SigP(g) = {}
      BY <2>3 DEF IsCol
    <3>2. c = Xor(BitSig(b), {x}) /\ l = LineBits[i] /\ p = Lines \ LineBits[i]
      BY <1>2, <2>1, <2>2, <3>1
    <3>3. QED
      BY <3>2
  <2>4. CASE \E j \in Lines : IsLine(g, j)
    <3>1. PICK j \in Lines : SigC(g) = {} /\ SigL(g) = {j} /\ SigP(g) = {}
      BY <2>4 DEF IsLine
    <3>2. c = BitSig(b) /\ l = Xor(LineBits[i], {j}) /\ p = Lines \ LineBits[i]
      BY <1>2, <2>1, <2>2, <3>1
    <3>3. QED
      BY <3>2
  <2>5. CASE \E j \in Lines : IsPrime(g, j)
    <3>1. PICK j \in Lines : SigC(g) = {} /\ SigL(g) = {} /\ SigP(g) = {j}
      BY <2>5 DEF IsPrime
    <3>2. c = BitSig(b) /\ l = LineBits[i] /\ p = Xor(Lines \ LineBits[i], {j})
      BY <1>2, <2>1, <2>2, <3>1
    <3>3. QED
      BY <3>2
  <2>6. QED
    <3>1. ~\E k \in BytesOf, d \in 0 .. 7 : IsData(g, k, d)
      BY DEF IsData
    <3>2. QED
      BY <2>3, <2>4, <2>5, <3>1, SigLemma
<1>5. Noticed(c, l, p)
  BY <1>3, <1>4, DataCodeLemma
<1>6. QED
  BY <1>2, <1>5

LEMMA TwoFlips ==
  ASSUME NEW f \in AllFlips, NEW g \in AllFlips, f # g
  PROVE  Noticed(Xor(SigC(f), SigC(g)), Xor(SigL(f), SigL(g)), Xor(SigP(f), SigP(g)))
<1>1. CASE f[1] = "data" /\ g[1] = "data"
  <2>1. PICK i \in BytesOf, b \in 0 .. 7 : IsData(f, i, b)
    BY <1>1, SigLemma DEF IsCol, IsLine, IsPrime
  <2>2. PICK k \in BytesOf, d \in 0 .. 7 : IsData(g, k, d)
    BY <1>1, SigLemma DEF IsCol, IsLine, IsPrime
  <2>3. i # k \/ b # d
    BY <2>1, <2>2 DEF IsData
  <2>4. QED
    BY <2>1, <2>2, <2>3, DataDataLemma DEF IsData
<1>2. CASE f[1] = "data" /\ g[1] # "data"
  BY <1>2, MixedLemma
<1>3. CASE f[1] # "data" /\ g[1] = "data"
  <2>1. Noticed(Xor(SigC(g), SigC(f)), Xor(SigL(g), SigL(f)), Xor(SigP(g), SigP(f)))
    BY <1>3, MixedLemma
  <2>2. QED
    BY <2>1, XorLemma
<1>4. CASE f[1] # "data" /\ g[1] # "data"
  BY <1>4, CodeCodeLemma
<1>5. QED
  BY <1>1, <1>2, <1>3, <1>4

LEMMA OneDataFlip ==
  ASSUME NEW i \in BytesOf, NEW b \in 0 .. 7
  PROVE  /\ BitSig(b) # {}
         /\ LooksSingle(BitSig(b), LineBits[i], Lines \ LineBits[i])
         /\ ByteAt(LineBits[i]) = {i} /\ BitAt(BitSig(b)) = {b}
<1>1. \A k \in {0, 1, 2} : /\ <<k, TRUE>> \in BitSig(b) <=> Set(b, k)
                           /\ <<k, FALSE>> \in BitSig(b) <=> ~Set(b, k)
  BY BitLemma
<1>2. BitSig(b) # {}
  BY <1>1
<1>3. LineBits[i] = Lines \ (Lines \ LineBits[i])
  BY DEF LineBits
<1>4. LooksSingle(BitSig(b), LineBits[i], Lines \ LineBits[i])
  BY <1>1, <1>3 DEF LooksSingle
<1>5. ByteAt(LineBits[i]) = {i}
  BY EccAssumption DEF ByteAt
<1>6. b \in BitAt(BitSig(b))
  BY <1>1 DEF BitAt, Set
<1>7. ASSUME NEW d \in BitAt(BitSig(b)) PROVE d = b
  <2>1. d \in 0 .. 7 /\ \A k \in {0, 1, 2} : Set(d, k) = (<<k, TRUE>> \in BitSig(b))
    BY DEF BitAt
  <2>2. \A k \in {0, 1, 2} : Set(d, k) = Set(b, k)
    BY <1>1, <2>1 DEF Set
  <2>3. QED
    BY <2>1, <2>2, BitsDiffer
<1>8. QED
  BY <1>2, <1>4, <1>5, <1>6, <1>7

LEMMA OneCodeFlip ==
  ASSUME NEW f \in AllFlips, f[1] # "data"
  PROVE  /\ ~(SigC(f) = {} /\ SigL(f) = {} /\ SigP(f) = {})
         /\ ~LooksSingle(SigC(f), SigL(f), SigP(f))
         /\ Cardinality(SigC(f)) + Cardinality(SigL(f)) + Cardinality(SigP(f)) = 1
<1>1. \/ \E x \in Columns : IsCol(f, x)
      \/ \E j \in Lines : IsLine(f, j)
      \/ \E j \in Lines : IsPrime(f, j)
  BY SigLemma DEF IsData
<1>2. Cardinality({}) = 0 /\ \A x : Cardinality({x}) = 1
  BY FS_EmptySet, FS_Singleton
<1>3. Cardinality(SigC(f)) + Cardinality(SigL(f)) + Cardinality(SigP(f)) = 1
  <2>1. CASE \E x \in Columns : IsCol(f, x)
    <3>1. PICK x \in Columns : SigC(f) = {x} /\ SigL(f) = {} /\ SigP(f) = {}
      BY <2>1 DEF IsCol
    <3>2. Cardinality(SigC(f)) = 1 /\ Cardinality(SigL(f)) = 0 /\ Cardinality(SigP(f)) = 0
      BY <1>2, <3>1
    <3>3. QED
      BY <3>2
  <2>2. CASE \E j \in Lines : IsLine(f, j)
    <3>1. PICK j \in Lines : SigC(f) = {} /\ SigL(f) = {j} /\ SigP(f) = {}
      BY <2>2 DEF IsLine
    <3>2. Cardinality(SigC(f)) = 0 /\ Cardinality(SigL(f)) = 1 /\ Cardinality(SigP(f)) = 0
      BY <1>2, <3>1
    <3>3. QED
      BY <3>2
  <2>3. CASE \E j \in Lines : IsPrime(f, j)
    <3>1. PICK j \in Lines : SigC(f) = {} /\ SigL(f) = {} /\ SigP(f) = {j}
      BY <2>3 DEF IsPrime
    <3>2. Cardinality(SigC(f)) = 0 /\ Cardinality(SigL(f)) = 0 /\ Cardinality(SigP(f)) = 1
      BY <1>2, <3>1
    <3>3. QED
      BY <3>2
  <2>4. QED
    BY <1>1, <2>1, <2>2, <2>3
<1>4. ~(SigC(f) = {} /\ SigL(f) = {} /\ SigP(f) = {})
  BY <1>1 DEF IsCol, IsLine, IsPrime
<1>5. PICK k \in {0, 1, 2} : \A n \in {0, 1, 2} \ {k} :
        <<n, TRUE>> \notin SigC(f) /\ <<n, FALSE>> \notin SigC(f)
  <2>1. SigC(f) = {} \/ \E x \in Columns : SigC(f) = {x}
    BY <1>1 DEF IsCol, IsLine, IsPrime
  <2>2. QED
    BY <2>1, OnePair
<1>6. PICK n \in {0, 1, 2} : n # k
  OBVIOUS
<1>7. (<<n, TRUE>> \in SigC(f)) = (<<n, FALSE>> \in SigC(f))
  <2>1. n \in {0, 1, 2} \ {k}
    BY <1>6
  <2>2. <<n, TRUE>> \notin SigC(f) /\ <<n, FALSE>> \notin SigC(f)
    BY <1>5, <2>1
  <2>3. QED
    BY <2>2
<1>8. QED
  BY <1>3, <1>4, <1>7 DEF LooksSingle

-----------------------------------------------------------------------------
(* The flash against the code of what is in it.                            *)

Codes == [col : SUBSET Columns, line : SUBSET Lines, prime : SUBSET Lines]

PageType(pg) == pg \in [data : Data, ecc : Codes]

DCol(pg)   == Xor(pg.ecc.col, ECCCalculateOther(pg.data).col)
DLine(pg)  == Xor(pg.ecc.line, ECCCalculateOther(pg.data).line)
DPrime(pg) == Xor(pg.ecc.prime, ECCCalculateOther(pg.data).prime)

(* The bit f flips between the two pages.                                  *)
Changed(pg, qg, f) ==
  /\ PageType(qg)
  /\ DCol(qg) = Xor(DCol(pg), SigC(f))
  /\ DLine(qg) = Xor(DLine(pg), SigL(f))
  /\ DPrime(qg) = Xor(DPrime(pg), SigP(f))
  /\ qg.data = IF f[1] = "data" THEN Flipped(pg.data, f[2], f[3]) ELSE pg.data

LEMMA DataStep ==
  ASSUME NEW pg, PageType(pg), NEW i \in BytesOf, NEW b \in 0 .. 7, NEW qg,
         qg = [pg EXCEPT !.data = Flipped(@, i, b)]
  PROVE  Changed(pg, qg, <<"data", i, b>>) /\ <<"data", i, b>> \in AllFlips
<1>1. PICK d : d = pg.data
  OBVIOUS
<1>2. d \in Data /\ pg.ecc \in Codes
  BY <1>1 DEF PageType
<1>3. Flipped(d, i, b) \in Data
  BY <1>2, FlippedLemma
<1>4. qg.data = Flipped(d, i, b) /\ qg.ecc = pg.ecc /\ PageType(qg)
  BY <1>1, <1>3 DEF PageType
<1>5. /\ ECCCalculateOther(qg.data).col = Xor(ECCCalculateOther(d).col, BitSig(b))
      /\ ECCCalculateOther(qg.data).line = Xor(ECCCalculateOther(d).line, LineBits[i])
      /\ ECCCalculateOther(qg.data).prime = Xor(ECCCalculateOther(d).prime, Lines \ LineBits[i])
  BY <1>2, <1>4, CodeLemma
<1>6. PICK f : f = <<"data", i, b>>
  OBVIOUS
<1>7. /\ SigC(f) = BitSig(b) /\ SigL(f) = LineBits[i] /\ SigP(f) = Lines \ LineBits[i]
      /\ f[1] = "data" /\ f[2] = i /\ f[3] = b
  BY <1>6 DEF SigC, SigL, SigP
<1>8. \A x, y, z : Xor(x, Xor(y, z)) = Xor(Xor(x, y), z)
  BY XorLemma
<1>9. DCol(qg) = Xor(DCol(pg), SigC(f))
  BY <1>1, <1>4, <1>5, <1>7, <1>8 DEF DCol
<1>10. DLine(qg) = Xor(DLine(pg), SigL(f))
  BY <1>1, <1>4, <1>5, <1>7, <1>8 DEF DLine
<1>11. DPrime(qg) = Xor(DPrime(pg), SigP(f))
  BY <1>1, <1>4, <1>5, <1>7, <1>8 DEF DPrime
<1>12. Changed(pg, qg, f)
  BY <1>1, <1>4, <1>7, <1>9, <1>10, <1>11 DEF Changed
<1>13. f \in AllFlips
  BY <1>6 DEF AllFlips
<1>14. QED
  BY <1>6, <1>12, <1>13

LEMMA CodeStep ==
  ASSUME NEW pg, PageType(pg), NEW qg, NEW f \in AllFlips, f[1] # "data",
         PageType(qg), qg.data = pg.data,
         qg.ecc.col = Xor(pg.ecc.col, SigC(f)),
         qg.ecc.line = Xor(pg.ecc.line, SigL(f)),
         qg.ecc.prime = Xor(pg.ecc.prime, SigP(f))
  PROVE  Changed(pg, qg, f)
<1>1. \A a, b, x : Xor(Xor(a, x), b) = Xor(Xor(a, b), x)
  BY XorLemma
<1>2. DCol(qg) = Xor(DCol(pg), SigC(f))
  BY <1>1 DEF DCol
<1>3. DLine(qg) = Xor(DLine(pg), SigL(f))
  BY <1>1 DEF DLine
<1>4. DPrime(qg) = Xor(DPrime(pg), SigP(f))
  BY <1>1 DEF DPrime
<1>5. QED
  BY <1>2, <1>3, <1>4 DEF Changed

LEMMA FlipStep ==
  ASSUME PageType(page), Flip
  PROVE  \E f \in AllFlips : f \notin flips /\ flips' = flips \cup {f} /\ Changed(page, page', f)
<1>1. PICK pg, qg : pg = page /\ qg = page'
  OBVIOUS
<1>2. PageType(pg) /\ flips' # flips
  BY <1>1 DEF Flip
<1>3. CASE FlipData
  <2>1. PICK i \in BytesOf, b \in 0 .. 7 :
          flips' = flips \cup {<<"data", i, b>>} /\ qg = [pg EXCEPT !.data = Flipped(@, i, b)]
    BY <1>1, <1>3 DEF FlipData
  <2>2. Changed(pg, qg, <<"data", i, b>>) /\ <<"data", i, b>> \in AllFlips
    BY <1>2, <2>1, DataStep
  <2>3. QED
    BY <1>1, <1>2, <2>1, <2>2
<1>4. CASE FlipCode
  <2>1. \A a : Xor(a, {}) = a
    BY XorLemma
  <2>2. CASE \E c \in Columns :
               /\ flips' = flips \cup {<<"col", c[1], IF c[2] THEN 1 ELSE 0>>}
               /\ page' = [page EXCEPT !.ecc.col = Xor(@, {c})]
    <3>1. PICK c \in Columns : /\ flips' = flips \cup {<<"col", c[1], IF c[2] THEN 1 ELSE 0>>}
                               /\ qg = [pg EXCEPT !.ecc.col = Xor(@, {c})]
      BY <1>1, <2>2
    <3>2. PICK k \in {0, 1, 2}, t \in {TRUE, FALSE} : c = <<k, t>> /\ c[1] = k /\ c[2] = t
      <4>1. PICK k \in {0, 1, 2}, t \in {TRUE, FALSE} : c = <<k, t>>
        BY ColumnsLemma
      <4>2. QED
        BY <4>1
    <3>3. PICK n \in {0, 1} : n = (IF c[2] THEN 1 ELSE 0) /\ (n = 1) = t
      <4>1. CASE t = TRUE
        BY <3>2, <4>1
      <4>2. CASE t = FALSE
        <5>1. (IF c[2] THEN 1 ELSE 0) = 0
          BY <3>2, <4>2
        <5>2. ~(0 = 1) /\ ~t
          BY <4>2
        <5>3. (0 = 1) = t
          BY <5>2, Zenon
        <5>4. QED
          BY <5>1, <5>3
      <4>3. QED
        BY <4>1, <4>2
    <3>4. PICK f : f = <<"col", k, n>>
      OBVIOUS
    <3>5. f \in AllFlips /\ f[1] = "col" /\ f[2] = k /\ f[3] = n
      BY <3>4 DEF AllFlips
    <3>6. SigC(f) = {c} /\ SigL(f) = {} /\ SigP(f) = {}
      BY <3>2, <3>3, <3>5 DEF SigC, SigL, SigP
    <3>7. /\ qg.data = pg.data /\ qg.ecc.col = Xor(pg.ecc.col, {c})
          /\ qg.ecc.line = pg.ecc.line /\ qg.ecc.prime = pg.ecc.prime
      BY <1>2, <3>1 DEF PageType, Codes
    <3>8. PageType(qg)
      <4>1. Xor(pg.ecc.col, {c}) \in SUBSET Columns
        BY <1>2 DEF PageType, Codes, Xor
      <4>2. QED
        BY <1>2, <3>1, <4>1 DEF PageType, Codes
    <3>9. Changed(pg, qg, f)
      BY <1>2, <2>1, <3>5, <3>6, <3>7, <3>8, CodeStep
    <3>10. flips' = flips \cup {f}
      BY <3>1, <3>2, <3>3, <3>4
    <3>11. QED
      BY <1>1, <1>2, <3>5, <3>9, <3>10
  <2>3. CASE \E j \in Lines : /\ flips' = flips \cup {<<"line", j, 0>>}
                              /\ page' = [page EXCEPT !.ecc.line = Xor(@, {j})]
    <3>1. PICK j \in Lines : /\ flips' = flips \cup {<<"line", j, 0>>}
                             /\ qg = [pg EXCEPT !.ecc.line = Xor(@, {j})]
      BY <1>1, <2>3
    <3>2. PICK f : f = <<"line", j, 0>>
      OBVIOUS
    <3>3. f \in AllFlips /\ f[1] = "line" /\ f[2] = j
      BY <3>2 DEF AllFlips
    <3>4. SigC(f) = {} /\ SigL(f) = {j} /\ SigP(f) = {}
      BY <3>3 DEF SigC, SigL, SigP
    <3>5. /\ qg.data = pg.data /\ qg.ecc.line = Xor(pg.ecc.line, {j})
          /\ qg.ecc.col = pg.ecc.col /\ qg.ecc.prime = pg.ecc.prime
      BY <1>2, <3>1 DEF PageType, Codes
    <3>6. PageType(qg)
      <4>1. Xor(pg.ecc.line, {j}) \in SUBSET Lines
        BY <1>2 DEF PageType, Codes, Xor
      <4>2. QED
        BY <1>2, <3>1, <4>1 DEF PageType, Codes
    <3>7. Changed(pg, qg, f)
      BY <1>2, <2>1, <3>3, <3>4, <3>5, <3>6, CodeStep
    <3>8. QED
      BY <1>1, <1>2, <3>1, <3>2, <3>3, <3>7
  <2>4. CASE \E j \in Lines : /\ flips' = flips \cup {<<"prime", j, 0>>}
                              /\ page' = [page EXCEPT !.ecc.prime = Xor(@, {j})]
    <3>1. PICK j \in Lines : /\ flips' = flips \cup {<<"prime", j, 0>>}
                             /\ qg = [pg EXCEPT !.ecc.prime = Xor(@, {j})]
      BY <1>1, <2>4
    <3>2. PICK f : f = <<"prime", j, 0>>
      OBVIOUS
    <3>3. f \in AllFlips /\ f[1] = "prime" /\ f[2] = j
      BY <3>2 DEF AllFlips
    <3>4. SigC(f) = {} /\ SigL(f) = {} /\ SigP(f) = {j}
      BY <3>3 DEF SigC, SigL, SigP
    <3>5. /\ qg.data = pg.data /\ qg.ecc.prime = Xor(pg.ecc.prime, {j})
          /\ qg.ecc.col = pg.ecc.col /\ qg.ecc.line = pg.ecc.line
      BY <1>2, <3>1 DEF PageType, Codes
    <3>6. PageType(qg)
      <4>1. Xor(pg.ecc.prime, {j}) \in SUBSET Lines
        BY <1>2 DEF PageType, Codes, Xor
      <4>2. QED
        BY <1>2, <3>1, <4>1 DEF PageType, Codes
    <3>7. Changed(pg, qg, f)
      BY <1>2, <2>1, <3>3, <3>4, <3>5, <3>6, CodeStep
    <3>8. QED
      BY <1>1, <1>2, <3>1, <3>2, <3>3, <3>7
  <2>5. QED
    BY <1>4, <2>2, <2>3, <2>4 DEF FlipCode
<1>5. QED
  BY <1>3, <1>4 DEF Flip

-----------------------------------------------------------------------------
(* The page with none, one or two bits flipped since w was written to it.  *)

Seen(pg, c, l, p) == DCol(pg) = c /\ DLine(pg) = l /\ DPrime(pg) = p

Whole(pg, w) == pg.data = w /\ pg.ecc = ECCCalculateOther(w) /\ Seen(pg, {}, {}, {})

OneOff(pg, w, f) ==
  /\ Seen(pg, SigC(f), SigL(f), SigP(f))
  /\ pg.data = IF f[1] = "data" THEN Flipped(w, f[2], f[3]) ELSE w

TwoOff(pg, f, g) ==
  Seen(pg, Xor(SigC(f), SigC(g)), Xor(SigL(f), SigL(g)), Xor(SigP(f), SigP(g)))

PageIs(pg, fl, w) ==
  \/ fl = {} /\ Whole(pg, w)
  \/ \E f \in AllFlips : fl = {f} /\ OneOff(pg, w, f)
  \/ \E f, g \in AllFlips : f # g /\ fl = {f, g} /\ TwoOff(pg, f, g)

EccInv ==
  /\ written \in Data /\ PageType(page)
  /\ PageIs(page, flips, written)
  /\ EccSound

LEMMA PairCount ==
  ASSUME NEW f, NEW g, f # g
  PROVE  Cardinality({f, g}) = 2
<1>1. IsFiniteSet({f}) /\ Cardinality({f}) = 1
  BY FS_Singleton
<1>2. Cardinality({f} \cup {g}) = 2
  BY <1>1, FS_AddElement
<1>3. {f} \cup {g} = {f, g}
  OBVIOUS
<1>4. QED
  BY <1>2, <1>3

LEMMA InitHolds == EccInit => EccInv
<1> SUFFICES ASSUME EccInit PROVE EccInv
  OBVIOUS
<1>1. written \in Data
  BY EccAssumption DEF EccInit, Data
<1>2. ECCCalculateOther(written) \in Codes
  BY DEF ECCCalculateOther, Codes
<1>3. PageType(page) /\ page.data = written /\ page.ecc = ECCCalculateOther(written)
  BY <1>1, <1>2 DEF EccInit, PageType
<1>4. \A a : Xor(a, a) = {}
  BY XorLemma
<1>5. Seen(page, {}, {}, {})
  BY <1>3, <1>4 DEF Seen, DCol, DLine, DPrime
<1>6. PageIs(page, flips, written)
  BY <1>3, <1>5 DEF PageIs, Whole, EccInit
<1>7. EccSound
  BY DEF EccInit, EccSound
<1>8. QED
  BY <1>1, <1>3, <1>6, <1>7 DEF EccInv

LEMMA FlipHolds == EccInv /\ Flip => EccInv'
<1> SUFFICES ASSUME EccInv, Flip PROVE EccInv'
  OBVIOUS
<1>1. PICK pg, w, fl : pg = page /\ w = written /\ fl = flips
  OBVIOUS
<1>2. PICK qg : qg = page'
  OBVIOUS
<1>3. PICK f \in AllFlips : f \notin fl /\ flips' = fl \cup {f} /\ Changed(pg, qg, f)
  BY <1>1, <1>2, FlipStep DEF EccInv
<1>4. PageIs(pg, fl, w) /\ w \in Data
  BY <1>1 DEF EccInv
<1>5. PageIs(qg, fl \cup {f}, w)
  <2>1. CASE fl = {} /\ Whole(pg, w)
    <3>1. \A a : Xor({}, a) = a
      BY XorLemma
    <3>2. OneOff(qg, w, f)
      BY <1>3, <2>1, <3>1 DEF Changed, Whole, OneOff, Seen
    <3>3. fl \cup {f} = {f}
      BY <2>1
    <3>4. QED
      BY <3>2, <3>3 DEF PageIs
  <2>2. CASE \E g \in AllFlips : fl = {g} /\ OneOff(pg, w, g)
    <3>1. PICK g \in AllFlips : fl = {g} /\ OneOff(pg, w, g)
      BY <2>2
    <3>2. g # f /\ fl \cup {f} = {g, f}
      BY <1>3, <3>1
    <3>3. TwoOff(qg, g, f)
      BY <1>3, <3>1 DEF Changed, OneOff, TwoOff, Seen
    <3>4. QED
      BY <3>2, <3>3 DEF PageIs
  <2>3. CASE \E g, h \in AllFlips : g # h /\ fl = {g, h} /\ TwoOff(pg, g, h)
    <3>1. Cardinality(fl) = 2
      <4>1. PICK g, h \in AllFlips : g # h /\ fl = {g, h}
        BY <2>3
      <4>2. Cardinality({g, h}) = 2
        BY <4>1, PairCount
      <4>3. QED
        BY <4>1, <4>2
    <3>2. Cardinality(fl) < 2
      BY <1>1 DEF Flip
    <3>3. QED
      BY <3>1, <3>2
  <2>4. QED
    BY <1>4, <2>1, <2>2, <2>3 DEF PageIs
<1>6. written' = w /\ read' = Unread
  BY <1>1 DEF Flip
<1>7. EccSound'
  BY <1>6 DEF EccSound, Unread, Answer
<1>8. PageType(qg)
  BY <1>3 DEF Changed
<1>9. QED
  BY <1>2, <1>3, <1>4, <1>5, <1>6, <1>7, <1>8 DEF EccInv

(* What the reader gets, case by case of how the parities differ.          *)
LEMMA ReadNone ==
  ASSUME NEW pg, PageType(pg), Seen(pg, {}, {}, {})
  PROVE  ECCCorrectOther(pg.data, pg.ecc, ECCCalculateOther(pg.data)) = {Answer(0, pg.data, pg.ecc)}
<1>1. ~LooksSingle({}, {}, {})
  <2>1. (<<0, TRUE>> \in {}) = (<<0, FALSE>> \in {})
    OBVIOUS
  <2>2. QED
    BY <2>1 DEF LooksSingle
<1>2. Cardinality({}) + Cardinality({}) + Cardinality({}) # 1
  BY FS_EmptySet
<1>3. QED
  BY <1>1, <1>2 DEF ECCCorrectOther, Seen, DCol, DLine, DPrime

LEMMA ReadTwo ==
  ASSUME NEW pg, NEW c \in SUBSET Columns, NEW l \in SUBSET Lines, NEW p \in SUBSET Lines,
         Seen(pg, c, l, p), Noticed(c, l, p)
  PROVE  ECCCorrectOther(pg.data, pg.ecc, ECCCalculateOther(pg.data)) = {Answer(-1, pg.data, pg.ecc)}
<1>1. ~(c = {} /\ l = {} /\ p = {}) /\ Cardinality(c) + Cardinality(l) + Cardinality(p) # 1
  BY TwoLemma DEF Noticed
<1>2. ~LooksSingle(c, l, p)
  BY DEF Noticed
<1>3. QED
  BY <1>1, <1>2 DEF ECCCorrectOther, Seen, DCol, DLine, DPrime

LEMMA ReadCode ==
  ASSUME NEW pg, NEW f \in AllFlips, f[1] # "data", Seen(pg, SigC(f), SigL(f), SigP(f))
  PROVE  ECCCorrectOther(pg.data, pg.ecc, ECCCalculateOther(pg.data))
           = {Answer(1, pg.data, ECCCalculateOther(pg.data))}
<1>1. /\ ~(SigC(f) = {} /\ SigL(f) = {} /\ SigP(f) = {})
      /\ ~LooksSingle(SigC(f), SigL(f), SigP(f))
      /\ Cardinality(SigC(f)) + Cardinality(SigL(f)) + Cardinality(SigP(f)) = 1
  BY OneCodeFlip
<1>2. QED
  BY <1>1 DEF ECCCorrectOther, Seen, DCol, DLine, DPrime

LEMMA ReadData ==
  ASSUME NEW pg, NEW i \in BytesOf, NEW b \in 0 .. 7,
         Seen(pg, BitSig(b), LineBits[i], Lines \ LineBits[i])
  PROVE  ECCCorrectOther(pg.data, pg.ecc, ECCCalculateOther(pg.data))
           = {Answer(1, Flipped(pg.data, i, b), pg.ecc)}
<1>1. /\ BitSig(b) # {}
      /\ LooksSingle(BitSig(b), LineBits[i], Lines \ LineBits[i])
      /\ ByteAt(LineBits[i]) = {i} /\ BitAt(BitSig(b)) = {b}
  BY OneDataFlip
<1>2. ByteAt(LineBits[i]) # {}
  BY <1>1
<1>3. ECCCorrectOther(pg.data, pg.ecc, ECCCalculateOther(pg.data))
        = {Answer(1, Flipped(pg.data, j, d), pg.ecc) : j \in ByteAt(LineBits[i]), d \in BitAt(BitSig(b))}
  BY <1>1, <1>2 DEF ECCCorrectOther, Seen, DCol, DLine, DPrime
<1>4. QED
  BY <1>1, <1>3

LEMMA ReadHolds == EccInv /\ Read => EccInv'
<1> SUFFICES ASSUME EccInv, Read PROVE EccInv'
  OBVIOUS
<1>1. PICK pg, w, fl : pg = page /\ w = written /\ fl = flips
  OBVIOUS
<1>2. PICK r : r = read'
  OBVIOUS
<1>3. /\ r \in ECCCorrectOther(pg.data, pg.ecc, ECCCalculateOther(pg.data))
      /\ page' = pg /\ written' = w /\ flips' = fl
  BY <1>1, <1>2 DEF Read
<1>4. PageType(pg) /\ PageIs(pg, fl, w) /\ w \in Data
  BY <1>1 DEF EccInv
<1>5. CASE fl = {} /\ Whole(pg, w)
  <2>1. r = Answer(0, w, pg.ecc)
    BY <1>3, <1>4, <1>5, ReadNone DEF Whole
  <2>2. Cardinality(fl) = 0
    BY <1>5, FS_EmptySet
  <2>3. EccSound'
    BY <1>2, <1>3, <1>5, <2>1, <2>2 DEF EccSound
  <2>4. QED
    BY <1>3, <1>4, <2>3 DEF EccInv
<1>6. CASE \E f \in AllFlips : fl = {f} /\ OneOff(pg, w, f)
  <2>1. PICK f \in AllFlips : fl = {f} /\ OneOff(pg, w, f)
    BY <1>6
  <2>2. Cardinality(fl) = 1 /\ fl # {}
    BY <2>1, FS_Singleton
  <2>3. CASE f[1] = "data"
    <3>1. PICK i \in BytesOf, b \in 0 .. 7 : IsData(f, i, b)
      BY <2>3, SigLemma DEF IsCol, IsLine, IsPrime
    <3>2. f[2] = i /\ f[3] = b
      BY <3>1 DEF IsData
    <3>3. pg.data = Flipped(w, i, b) /\ Seen(pg, BitSig(b), LineBits[i], Lines \ LineBits[i])
      BY <2>1, <2>3, <3>1, <3>2 DEF OneOff, IsData
    <3>4. r = Answer(1, Flipped(pg.data, i, b), pg.ecc)
      BY <1>3, <3>3, ReadData
    <3>5. Flipped(pg.data, i, b) = w
      <4>1. Flipped(Flipped(w, i, b), i, b) = w
        BY <1>4, FlippedLemma
      <4>2. QED
        BY <3>3, <4>1
    <3>6. r.ret = 1 /\ r.data = w /\ r.ecc = pg.ecc
      BY <3>4, <3>5 DEF Answer
    <3>7. \E g \in fl : g[1] = "data"
      BY <2>1, <2>3
    <3>8. EccSound'
      BY <1>2, <1>3, <2>2, <3>6, <3>7 DEF EccSound
    <3>9. QED
      BY <1>3, <1>4, <3>8 DEF EccInv
  <2>4. CASE f[1] # "data"
    <3>1. pg.data = w /\ Seen(pg, SigC(f), SigL(f), SigP(f))
      BY <2>1, <2>4 DEF OneOff
    <3>2. r = Answer(1, w, ECCCalculateOther(w))
      BY <1>3, <2>4, <3>1, ReadCode
    <3>3. r.ret = 1 /\ r.data = w /\ r.ecc = ECCCalculateOther(w)
      BY <3>2 DEF Answer
    <3>4. ~\E g \in fl : g[1] = "data"
      BY <2>1, <2>4
    <3>5. EccSound'
      BY <1>2, <1>3, <2>2, <3>3, <3>4 DEF EccSound
    <3>6. QED
      BY <1>3, <1>4, <3>5 DEF EccInv
  <2>5. QED
    BY <2>3, <2>4
<1>7. CASE \E f, g \in AllFlips : f # g /\ fl = {f, g} /\ TwoOff(pg, f, g)
  <2>1. PICK f, g \in AllFlips : f # g /\ fl = {f, g} /\ TwoOff(pg, f, g)
    BY <1>7
  <2>2. Cardinality(fl) = 2 /\ fl # {}
    <3>1. Cardinality({f, g}) = 2
      BY <2>1, PairCount
    <3>2. QED
      BY <2>1, <3>1
  <2>3. PICK c, l, p : /\ c = Xor(SigC(f), SigC(g)) /\ l = Xor(SigL(f), SigL(g))
                       /\ p = Xor(SigP(f), SigP(g))
    OBVIOUS
  <2>4. c \in SUBSET Columns /\ l \in SUBSET Lines /\ p \in SUBSET Lines
    BY <2>3, SigType DEF Xor
  <2>5. Noticed(c, l, p) /\ Seen(pg, c, l, p)
    BY <2>1, <2>3, TwoFlips DEF TwoOff
  <2>6. r = Answer(-1, pg.data, pg.ecc)
    BY <1>3, <2>4, <2>5, ReadTwo
  <2>7. EccSound'
    BY <1>2, <1>3, <2>2, <2>6 DEF EccSound
  <2>8. QED
    BY <1>3, <1>4, <2>7 DEF EccInv
<1>8. QED
  BY <1>4, <1>5, <1>6, <1>7 DEF PageIs

(* One flipped bit of the tags or of their code is mended and two are      *)
(* noticed, whatever the tags, however long they are and wherever the bits *)
(* lie: yaffs_ECCCalculateOther is linear, a bit of the tags changes one   *)
(* parity of each pair and a bit of the code just one, and no two bits     *)
(* make a pattern that one would.                                          *)
THEOREM SoundCorrect == EccInit /\ [][EccNext]_eccVars => []EccSound
<1>1. EccInit => EccInv
  BY InitHolds
<1>2. EccInv /\ [EccNext]_eccVars => EccInv'
  <2> SUFFICES ASSUME EccInv, [EccNext]_eccVars PROVE EccInv'
    OBVIOUS
  <2>1. CASE Flip
    BY <2>1, FlipHolds
  <2>2. CASE Read
    BY <2>2, ReadHolds
  <2>3. CASE UNCHANGED eccVars
    BY <2>3 DEF EccInv, EccSound, eccVars
  <2>4. QED
    BY <2>1, <2>2, <2>3 DEF EccNext
<1>3. EccInv => EccSound
  BY DEF EccInv
<1>4. QED
  BY <1>1, <1>2, <1>3, PTL

(* YaffsCache. Who is pushed out does not matter: what counts is that a    *)
(* half the log does not hold is in a dirty entry, which only leaves the   *)
(* cache by being written to the log.                                      *)

\* Chunks have different halves, and every half is in a chunk.
LEMMA HalvesLemma ==
    /\ \A k \in 1 .. NChunks : HalvesOf(k) \subseteq Halves
    /\ \A j, k \in 1 .. NChunks : \A h \in HalvesOf(j) : h \in HalvesOf(k) => j = k
    /\ \A h \in Halves : /\ (h + 1) \div 2 \in 1 .. NChunks
                         /\ h \in HalvesOf((h + 1) \div 2)
  BY CacheAssumption DEF Halves, HalvesOf

-----------------------------------------------------------------------------
(* Entries, but for their place in the order of use.                       *)

IsEntry(e) ==
    \E f \in CachedFiles, k \in 1 .. NChunks, g \in SUBSET Halves, d \in BOOLEAN :
        \E u : e = Entry(f, k, g, d, u)

Alike(e, x) ==
    /\ e.file = x.file /\ e.chunk = x.chunk
    /\ e.good = x.good /\ e.dirty = x.dirty

LEMMA RecLemma ==
  ASSUME NEW f, NEW k, NEW g, NEW d, NEW u
  PROVE  /\ Entry(f, k, g, d, u).file = f /\ Entry(f, k, g, d, u).chunk = k
         /\ Entry(f, k, g, d, u).good = g /\ Entry(f, k, g, d, u).dirty = d
         /\ \A v : [Entry(f, k, g, d, u) EXCEPT !.used = v] = Entry(f, k, g, d, v)
         /\ \A v : [Entry(f, k, g, d, u) EXCEPT !.good = v] = Entry(f, k, v, d, u)
  BY DEF Entry

LEMMA NewEntry ==
  ASSUME NEW f \in CachedFiles, NEW k \in 1 .. NChunks, NEW g \in SUBSET Halves,
         NEW d \in BOOLEAN, NEW u
  PROVE  IsEntry(Entry(f, k, g, d, u))
  BY Zenon DEF IsEntry

\* What is changed in an entry, and what is not.
LEMMA EntryLemma ==
  ASSUME NEW e, IsEntry(e)
  PROVE  /\ e.file \in CachedFiles /\ e.chunk \in 1 .. NChunks
         /\ e.good \in SUBSET Halves /\ e.dirty \in BOOLEAN
         /\ \A v : /\ IsEntry([e EXCEPT !.used = v])
                   /\ Alike([e EXCEPT !.used = v], e)
                   /\ Alike(e, [e EXCEPT !.used = v])
         /\ \A G \in SUBSET Halves :
              /\ IsEntry([e EXCEPT !.good = G])
              /\ [e EXCEPT !.good = G].file = e.file
              /\ [e EXCEPT !.good = G].chunk = e.chunk
              /\ [e EXCEPT !.good = G].good = G
              /\ [e EXCEPT !.good = G].dirty = e.dirty
<1>0. PICK f \in CachedFiles, k \in 1 .. NChunks, g \in SUBSET Halves, d \in BOOLEAN :
        \E u : e = Entry(f, k, g, d, u)
  BY DEF IsEntry
<1>1. PICK u : e = Entry(f, k, g, d, u)
  BY <1>0
<1>2. /\ e.file = f /\ e.chunk = k /\ e.good = g /\ e.dirty = d
      /\ \A v : [e EXCEPT !.used = v] = Entry(f, k, g, d, v)
      /\ \A v : [e EXCEPT !.good = v] = Entry(f, k, v, d, u)
  BY <1>1, RecLemma
<1>3. ASSUME NEW v
      PROVE  /\ IsEntry([e EXCEPT !.used = v])
             /\ Alike([e EXCEPT !.used = v], e) /\ Alike(e, [e EXCEPT !.used = v])
  <2>1. [e EXCEPT !.used = v] = Entry(f, k, g, d, v)
    BY <1>2
  <2>2. IsEntry(Entry(f, k, g, d, v))
    BY NewEntry, Zenon
  <2>3. Alike(Entry(f, k, g, d, v), e) /\ Alike(e, Entry(f, k, g, d, v))
    BY <1>2, RecLemma DEF Alike
  <2>4. QED
    BY <2>1, <2>2, <2>3, Zenon
<1>4. ASSUME NEW G \in SUBSET Halves
      PROVE  /\ IsEntry([e EXCEPT !.good = G])
             /\ [e EXCEPT !.good = G].file = e.file
             /\ [e EXCEPT !.good = G].chunk = e.chunk
             /\ [e EXCEPT !.good = G].good = G
             /\ [e EXCEPT !.good = G].dirty = e.dirty
  <2>1. [e EXCEPT !.good = G] = Entry(f, k, G, d, u)
    BY <1>2
  <2>2. IsEntry(Entry(f, k, G, d, u))
    BY NewEntry, Zenon
  <2>3. QED
    BY <1>2, <2>1, <2>2, RecLemma
<1>5. QED
  BY <1>2, <1>3, <1>4, Zenon

\* A cache as a set of entries, and one made of entries like those of another.
IsCache(c) == \A e \in c : IsEntry(e)
From(c, d) == \A e \in c : \E x \in d : Alike(e, x)

\* Ranking changes nothing but the order of use.
LEMMA RankedLemma ==
  ASSUME NEW c, IsCache(c)
  PROVE  IsCache(Ranked(c)) /\ From(Ranked(c), c) /\ From(c, Ranked(c))
<1> DEFINE r(e) == [e EXCEPT !.used = Cardinality({x \in c : x.used <= e.used})]
<1>1. \A e \in c : IsEntry(r(e)) /\ Alike(r(e), e) /\ Alike(e, r(e))
  BY EntryLemma, Zenon DEF IsCache
<1>2. Ranked(c) = {r(e) : e \in c}
  BY DEF Ranked
<1> HIDE DEF r
<1>3. IsCache({r(e) : e \in c}) /\ From({r(e) : e \in c}, c) /\ From(c, {r(e) : e \in c})
  BY <1>1 DEF IsCache, From
<1>4. QED
  BY <1>2, <1>3

\* Removing entries, and making entries the last used.
LEMMA WithoutLemma ==
  ASSUME NEW c, NEW E, IsCache(c)
  PROVE  /\ IsCache(Without(c, E)) /\ From(Without(c, E), c \ E)
         /\ From(c \ E, Without(c, E))
<1>1. IsCache(c \ E)
  BY DEF IsCache
<1>2. QED
  BY <1>1, RankedLemma DEF Without

LEMMA UsingLemma ==
  ASSUME NEW c, NEW E, IsCache(c), IsCache(E)
  PROVE  /\ IsCache(Using(c, E)) /\ From(Using(c, E), c \cup E)
         /\ From(c \cup E, Using(c, E))
<1> DEFINE l(e) == [e EXCEPT !.used = NCaches + 1]
           d == (c \ E) \cup {l(e) : e \in E}
<1>1. \A e \in E : IsEntry(l(e)) /\ Alike(l(e), e) /\ Alike(e, l(e))
  BY EntryLemma, Zenon DEF IsCache
<1>2. Using(c, E) = Ranked(d)
  BY DEF Using
<1> HIDE DEF l
<1>3. IsCache(d) /\ From(d, c \cup E) /\ From(c \cup E, d)
  BY <1>1 DEF IsCache, From, Alike
<1>4. IsCache(Ranked(d)) /\ From(Ranked(d), d) /\ From(d, Ranked(d))
  BY <1>3, RankedLemma
<1> HIDE DEF d
<1>5. QED
  BY <1>2, <1>3, <1>4 DEF From, Alike

-----------------------------------------------------------------------------
(* Cache and log of one file.                                              *)

\* Entries hold the last version, and so does the log of what no dirty entry holds.
Consistent(c, l, f) ==
    /\ \A e \in c : e.file = f => e.good = HalvesOf(e.chunk)
    /\ \A h \in Halves :
          \/ h \in l[f]
          \/ \E e \in c : e.file = f /\ e.dirty /\ h \in HalvesOf(e.chunk)

Absent(c, f) == \A e \in c : e.file # f
Clean(c, f) == \A e \in c : e.file = f => ~e.dirty

LogType == [CachedFiles -> SUBSET Halves]

\* Consistency is a matter of what the entries hold, not of their order.
LEMMA FromLemma ==
  ASSUME NEW c, NEW d, NEW l, NEW f, From(c, d)
  PROVE  /\ Absent(d, f) => Absent(c, f)
         /\ Clean(d, f) => Clean(c, f)
         /\ From(d, c) /\ Consistent(d, l, f) => Consistent(c, l, f)
  BY DEF From, Alike, Absent, Clean, Consistent

-----------------------------------------------------------------------------
(* What the functions on cache and log leave to a file.                    *)

IsPair(s) ==
    /\ s = [cache |-> s.cache, log |-> s.log]
    /\ IsCache(s.cache) /\ s.log \in LogType

Kept(s, t) ==
    /\ From(t.cache, s.cache)
    /\ \A f \in CachedFiles :
         Consistent(s.cache, s.log, f) => Consistent(t.cache, t.log, f)

\* A flush of any file: what is dirty goes to the log, other files are left alone.
LEMMA FlushLemma ==
  ASSUME NEW s, IsPair(s), NEW g
  PROVE  LET t == FlushFilesChunkCache(s, g) IN
         IsPair(t) /\ Kept(s, t) /\ Clean(t.cache, g)
<1> DEFINE D == DirtyOf(s.cache, g)
           held == UNION {HalvesOf(e.chunk) : e \in D}
           good == UNION {e.good : e \in D}
           c == Without(s.cache, D)
           l == [s.log EXCEPT ![g] = (@ \ held) \cup good]
           t == FlushFilesChunkCache(s, g)
<1>1. t = [cache |-> c, log |-> l]
  BY Zenon DEF FlushFilesChunkCache
<1>2. t.cache = c /\ t.log = l
  BY <1>1
<1>3. IsCache(c) /\ From(c, s.cache \ D) /\ From(s.cache \ D, c)
  BY WithoutLemma, Zenon DEF IsPair
<1>4. \A e \in s.cache : e \in D <=> e.file = g /\ e.dirty
  BY DEF DirtyOf, CacheOf
<1>5. D \subseteq s.cache
  BY DEF DirtyOf, CacheOf
<1>6. s.log \in LogType /\ IsCache(s.cache)
  BY DEF IsPair
<1>7. good \subseteq Halves
  BY <1>5, <1>6, EntryLemma DEF IsCache
<1>8. l \in LogType
  BY <1>6, <1>7 DEF LogType
<1>9. \A f \in CachedFiles : l[f] = IF f = g THEN (s.log[f] \ held) \cup good ELSE s.log[f]
  BY <1>6 DEF LogType
<1> HIDE DEF D, c, l, t
<1>10. From(c, s.cache)
  BY <1>3 DEF From
<1>11. Clean(c, g)
  BY <1>3, <1>4 DEF From, Alike, Clean
<1>12. ASSUME NEW f \in CachedFiles, Consistent(s.cache, s.log, f)
       PROVE  Consistent(c, l, f)
  <2>1. \A e \in c : e.file = f => e.good = HalvesOf(e.chunk)
    BY <1>10, <1>12 DEF From, Alike, Consistent
  <2>2. ASSUME NEW h \in Halves
        PROVE  \/ h \in l[f]
               \/ \E e \in c : e.file = f /\ e.dirty /\ h \in HalvesOf(e.chunk)
    <3>1. CASE \E e \in s.cache : e.file = f /\ e.dirty /\ h \in HalvesOf(e.chunk)
      <4>1. PICK e \in s.cache : e.file = f /\ e.dirty /\ h \in HalvesOf(e.chunk)
        BY <3>1
      <4>2. CASE f = g
        <5>1. e \in D /\ h \in e.good
          BY <1>4, <1>12, <4>1, <4>2 DEF Consistent
        <5>2. h \in good
          BY <5>1
        <5>3. QED
          BY <1>9, <4>2, <5>2
      <4>3. CASE f # g
        <5>1. e \in s.cache \ D
          BY <1>4, <4>1, <4>3
        <5>2. PICK x \in c : Alike(e, x)
          BY <1>3, <5>1 DEF From
        <5>3. QED
          BY <4>1, <5>2 DEF Alike
      <4>4. QED
        BY <4>2, <4>3
    <3>2. CASE h \in s.log[f]
      <4>1. CASE f = g /\ h \in held
        <5>1. PICK e \in D : h \in HalvesOf(e.chunk)
          BY <4>1
        <5>2. e \in s.cache /\ e.file = f
          BY <1>4, <1>5, <4>1, <5>1
        <5>3. h \in e.good
          BY <1>12, <5>1, <5>2 DEF Consistent
        <5>4. h \in good
          BY <5>1, <5>3
        <5>5. QED
          BY <1>9, <4>1, <5>4
      <4>2. CASE ~(f = g /\ h \in held)
        BY <1>9, <3>2, <4>2
      <4>3. QED
        BY <4>1, <4>2
    <3>3. QED
      BY <1>12, <3>1, <3>2 DEF Consistent
  <2>3. QED
    BY <2>1, <2>2 DEF Consistent
<1>13. IsPair(t)
  BY <1>1, <1>2, <1>3, <1>8 DEF IsPair
<1>14. Kept(s, t)
  BY <1>2, <1>10, <1>12 DEF Kept
<1>15. QED
  BY <1>2, <1>11, <1>13, <1>14 DEF t

\* Removing clean entries takes nothing away.
LEMMA DropLemma ==
  ASSUME NEW s, IsPair(s), NEW E, \A e \in E : ~e.dirty
  PROVE  LET t == [s EXCEPT !.cache = Without(s.cache, E)] IN IsPair(t) /\ Kept(s, t)
<1> DEFINE c == Without(s.cache, E)
           t == [s EXCEPT !.cache = c]
<1>1. t = [cache |-> c, log |-> s.log]
  BY DEF IsPair
<1>2. t.cache = c /\ t.log = s.log
  BY <1>1
<1>3. IsCache(c) /\ From(c, s.cache \ E) /\ From(s.cache \ E, c)
  BY WithoutLemma, Zenon DEF IsPair
<1> HIDE DEF c, t
<1>4. From(c, s.cache)
  BY <1>3 DEF From
<1>5. \A x \in s.cache : x.dirty => x \in s.cache \ E
  OBVIOUS
<1>6. ASSUME NEW f \in CachedFiles, Consistent(s.cache, s.log, f)
      PROVE  Consistent(c, s.log, f)
  BY <1>3, <1>4, <1>5, <1>6 DEF From, Alike, Consistent
<1>7. IsPair(t) /\ Kept(s, t)
  BY <1>1, <1>2, <1>3, <1>4, <1>6 DEF IsPair, Kept
<1>8. QED
  BY <1>7 DEF t, c

LEMMA GrabLemma ==
  ASSUME NEW s, IsPair(s)
  PROVE  IsPair(GrabChunkCache(s)) /\ Kept(s, GrabChunkCache(s))
<1> DEFINE e == Oldest(s.cache)
<1>1. Kept(s, s)
  BY DEF Kept, From, Alike
<1>2. IsPair(FlushFilesChunkCache(s, e.file)) /\ Kept(s, FlushFilesChunkCache(s, e.file))
  BY FlushLemma, Zenon
<1>3. ~e.dirty => LET t == [s EXCEPT !.cache = Without(s.cache, {e})] IN IsPair(t) /\ Kept(s, t)
  <2>1. ~e.dirty => \A x \in {e} : ~x.dirty
    OBVIOUS
  <2>2. QED
    BY <2>1, DropLemma, Zenon
<1>4. QED
  BY <1>1, <1>2, <1>3, Zenon DEF GrabChunkCache

\* A chunk is found or loaded: it is in the cache then, and nothing is lost.
LEMMA WithChunkLemma ==
  ASSUME NEW s, IsPair(s), NEW f \in CachedFiles, NEW k \in 1 .. NChunks
  PROVE  LET t == WithChunk(s, f, k) IN
         /\ IsPair(t)
         /\ \A g \in CachedFiles :
              /\ Consistent(s.cache, s.log, g) => Consistent(t.cache, t.log, g)
              /\ Absent(s.cache, g) /\ g # f => Absent(t.cache, g)
              /\ Clean(s.cache, g) => Clean(t.cache, g)
         /\ \E e \in t.cache : e.file = f /\ e.chunk = k
<1> DEFINE E == CachedChunk(s.cache, f, k)
           g == GrabChunkCache(s)
           new == Entry(f, k, g.log[f] \cap HalvesOf(k), FALSE, 0)
           t == WithChunk(s, f, k)
           Goal == /\ IsPair(t)
                   /\ \A q \in CachedFiles :
                        /\ Consistent(s.cache, s.log, q) => Consistent(t.cache, t.log, q)
                        /\ Absent(s.cache, q) /\ q # f => Absent(t.cache, q)
                        /\ Clean(s.cache, q) => Clean(t.cache, q)
                   /\ \E e \in t.cache : e.file = f /\ e.chunk = k
<1> SUFFICES Goal
  OBVIOUS
<1>1. \A e \in s.cache : e \in E <=> e.file = f /\ e.chunk = k
  BY DEF CachedChunk, CacheOf
<1>2. E \subseteq s.cache
  BY DEF CachedChunk, CacheOf
<1>3. CASE E # {}
  <2> DEFINE c == Using(s.cache, E)
  <2>1. t = [cache |-> c, log |-> s.log]
    <3>1. t = [s EXCEPT !.cache = c]
      BY <1>3 DEF WithChunk
    <3>2. QED
      BY <3>1 DEF IsPair
  <2>2. t.cache = c /\ t.log = s.log
    BY <2>1
  <2>3. IsCache(E) /\ s.cache \cup E = s.cache /\ IsCache(s.cache)
    BY <1>2 DEF IsPair, IsCache
  <2>4. IsCache(c) /\ From(c, s.cache) /\ From(s.cache, c)
    BY <2>3, UsingLemma
  <2> HIDE DEF c, t, E
  <2>5. PICK e \in s.cache : e.file = f /\ e.chunk = k
    BY <1>1, <1>2, <1>3
  <2>6. \E x \in c : x.file = f /\ x.chunk = k
    BY <2>4, <2>5 DEF From, Alike
  <2>7. IsPair(t)
    BY <2>1, <2>2, <2>4 DEF IsPair
  <2>8. \A q \in CachedFiles :
           /\ Consistent(s.cache, s.log, q) => Consistent(c, s.log, q)
           /\ Absent(s.cache, q) => Absent(c, q)
           /\ Clean(s.cache, q) => Clean(c, q)
    BY <2>4, FromLemma
  <2>9. QED
    BY <2>2, <2>6, <2>7, <2>8
<1>4. CASE E = {}
  <2> DEFINE c == Using(g.cache, {new})
  <2>1. IsPair(g) /\ Kept(s, g)
    BY GrabLemma, Zenon
  <2>2. t = [cache |-> c, log |-> g.log]
    <3>1. t = [g EXCEPT !.cache = c]
      BY <1>4 DEF WithChunk
    <3>2. QED
      BY <2>1, <3>1 DEF IsPair
  <2>3. t.cache = c /\ t.log = g.log
    BY <2>2
  <2>4. g.log[f] \cap HalvesOf(k) \in SUBSET Halves
    BY HalvesLemma
  <2>5. /\ new.file = f /\ new.chunk = k /\ ~new.dirty
        /\ new.good = g.log[f] \cap HalvesOf(k)
    <3>1. ~new.dirty
      BY DEF Entry
    <3>2. new.file = f /\ new.chunk = k /\ new.good = g.log[f] \cap HalvesOf(k)
      BY DEF Entry
    <3>3. QED
      BY <3>1, <3>2
  <2>6. IsEntry(new)
    BY <2>4, NewEntry, Zenon
  <2> HIDE DEF new, t, E, g
  <2>7. IsCache(c) /\ From(c, g.cache \cup {new}) /\ From(g.cache \cup {new}, c)
    BY <2>1, <2>6, UsingLemma DEF IsPair, IsCache
  <2> HIDE DEF c
  <2>8. \A e \in g.cache : ~(e.file = f /\ e.chunk = k)
    BY <1>1, <1>4, <2>1 DEF Kept, From, Alike
  <2>9. \E e \in c : e.file = f /\ e.chunk = k
    BY <2>5, <2>7 DEF From, Alike
  <2>10. ASSUME NEW q \in CachedFiles, Consistent(s.cache, s.log, q)
         PROVE  Consistent(c, g.log, q)
    <3>1. Consistent(g.cache, g.log, q)
      BY <2>1, <2>10 DEF Kept
    <3>2. ASSUME q = f PROVE new.good = HalvesOf(k)
      <4>1. ASSUME NEW h \in HalvesOf(k) PROVE h \in g.log[f]
        <5>1. h \in Halves
          BY HalvesLemma
        <5>2. CASE \E e \in g.cache : e.file = f /\ e.dirty /\ h \in HalvesOf(e.chunk)
          <6>1. PICK e \in g.cache : e.file = f /\ e.dirty /\ h \in HalvesOf(e.chunk)
            BY <5>2
          <6>2. e.chunk \in 1 .. NChunks
            BY <2>1, <6>1, EntryLemma DEF IsPair, IsCache
          <6>3. e.chunk = k
            BY <6>1, <6>2, HalvesLemma
          <6>4. QED
            BY <2>8, <6>1, <6>3
        <5>3. QED
          BY <3>1, <3>2, <5>1, <5>2 DEF Consistent
      <4>2. QED
        BY <2>5, <4>1
    <3>3. \A e \in g.cache \cup {new} : e.file = q => e.good = HalvesOf(e.chunk)
      BY <3>1, <3>2, <2>5 DEF Consistent
    <3>4. \A h \in Halves :
             \/ h \in g.log[q]
             \/ \E e \in g.cache \cup {new} : e.file = q /\ e.dirty /\ h \in HalvesOf(e.chunk)
      BY <3>1 DEF Consistent
    <3>5. Consistent(g.cache \cup {new}, g.log, q)
      BY <3>3, <3>4 DEF Consistent
    <3>6. QED
      BY <2>7, <3>5, FromLemma
  <2>11. ASSUME NEW q \in CachedFiles
         PROVE  /\ Absent(s.cache, q) /\ q # f => Absent(c, q)
                /\ Clean(s.cache, q) => Clean(c, q)
    <3>1. /\ Absent(s.cache, q) => Absent(g.cache, q)
          /\ Clean(s.cache, q) => Clean(g.cache, q)
      BY <2>1, FromLemma DEF Kept
    <3>2. /\ Absent(g.cache, q) /\ q # f => Absent(g.cache \cup {new}, q)
          /\ Clean(g.cache, q) => Clean(g.cache \cup {new}, q)
      BY <2>5 DEF Absent, Clean
    <3>3. QED
      BY <2>7, <3>1, <3>2, FromLemma
  <2>12. IsPair(t)
    BY <2>1, <2>2, <2>3, <2>7 DEF IsPair
  <2>13. QED
    BY <2>3, <2>9, <2>10, <2>11, <2>12
<1>5. QED
  BY <1>3, <1>4
-----------------------------------------------------------------------------
(* What is done to the entries one by one.                                 *)

\* An entry after its file's halves H were written elsewhere.
Aged(e, x, f, H) ==
    /\ e.file = x.file /\ e.chunk = x.chunk /\ e.dirty = x.dirty
    /\ e.good = IF x.file = f THEN x.good \ H ELSE x.good

LEMMA OutdatedLemma ==
  ASSUME NEW c, IsCache(c), NEW f, NEW H
  PROVE  /\ IsCache(Outdated(c, f, H))
         /\ \A e \in Outdated(c, f, H) : \E x \in c : Aged(e, x, f, H)
         /\ \A x \in c : \E e \in Outdated(c, f, H) : Aged(e, x, f, H)
<1> DEFINE o(x) == IF x.file = f THEN [x EXCEPT !.good = x.good \ H] ELSE x
<1>1. Outdated(c, f, H) = {o(x) : x \in c}
  BY DEF Outdated
<1>2. ASSUME NEW x \in c
      PROVE  IsEntry(o(x)) /\ Aged(o(x), x, f, H)
  <2>1. IsEntry(x) /\ x.good \ H \in SUBSET Halves
    BY EntryLemma DEF IsCache
  <2>2. CASE x.file = f
    <3> DEFINE y == [x EXCEPT !.good = x.good \ H]
    <3>1. /\ IsEntry(y) /\ y.file = x.file /\ y.chunk = x.chunk
          /\ y.good = x.good \ H /\ y.dirty = x.dirty
      BY <2>1, EntryLemma
    <3>2. o(x) = y
      BY <2>2
    <3> HIDE DEF y, o
    <3>3. QED
      BY <2>2, <3>1, <3>2 DEF Aged
  <2>3. CASE x.file # f
    BY <2>1, <2>3 DEF Aged
  <2>4. QED
    BY <2>2, <2>3
<1> HIDE DEF o
<1>3. QED
  BY <1>1, <1>2 DEF IsCache

\* An entry after half h of chunk k was written to the cache.
Wrote(e, x, f, k, h) ==
    /\ e.file = x.file /\ e.chunk = x.chunk
    /\ x.file = f /\ x.chunk = k => e.good = x.good \cup {h} /\ e.dirty
    /\ ~(x.file = f /\ x.chunk = k) => e.good = x.good /\ e.dirty = x.dirty

LEMMA WrittenLemma ==
  ASSUME NEW c, IsCache(c), NEW f, NEW k, NEW h \in Halves
  PROVE  /\ IsCache(Written(c, f, k, h))
         /\ \A e \in Written(c, f, k, h) : \E x \in c : Wrote(e, x, f, k, h)
         /\ \A x \in c : \E e \in Written(c, f, k, h) : Wrote(e, x, f, k, h)
<1> DEFINE o(x) == IF x \in CachedChunk(c, f, k)
                   THEN Entry(f, k, x.good \cup {h}, TRUE, x.used) ELSE x
<1>1. Written(c, f, k, h) = {o(x) : x \in c}
  BY DEF Written
<1>2. ASSUME NEW x \in c
      PROVE  IsEntry(o(x)) /\ Wrote(o(x), x, f, k, h)
  <2>1. /\ IsEntry(x) /\ x.good \cup {h} \in SUBSET Halves
        /\ x \in CachedChunk(c, f, k) <=> x.file = f /\ x.chunk = k
        /\ x.file \in CachedFiles /\ x.chunk \in 1 .. NChunks
    BY EntryLemma DEF IsCache, CachedChunk, CacheOf
  <2>2. CASE x.file = f /\ x.chunk = k
    <3> DEFINE y == Entry(f, k, x.good \cup {h}, TRUE, x.used)
    <3>1. f \in CachedFiles /\ k \in 1 .. NChunks /\ TRUE \in BOOLEAN
      BY <2>1, <2>2
    <3>2. IsEntry(y)
      BY <2>1, <3>1, NewEntry, Zenon
    <3>3. y.file = f /\ y.chunk = k /\ y.good = x.good \cup {h} /\ y.dirty
      BY DEF Entry
    <3>4. o(x) = y
      BY <2>1, <2>2
    <3> HIDE DEF y, o
    <3>5. QED
      BY <2>2, <3>2, <3>3, <3>4 DEF Wrote
  <2>3. CASE ~(x.file = f /\ x.chunk = k)
    BY <2>1, <2>3 DEF Wrote
  <2>4. QED
    BY <2>2, <2>3
<1> HIDE DEF o
<1>3. QED
  BY <1>1, <1>2 DEF IsCache
-----------------------------------------------------------------------------
(* The inductive invariant: the cache of a file in use is consistent with  *)
(* the log, an object on the free list has no entries, and a file that is  *)
(* not marked dirty has no dirty ones.                                     *)

CacheTypes ==
    /\ file \in [CachedFiles -> {"none", "named", "deleted"}]
    /\ fileSize \in [CachedFiles -> Nat] /\ hdrSize \in [CachedFiles -> Nat]
    /\ inDirty \in [CachedFiles -> BOOLEAN]
    /\ IsCache(srCache) /\ inLog \in LogType

FileInv(f) ==
    /\ file[f] = "named" => Consistent(srCache, inLog, f)
    /\ file[f] = "none" => Absent(srCache, f)
    /\ file[f] = "named" /\ ~inDirty[f] => hdrSize[f] = fileSize[f] /\ Clean(srCache, f)

CacheInv == CacheTypes /\ \A f \in CachedFiles : FileInv(f)

LEMMA NowLemma == CacheTypes => IsPair(Now) /\ Now.cache = srCache /\ Now.log = inLog
  BY DEF CacheTypes, IsPair, Now

LEMMA InitCache == CacheInit => CacheInv
<1> SUFFICES ASSUME CacheInit PROVE CacheInv
  OBVIOUS
<1>1. CacheTypes
  BY DEF CacheInit, CacheTypes, IsCache, LogType
<1>2. ASSUME NEW f \in CachedFiles PROVE FileInv(f)
  BY DEF CacheInit, FileInv, Absent
<1>3. QED
  BY <1>1, <1>2 DEF CacheInv

\* A short read loads the chunk and changes nothing of what is known of it.
LEMMA ReadShortLemma ==
  ASSUME CacheInv, NEW f \in CachedFiles, NEW k \in 1 .. NChunks, ReadShort(f, k)
  PROVE  CacheInv'
<1> DEFINE t == WithChunk(Now, f, k)
<1>1. CacheTypes /\ \A q \in CachedFiles : FileInv(q)
  BY DEF CacheInv
<1>2. /\ IsPair(t)
      /\ \A q \in CachedFiles :
           /\ Consistent(srCache, inLog, q) => Consistent(t.cache, t.log, q)
           /\ Absent(srCache, q) /\ q # f => Absent(t.cache, q)
           /\ Clean(srCache, q) => Clean(t.cache, q)
  <2>1. IsPair(Now) /\ Now.cache = srCache /\ Now.log = inLog
    BY <1>1, NowLemma
  <2>2. QED
    BY <2>1, WithChunkLemma
<1>3. /\ file[f] = "named" /\ srCache' = t.cache /\ inLog' = t.log
      /\ UNCHANGED <<file, fileSize, hdrSize, inDirty>>
  BY DEF ReadShort, Become
<1> HIDE DEF t
<1>4. CacheTypes'
  BY <1>1, <1>2, <1>3 DEF CacheTypes, IsPair
<1>5. ASSUME NEW q \in CachedFiles PROVE FileInv(q)'
  BY <1>1, <1>2, <1>3 DEF FileInv
<1>6. QED
  BY <1>4, <1>5 DEF CacheInv

\* A short write makes the log's copy old and the entry dirty.
LEMMA WriteShortLemma ==
  ASSUME CacheInv, NEW f \in CachedFiles, NEW h \in Halves, NEW room \in BOOLEAN,
         WriteShort(f, h, room)
  PROVE  CacheInv'
<1> DEFINE k == (h + 1) \div 2
           t == WithChunk(Now, f, k)
           c == Written(t.cache, f, k, h)
<1>1. CacheTypes /\ \A q \in CachedFiles : FileInv(q)
  BY DEF CacheInv
<1>2. k \in 1 .. NChunks /\ h \in HalvesOf(k)
  BY HalvesLemma
<1>3. /\ file[f] = "named" /\ UNCHANGED <<file, hdrSize>>
      /\ inDirty' = [inDirty EXCEPT ![f] = TRUE]
  BY DEF WriteShort
<1>4. inDirty' \in [CachedFiles -> BOOLEAN] /\ inDirty'[f]
      /\ \A q \in CachedFiles : q # f => inDirty'[q] = inDirty[q]
  BY <1>1, <1>3 DEF CacheTypes
<1>5. CASE UNCHANGED <<srCache, inLog, fileSize>>
  <2>1. CacheTypes'
    BY <1>1, <1>3, <1>4, <1>5 DEF CacheTypes
  <2>2. ASSUME NEW q \in CachedFiles PROVE FileInv(q)'
    BY <1>1, <1>3, <1>4, <1>5 DEF FileInv
  <2>3. QED
    BY <2>1, <2>2 DEF CacheInv
<1>6. CASE /\ srCache' = c /\ inLog' = [t.log EXCEPT ![f] = @ \ {h}]
           /\ fileSize' = [fileSize EXCEPT ![f] = IF h > @ THEN h ELSE @]
  <2>1. /\ IsPair(t)
        /\ \A q \in CachedFiles :
             /\ Consistent(srCache, inLog, q) => Consistent(t.cache, t.log, q)
             /\ Absent(srCache, q) /\ q # f => Absent(t.cache, q)
             /\ Clean(srCache, q) => Clean(t.cache, q)
        /\ \E e \in t.cache : e.file = f /\ e.chunk = k
    <3>1. IsPair(Now) /\ Now.cache = srCache /\ Now.log = inLog
      BY <1>1, NowLemma
    <3>2. QED
      BY <1>2, <3>1, WithChunkLemma
  <2>2. /\ IsCache(c)
        /\ \A e \in c : \E x \in t.cache : Wrote(e, x, f, k, h)
        /\ \A x \in t.cache : \E e \in c : Wrote(e, x, f, k, h)
    BY <2>1, WrittenLemma DEF IsPair
  <2>3. t.log \in LogType /\ h \in Nat
    BY <2>1 DEF IsPair, Halves
  <2>4. /\ inLog' \in LogType /\ inLog'[f] = t.log[f] \ {h}
        /\ \A q \in CachedFiles : q # f => inLog'[q] = t.log[q]
    BY <1>6, <2>3 DEF LogType
  <2>5. /\ fileSize' \in [CachedFiles -> Nat]
        /\ \A q \in CachedFiles : q # f => fileSize'[q] = fileSize[q]
    BY <1>1, <1>6, <2>3 DEF CacheTypes
  <2> HIDE DEF c, t, k
  <2>6. CacheTypes'
    BY <1>1, <1>3, <1>4, <1>6, <2>2, <2>4, <2>5 DEF CacheTypes
  <2>7. ASSUME NEW q \in CachedFiles, q # f PROVE FileInv(q)'
    <3>1. /\ Absent(t.cache, q) => Absent(c, q)
          /\ Clean(t.cache, q) => Clean(c, q)
      BY <2>2, <2>7 DEF Absent, Clean, Wrote
    <3>2. Consistent(t.cache, t.log, q) => Consistent(c, inLog', q)
      BY <2>2, <2>4, <2>7 DEF Consistent, Wrote
    <3>3. QED
      BY <1>1, <1>3, <1>4, <1>6, <2>1, <2>5, <2>7, <3>1, <3>2 DEF FileInv
  <2>8. Consistent(c, inLog', f)
    <3>1. Consistent(t.cache, t.log, f)
      BY <1>1, <1>3, <2>1 DEF FileInv
    <3>2. ASSUME NEW e \in c, e.file = f PROVE e.good = HalvesOf(e.chunk)
      <4>1. PICK x \in t.cache : Wrote(e, x, f, k, h)
        BY <2>2
      <4>2. x.good = HalvesOf(x.chunk)
        BY <3>1, <3>2, <4>1 DEF Consistent, Wrote
      <4>3. QED
        BY <1>2, <3>2, <4>1, <4>2 DEF Wrote
    <3>3. \E e \in c : e.file = f /\ e.chunk = k /\ e.dirty
      BY <2>1, <2>2 DEF Wrote
    <3>4. ASSUME NEW x \in t.cache, x.file = f, x.dirty
          PROVE  \E e \in c : e.file = f /\ e.dirty /\ e.chunk = x.chunk
      BY <2>2, <3>4 DEF Wrote
    <3>5. ASSUME NEW g \in Halves
          PROVE  \/ g \in inLog'[f]
                 \/ \E e \in c : e.file = f /\ e.dirty /\ g \in HalvesOf(e.chunk)
      <4>1. CASE g = h
        BY <1>2, <3>3, <4>1
      <4>2. CASE g # h /\ g \in t.log[f]
        BY <2>4, <4>2
      <4>3. CASE \E x \in t.cache : x.file = f /\ x.dirty /\ g \in HalvesOf(x.chunk)
        BY <3>4, <4>3
      <4>4. QED
        BY <3>1, <4>1, <4>2, <4>3 DEF Consistent
    <3>6. QED
      BY <3>2, <3>5 DEF Consistent
  <2>9. FileInv(f)'
    BY <1>3, <1>4, <1>6, <2>8 DEF FileInv
  <2>10. QED
    BY <2>6, <2>7, <2>9 DEF CacheInv
<1>7. QED
  BY <1>5, <1>6 DEF WriteShort

\* A whole write goes to the log and drops the entry; one that fails drops an
\* entry which, with FailOverDirty FALSE, was clean.
LEMMA WriteWholeLemma ==
  ASSUME ~FailOverDirty, CacheInv, NEW f \in CachedFiles, NEW k \in 1 .. NChunks,
         NEW room \in BOOLEAN, WriteWhole(f, k, room)
  PROVE  CacheInv'
<1>1. CacheTypes /\ \A q \in CachedFiles : FileInv(q)
  BY DEF CacheInv
<1>2. /\ file[f] = "named" /\ UNCHANGED <<file, hdrSize>>
      /\ inDirty' = [inDirty EXCEPT ![f] = TRUE]
  BY DEF WriteWhole
<1>3. inDirty' \in [CachedFiles -> BOOLEAN] /\ inDirty'[f]
      /\ \A q \in CachedFiles : q # f => inDirty'[q] = inDirty[q]
  BY <1>1, <1>2 DEF CacheTypes
<1>4. CASE room
  <2> DEFINE a == Outdated(srCache, f, HalvesOf(k))
             E == CachedChunk(a, f, k)
             c == Without(a, E)
  <2>1. /\ srCache' = c /\ inLog' = [inLog EXCEPT ![f] = @ \cup HalvesOf(k)]
        /\ fileSize' = [fileSize EXCEPT ![f] = IF 2 * k > @ THEN 2 * k ELSE @]
    BY <1>4 DEF WriteWhole, Overwritten, InvalidateChunkCache
  <2>2. /\ IsCache(a)
        /\ \A e \in a : \E x \in srCache : Aged(e, x, f, HalvesOf(k))
        /\ \A x \in srCache : \E e \in a : Aged(e, x, f, HalvesOf(k))
    BY <1>1, OutdatedLemma DEF CacheTypes
  <2>3. IsCache(c) /\ From(c, a \ E) /\ From(a \ E, c)
    BY <2>2, WithoutLemma, Zenon
  <2>4. \A e \in a : e \in a \ E <=> ~(e.file = f /\ e.chunk = k)
    BY DEF CachedChunk, CacheOf
  <2>5. HalvesOf(k) \in SUBSET Halves
    BY HalvesLemma
  <2>6. /\ inLog' \in LogType /\ inLog'[f] = inLog[f] \cup HalvesOf(k)
        /\ \A q \in CachedFiles : q # f => inLog'[q] = inLog[q]
    BY <1>1, <2>1, <2>5 DEF LogType, CacheTypes
  <2>7. /\ fileSize' \in [CachedFiles -> Nat]
        /\ \A q \in CachedFiles : q # f => fileSize'[q] = fileSize[q]
    BY <1>1, <2>1 DEF CacheTypes
  <2> HIDE DEF a, E, c
  <2>8. CacheTypes'
    BY <1>1, <1>2, <1>3, <2>1, <2>3, <2>6, <2>7 DEF CacheTypes
  <2>9. \A e \in c : \E x \in srCache :
           /\ Aged(e, x, f, HalvesOf(k)) /\ ~(x.file = f /\ x.chunk = k)
    <3>1. ASSUME NEW e \in c
          PROVE  \E x \in srCache :
                    Aged(e, x, f, HalvesOf(k)) /\ ~(x.file = f /\ x.chunk = k)
      <4>1. PICK y \in a \ E : Alike(e, y)
        BY <2>3 DEF From
      <4>2. y \in a /\ ~(y.file = f /\ y.chunk = k)
        BY <2>4, <4>1
      <4>3. PICK x \in srCache : Aged(y, x, f, HalvesOf(k))
        BY <2>2, <4>2
      <4>4. Aged(e, x, f, HalvesOf(k)) /\ ~(x.file = f /\ x.chunk = k)
        BY <4>1, <4>2, <4>3 DEF Aged, Alike
      <4>5. QED
        BY <4>4
    <3>2. QED
      BY <3>1
  <2>10. \A x \in srCache : ~(x.file = f /\ x.chunk = k) =>
            \E e \in c : Aged(e, x, f, HalvesOf(k))
    <3>1. ASSUME NEW x \in srCache, ~(x.file = f /\ x.chunk = k)
          PROVE  \E e \in c : Aged(e, x, f, HalvesOf(k))
      <4>1. PICK y \in a : Aged(y, x, f, HalvesOf(k))
        BY <2>2
      <4>2. y \in a \ E
        BY <2>4, <3>1, <4>1 DEF Aged
      <4>3. PICK e \in c : Alike(y, e)
        BY <2>3, <4>2 DEF From
      <4>4. Aged(e, x, f, HalvesOf(k))
        BY <4>1, <4>3 DEF Aged, Alike
      <4>5. QED
        BY <4>4
    <3>2. QED
      BY <3>1
  <2>11. ASSUME NEW q \in CachedFiles, q # f PROVE FileInv(q)'
    <3>a. ASSUME NEW e \in c, e.file = q PROVE \E x \in srCache : Alike(e, x)
      BY <2>9, <2>11, <3>a DEF Alike, Aged
    <3>b. ASSUME NEW x \in srCache, x.file = q PROVE \E e \in c : Alike(e, x)
      BY <2>10, <2>11, <3>b DEF Alike, Aged
    <3>1. /\ Absent(srCache, q) => Absent(c, q)
          /\ Clean(srCache, q) => Clean(c, q)
      BY <3>a DEF Absent, Clean, Alike
    <3>2. Consistent(srCache, inLog, q) => Consistent(c, inLog', q)
      BY <3>a, <3>b, <2>6, <2>11 DEF Consistent, Alike
    <3>3. QED
      BY <1>1, <1>2, <1>3, <2>1, <2>7, <2>11, <3>1, <3>2 DEF FileInv
  <2>12. Consistent(c, inLog', f)
    <3>1. Consistent(srCache, inLog, f)
      BY <1>1, <1>2 DEF FileInv
    <3>2. ASSUME NEW e \in c, e.file = f PROVE e.good = HalvesOf(e.chunk)
      <4>1. PICK x \in srCache : Aged(e, x, f, HalvesOf(k)) /\ ~(x.file = f /\ x.chunk = k)
        BY <2>9
      <4>2. x.file = f /\ x.chunk # k /\ e.chunk = x.chunk /\ e.good = x.good \ HalvesOf(k)
        BY <3>2, <4>1 DEF Aged
      <4>3. x.good = HalvesOf(x.chunk) /\ x.chunk \in 1 .. NChunks
        BY <1>1, <3>1, <4>2, EntryLemma DEF Consistent, CacheTypes, IsCache
      <4>4. HalvesOf(x.chunk) \ HalvesOf(k) = HalvesOf(x.chunk)
        BY <4>2, <4>3, HalvesLemma
      <4>5. QED
        BY <4>2, <4>3, <4>4
    <3>3. ASSUME NEW g \in Halves
          PROVE  \/ g \in inLog'[f]
                 \/ \E e \in c : e.file = f /\ e.dirty /\ g \in HalvesOf(e.chunk)
      <4>1. CASE g \in HalvesOf(k) \/ g \in inLog[f]
        BY <2>6, <4>1
      <4>2. CASE /\ g \notin HalvesOf(k)
                 /\ \E x \in srCache : x.file = f /\ x.dirty /\ g \in HalvesOf(x.chunk)
        <5>1. PICK x \in srCache : x.file = f /\ x.dirty /\ g \in HalvesOf(x.chunk)
          BY <4>2
        <5>2. x.chunk # k
          BY <4>2, <5>1
        <5>3. PICK e \in c : Aged(e, x, f, HalvesOf(k))
          BY <2>10, <5>2
        <5>4. QED
          BY <5>1, <5>3 DEF Aged
      <4>3. QED
        BY <3>1, <4>1, <4>2 DEF Consistent
    <3>4. QED
      BY <3>2, <3>3 DEF Consistent
  <2>13. FileInv(f)'
    BY <1>2, <1>3, <2>1, <2>12 DEF FileInv
  <2>14. QED
    BY <2>8, <2>11, <2>13 DEF CacheInv
<1>5. CASE ~room
  <2> DEFINE E == CachedChunk(srCache, f, k)
             c == Without(srCache, E)
  <2>1. /\ srCache' = c /\ UNCHANGED <<inLog, fileSize>>
        /\ \A e \in E : ~e.dirty
    BY <1>5 DEF WriteWhole, Overwritten, InvalidateChunkCache
  <2>2. IsCache(c) /\ From(c, srCache)
        /\ \A q \in CachedFiles : Consistent(srCache, inLog, q) => Consistent(c, inLog, q)
    <3> DEFINE t == [Now EXCEPT !.cache = c]
    <3>1. IsPair(Now) /\ Now.cache = srCache /\ Now.log = inLog
      BY <1>1, NowLemma
    <3>2. IsPair(t) /\ Kept(Now, t)
      BY <2>1, <3>1, DropLemma
    <3>3. t.cache = c /\ t.log = inLog
      BY <3>1 DEF IsPair
    <3> HIDE DEF t
    <3>4. QED
      BY <3>1, <3>2, <3>3 DEF IsPair, Kept
  <2> HIDE DEF c, E
  <2>3. CacheTypes'
    BY <1>1, <1>2, <1>3, <2>1, <2>2 DEF CacheTypes
  <2>4. ASSUME NEW q \in CachedFiles PROVE FileInv(q)'
    <3>1. /\ Absent(srCache, q) => Absent(c, q)
          /\ Clean(srCache, q) => Clean(c, q)
      BY <2>2, FromLemma
    <3>2. QED
      BY <1>1, <1>2, <1>3, <2>1, <2>2, <3>1 DEF FileInv
  <2>5. QED
    BY <2>3, <2>4 DEF CacheInv
<1>6. QED
  BY <1>4, <1>5

\* A header written leaves a file dirty exactly as long as it has dirty entries.
LEMMA HeaderLemma ==
  ASSUME CacheInv, NEW f \in CachedFiles, NEW c, NEW size \in Nat,
         UpdateObjectHeader(c, f, size)
  PROVE  /\ hdrSize' \in [CachedFiles -> Nat] /\ inDirty' \in [CachedFiles -> BOOLEAN]
         /\ hdrSize'[f] = size
         /\ ~inDirty'[f] => ~inDirty[f] \/ Clean(c, f)
         /\ \A q \in CachedFiles : q # f => hdrSize'[q] = hdrSize[q] /\ inDirty'[q] = inDirty[q]
<1>1. hdrSize \in [CachedFiles -> Nat] /\ inDirty \in [CachedFiles -> BOOLEAN]
  BY DEF CacheInv, CacheTypes
<1>2. /\ hdrSize' = [hdrSize EXCEPT ![f] = size]
      /\ inDirty' = [inDirty EXCEPT ![f] = StaysDirty(c, f)]
  BY DEF UpdateObjectHeader
<1>3. StaysDirty(c, f) \in BOOLEAN
  BY Zenon DEF StaysDirty
<1>4. ~StaysDirty(c, f) => ~inDirty[f] \/ Clean(c, f)
  BY DEF StaysDirty, DirtyOf, CacheOf, Clean
<1> HIDE DEF StaysDirty
<1>5. QED
  BY <1>1, <1>2, <1>3, <1>4

\* A file without entries has none that could be out of date.
LEMMA AbsentLemma ==
  ASSUME NEW c, NEW f, NEW H, Absent(c, f)
  PROVE  Outdated(c, f, H) = c
  BY DEF Absent, Outdated

\* Dropping all entries of a file leaves the others alone.
LEMMA InvalidateLemma ==
  ASSUME NEW c, IsCache(c), NEW l, NEW f
  PROVE  LET d == InvalidateWholeChunkCache(c, f) IN
         /\ IsCache(d) /\ Absent(d, f) /\ From(d, c)
         /\ \A q : q # f /\ Consistent(c, l, q) => Consistent(d, l, q)
<1> DEFINE E == CacheOf(c, f)
           d == Without(c, E)
<1>1. \A e \in c : e \in c \ E <=> e.file # f
  BY DEF CacheOf
<1>2. IsCache(d) /\ From(d, c \ E) /\ From(c \ E, d)
  BY WithoutLemma, Zenon
<1> HIDE DEF d, E
<1>3. From(d, c) /\ Absent(d, f)
  BY <1>1, <1>2 DEF From, Alike, Absent
<1>4. ASSUME NEW q, q # f, Consistent(c, l, q) PROVE Consistent(d, l, q)
  <2>1. ASSUME NEW e \in c, e.file = q PROVE \E x \in d : Alike(e, x)
    BY <1>1, <1>2, <1>4, <2>1 DEF From
  <2>2. QED
    BY <1>3, <1>4, <2>1 DEF From, Alike, Consistent
<1>5. QED
  BY <1>2, <1>3, <1>4, Zenon DEF InvalidateWholeChunkCache, d, E

\* After the flush the log has all of the file, and the header gets its new size.
LEMMA ResizeLemma ==
  ASSUME CacheInv, NEW f \in CachedFiles, NEW size \in 0 .. 2 * NChunks, Resize(f, size)
  PROVE  CacheInv'
<1> DEFINE s == FlushFilesChunkCache(Now, f)
           c == InvalidateWholeChunkCache(s.cache, f)
           gone == {h \in Halves : h > size}
<1>1. CacheTypes /\ \A q \in CachedFiles : FileInv(q)
  BY DEF CacheInv
<1>2. size \in Nat /\ gone \subseteq Halves
  BY CacheAssumption
<1>3. /\ file[f] = "named" /\ UNCHANGED file
      /\ IF size < fileSize[f]
         THEN /\ srCache' = Outdated(c, f, gone)
              /\ inLog' = [s.log EXCEPT ![f] = @ \cup gone]
         ELSE Become([s EXCEPT !.cache = c])
      /\ fileSize' = [fileSize EXCEPT ![f] = size]
      /\ IF size = fileSize[f] THEN UNCHANGED <<hdrSize, inDirty>>
         ELSE UpdateObjectHeader(c, f, size)
  BY DEF Resize, Become
<1>4. IsPair(Now) /\ Now.cache = srCache /\ Now.log = inLog
  BY <1>1, NowLemma
<1>5. IsPair(s) /\ Kept(Now, s) /\ Clean(s.cache, f)
  BY <1>4, FlushLemma, Zenon
<1>6. /\ IsCache(c) /\ Absent(c, f) /\ From(c, s.cache)
      /\ \A q : q # f /\ Consistent(s.cache, s.log, q) => Consistent(c, s.log, q)
  BY <1>5, InvalidateLemma, Zenon DEF IsPair
<1> HIDE DEF s, c, gone
<1>7. Halves \subseteq s.log[f]
  BY <1>1, <1>3, <1>4, <1>5 DEF FileInv, Kept, Consistent, Clean
<1>8. s.log \in LogType
  BY <1>5 DEF IsPair
<1>9. srCache' = c
  <2>1. Outdated(c, f, gone) = c
    BY <1>6, AbsentLemma
  <2>2. [s EXCEPT !.cache = c].cache = c
    BY <1>5 DEF IsPair
  <2>3. QED
    BY <1>3, <2>1, <2>2 DEF Become
<1>10. /\ inLog' \in LogType /\ Halves \subseteq inLog'[f]
       /\ \A q \in CachedFiles : q # f => inLog'[q] = s.log[q]
  <2>1. CASE size < fileSize[f]
    BY <1>2, <1>3, <1>7, <1>8, <2>1 DEF LogType
  <2>2. CASE ~(size < fileSize[f])
    <3>1. inLog' = [s EXCEPT !.cache = c].log
      BY <1>3, <2>2 DEF Become
    <3>2. [s EXCEPT !.cache = c].log = s.log
      BY <1>5 DEF IsPair
    <3>3. QED
      BY <1>7, <1>8, <3>1, <3>2
  <2>3. QED
    BY <2>1, <2>2
<1>11. /\ fileSize' \in [CachedFiles -> Nat] /\ fileSize'[f] = size
       /\ \A q \in CachedFiles : q # f => fileSize'[q] = fileSize[q]
  BY <1>1, <1>2, <1>3 DEF CacheTypes
<1>12. /\ hdrSize' \in [CachedFiles -> Nat] /\ inDirty' \in [CachedFiles -> BOOLEAN]
       /\ ~inDirty'[f] => hdrSize'[f] = size
       /\ \A q \in CachedFiles : q # f => hdrSize'[q] = hdrSize[q] /\ inDirty'[q] = inDirty[q]
  <2>1. CASE size = fileSize[f]
    BY <1>1, <1>3, <2>1 DEF CacheTypes, FileInv
  <2>2. CASE size # fileSize[f]
    BY <1>2, <1>3, <2>2, HeaderLemma
  <2>3. QED
    BY <2>1, <2>2
<1>13. CacheTypes'
  BY <1>1, <1>3, <1>6, <1>9, <1>10, <1>11, <1>12 DEF CacheTypes
<1>14. ASSUME NEW q \in CachedFiles, q # f PROVE FileInv(q)'
  <2>1. /\ Absent(srCache, q) => Absent(c, q)
        /\ Clean(srCache, q) => Clean(c, q)
    BY <1>4, <1>5, <1>6, FromLemma DEF Kept
  <2>2. Consistent(srCache, inLog, q) => Consistent(c, s.log, q)
    BY <1>4, <1>5, <1>6, <1>14 DEF Kept
  <2>3. Consistent(c, s.log, q) => Consistent(c, inLog', q)
    BY <1>10, <1>14 DEF Consistent
  <2>4. QED
    BY <1>1, <1>3, <1>9, <1>11, <1>12, <1>14, <2>1, <2>2, <2>3 DEF FileInv
<1>15. FileInv(f)'
  <2>1. Consistent(c, inLog', f) /\ Clean(c, f)
    BY <1>6, <1>10 DEF Absent, Consistent, Clean
  <2>2. QED
    BY <1>3, <1>9, <1>11, <1>12, <2>1 DEF FileInv
<1>16. QED
  BY <1>13, <1>14, <1>15 DEF CacheInv

\* close and fsync: the data go to the log and the size to the header.
LEMMA FlushFileLemma ==
  ASSUME CacheInv, NEW f \in CachedFiles, FlushFile(f)
  PROVE  CacheInv'
<1> DEFINE s == FlushFilesChunkCache(Now, f)
<1>1. CacheTypes /\ \A q \in CachedFiles : FileInv(q)
  BY DEF CacheInv
<1>2. /\ file[f] = "named" /\ UNCHANGED <<file, fileSize>>
      /\ srCache' = s.cache /\ inLog' = s.log
      /\ UpdateObjectHeader(s.cache, f, fileSize[f])
  BY DEF FlushFile, Become
<1>3. IsPair(Now) /\ Now.cache = srCache /\ Now.log = inLog
  BY <1>1, NowLemma
<1>4. IsPair(s) /\ Kept(Now, s) /\ Clean(s.cache, f)
  BY <1>3, FlushLemma, Zenon
<1> HIDE DEF s
<1>5. fileSize[f] \in Nat
  BY <1>1 DEF CacheTypes
<1>6. /\ hdrSize' \in [CachedFiles -> Nat] /\ inDirty' \in [CachedFiles -> BOOLEAN]
      /\ hdrSize'[f] = fileSize[f]
      /\ \A q \in CachedFiles : q # f => hdrSize'[q] = hdrSize[q] /\ inDirty'[q] = inDirty[q]
  BY <1>2, <1>5, HeaderLemma
<1>7. CacheTypes'
  BY <1>1, <1>2, <1>4, <1>6 DEF CacheTypes, IsPair
<1>8. ASSUME NEW q \in CachedFiles PROVE FileInv(q)'
  <2>1. /\ Absent(srCache, q) => Absent(s.cache, q)
        /\ Clean(srCache, q) => Clean(s.cache, q)
    BY <1>3, <1>4, FromLemma DEF Kept
  <2>2. Consistent(srCache, inLog, q) => Consistent(s.cache, s.log, q)
    BY <1>3, <1>4 DEF Kept
  <2>3. QED
    BY <1>1, <1>2, <1>4, <1>6, <2>1, <2>2 DEF FileInv
<1>9. QED
  BY <1>7, <1>8 DEF CacheInv

\* A header alone: the file stays dirty while its data are in the cache only.
LEMMA SetAttributesLemma ==
  ASSUME CacheInv, NEW f \in CachedFiles, SetAttributes(f)
  PROVE  CacheInv'
<1>1. CacheTypes /\ \A q \in CachedFiles : FileInv(q)
  BY DEF CacheInv
<1>2. /\ file[f] = "named" /\ UNCHANGED <<file, fileSize, inLog, srCache>>
      /\ UpdateObjectHeader(srCache, f, fileSize[f])
  BY DEF SetAttributes
<1>3. fileSize[f] \in Nat
  BY <1>1 DEF CacheTypes
<1>4. /\ hdrSize' \in [CachedFiles -> Nat] /\ inDirty' \in [CachedFiles -> BOOLEAN]
      /\ hdrSize'[f] = fileSize[f]
      /\ ~inDirty'[f] => ~inDirty[f] \/ Clean(srCache, f)
      /\ \A q \in CachedFiles : q # f => hdrSize'[q] = hdrSize[q] /\ inDirty'[q] = inDirty[q]
  BY <1>2, <1>3, HeaderLemma
<1>5. CacheTypes'
  BY <1>1, <1>2, <1>4 DEF CacheTypes
<1>6. ASSUME NEW q \in CachedFiles PROVE FileInv(q)'
  BY <1>1, <1>2, <1>4 DEF FileInv
<1>7. QED
  BY <1>5, <1>6 DEF CacheInv

\* The life of an object: only one without entries goes to the free list.
LEMMA ObjectLemma ==
  ASSUME CacheInv, NEW f \in CachedFiles, CreateFile(f) \/ DeleteFile(f) \/ FreeObject(f)
  PROVE  CacheInv'
<1>1. CacheTypes /\ \A q \in CachedFiles : FileInv(q)
  BY DEF CacheInv
<1>2. CASE CreateFile(f)
  <2>1. Absent(srCache, f)
    BY <1>1, <1>2 DEF CreateFile, FileInv
  <2>2. srCache' = srCache
    BY <1>2, <2>1, AbsentLemma DEF CreateFile
  <2>3. /\ file' \in [CachedFiles -> {"none", "named", "deleted"}]
        /\ fileSize' \in [CachedFiles -> Nat] /\ hdrSize' \in [CachedFiles -> Nat]
        /\ inDirty' \in [CachedFiles -> BOOLEAN] /\ inLog' \in LogType
        /\ file'[f] = "named" /\ fileSize'[f] = 0 /\ hdrSize'[f] = 0 /\ inLog'[f] = Halves
        /\ \A q \in CachedFiles : q # f =>
             /\ file'[q] = file[q] /\ fileSize'[q] = fileSize[q] /\ hdrSize'[q] = hdrSize[q]
             /\ inDirty'[q] = inDirty[q] /\ inLog'[q] = inLog[q]
    BY <1>1, <1>2 DEF CreateFile, CacheTypes, LogType
  <2>4. CacheTypes'
    BY <1>1, <2>2, <2>3 DEF CacheTypes
  <2>5. ASSUME NEW q \in CachedFiles, q # f PROVE FileInv(q)'
    BY <1>1, <2>2, <2>3, <2>5 DEF FileInv, Consistent
  <2>6. FileInv(f)'
    BY <2>1, <2>2, <2>3 DEF FileInv, Consistent, Absent, Clean
  <2>7. QED
    BY <2>4, <2>5, <2>6 DEF CacheInv
<1>3. CASE DeleteFile(f)
  <2>1. /\ UNCHANGED <<fileSize, hdrSize, inDirty, inLog, srCache>>
        /\ file' \in [CachedFiles -> {"none", "named", "deleted"}]
        /\ file'[f] = "deleted" /\ \A q \in CachedFiles : q # f => file'[q] = file[q]
    BY <1>1, <1>3 DEF DeleteFile, CacheTypes
  <2>2. CacheTypes'
    BY <1>1, <2>1 DEF CacheTypes
  <2>3. ASSUME NEW q \in CachedFiles PROVE FileInv(q)'
    BY <1>1, <2>1 DEF FileInv
  <2>4. QED
    BY <2>2, <2>3 DEF CacheInv
<1>4. CASE FreeObject(f)
  <2>1. /\ UNCHANGED <<fileSize, hdrSize, inDirty, inLog>>
        /\ srCache' = InvalidateWholeChunkCache(srCache, f)
        /\ file' \in [CachedFiles -> {"none", "named", "deleted"}]
        /\ file'[f] = "none" /\ \A q \in CachedFiles : q # f => file'[q] = file[q]
    BY <1>1, <1>4 DEF FreeObject, CacheTypes
  <2>2. /\ IsCache(srCache') /\ Absent(srCache', f) /\ From(srCache', srCache)
        /\ \A q : q # f /\ Consistent(srCache, inLog, q) => Consistent(srCache', inLog, q)
    BY <1>1, <2>1, InvalidateLemma DEF CacheTypes
  <2>3. CacheTypes'
    BY <1>1, <2>1, <2>2 DEF CacheTypes
  <2>4. ASSUME NEW q \in CachedFiles PROVE FileInv(q)'
    <3>1. /\ Absent(srCache, q) => Absent(srCache', q)
          /\ Clean(srCache, q) => Clean(srCache', q)
      BY <2>2, FromLemma
    <3>2. QED
      BY <1>1, <2>1, <2>2, <3>1 DEF FileInv
  <2>5. QED
    BY <2>3, <2>4 DEF CacheInv
<1>5. QED
  BY <1>2, <1>3, <1>4

LEMMA CacheInvariant ==
  ASSUME ~FailOverDirty
  PROVE  CacheSpec => []CacheInv
<1>1. CacheInv /\ [CacheNext]_cacheVars => CacheInv'
  <2> SUFFICES ASSUME CacheInv, [CacheNext]_cacheVars PROVE CacheInv'
    OBVIOUS
  <2>1. ASSUME NEW f \in CachedFiles, NEW k \in 1 .. NChunks, ReadShort(f, k)
        PROVE  CacheInv'
    BY <2>1, ReadShortLemma
  <2>2. ASSUME NEW f \in CachedFiles, NEW k \in 1 .. NChunks, NEW room \in BOOLEAN,
               WriteWhole(f, k, room)
        PROVE  CacheInv'
    BY <2>2, WriteWholeLemma, Zenon
  <2>3. ASSUME NEW f \in CachedFiles, NEW h \in Halves, NEW room \in BOOLEAN,
               WriteShort(f, h, room)
        PROVE  CacheInv'
    BY <2>3, WriteShortLemma, Zenon
  <2>4. ASSUME NEW f \in CachedFiles, NEW size \in 0 .. 2 * NChunks, Resize(f, size)
        PROVE  CacheInv'
    BY <2>4, ResizeLemma
  <2>5. ASSUME NEW f \in CachedFiles,
               \/ SetAttributes(f) \/ FlushFile(f)
               \/ CreateFile(f) \/ DeleteFile(f) \/ FreeObject(f)
        PROVE  CacheInv'
    BY <2>5, SetAttributesLemma, FlushFileLemma, ObjectLemma
  <2>6. CASE UNCHANGED cacheVars
    BY <2>6 DEF cacheVars, CacheInv, CacheTypes, FileInv
  <2>7. QED
    BY <2>1, <2>2, <2>3, <2>4, <2>5, <2>6, Zenon DEF CacheNext
<1>2. QED
  BY <1>1, InitCache, PTL DEF CacheSpec

\* A read gets what was written last, for any files and a cache of any size, where
\* no write fails over a dirty entry.
THEOREM ReadsCorrect ==
  ASSUME ~FailOverDirty
  PROVE  CacheSpec => []ReadsLatest
<1>1. CacheInv => ReadsLatest
  <2> SUFFICES ASSUME CacheInv, NEW f \in CachedFiles, file[f] = "named",
                      NEW k \in 1 .. NChunks
               PROVE  /\ CachedChunk(srCache, f, k) = {} => HalvesOf(k) \subseteq inLog[f]
                      /\ \A e \in CachedChunk(srCache, f, k) : HalvesOf(k) = e.good
    BY DEF ReadsLatest
  <2>1. Consistent(srCache, inLog, f) /\ IsCache(srCache)
    BY DEF CacheInv, CacheTypes, FileInv
  <2>2. \A e \in CachedChunk(srCache, f, k) : HalvesOf(k) = e.good
    BY <2>1 DEF CachedChunk, CacheOf, Consistent
  <2>3. ASSUME CachedChunk(srCache, f, k) = {}, NEW h \in HalvesOf(k)
        PROVE  h \in inLog[f]
    <3>1. h \in Halves
      BY HalvesLemma
    <3>2. CASE \E e \in srCache : e.file = f /\ e.dirty /\ h \in HalvesOf(e.chunk)
      <4>1. PICK e \in srCache : e.file = f /\ e.dirty /\ h \in HalvesOf(e.chunk)
        BY <3>2
      <4>2. e.chunk = k
        BY <2>1, <4>1, EntryLemma, HalvesLemma DEF IsCache
      <4>3. e \in CachedChunk(srCache, f, k)
        BY <4>1, <4>2 DEF CachedChunk, CacheOf
      <4>4. QED
        BY <2>3, <4>3
    <3>3. QED
      BY <2>1, <3>1, <3>2 DEF Consistent
  <2>4. QED
    BY <2>2, <2>3
<1>2. QED
  BY <1>1, CacheInvariant, PTL

\* A file not marked dirty has its data and its size on the flash: close and fsync
\* may do nothing for it.
THEOREM CleanCorrect ==
  ASSUME ~FailOverDirty
  PROVE  CacheSpec => []CleanIsStored
<1>1. CacheInv => CleanIsStored
  <2> SUFFICES ASSUME CacheInv, NEW f \in CachedFiles, file[f] = "named", ~inDirty[f]
               PROVE  inLog[f] = Halves /\ hdrSize[f] = fileSize[f]
    BY DEF CleanIsStored
  <2>1. /\ Consistent(srCache, inLog, f) /\ Clean(srCache, f) /\ hdrSize[f] = fileSize[f]
        /\ inLog[f] \in SUBSET Halves
    BY DEF CacheInv, CacheTypes, FileInv, LogType
  <2>2. QED
    BY <2>1 DEF Consistent, Clean
<1>2. QED
  BY <1>1, CacheInvariant, PTL
=============================================================================
