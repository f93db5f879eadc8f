----------------------------- MODULE Rtl8366Vlan -----------------------------
(***************************************************************************)
(* The VLANs of a Realtek RTL8366S switch as the driver keeps them         *)
(* (rtl8366_smi.c, rtl8366s.c). The chip has a table of all VLANs (the "4K *)
(* table"), a few member configurations (MC) that the ports are pointed at *)
(* by number, and of each port the number of the MC whose VLAN is its      *)
(* PVID. The driver keeps nothing: it looks for entries in the chip.       *)
(*                                                                         *)
(* The switch configuration core runs one call at a time, so that a call   *)
(* is an action; one about several ports is a step for each of them, and   *)
(* no other call gets in between. The registers are reached over a         *)
(* two-wire bus whose accesses may fail: a call then stops where it is and *)
(* reports -EIO, and what it has written stays. An MC takes two writes,    *)
(* VLAN number first. A member stands for a port's bit in member and in    *)
(* untag.                                                                  *)
(***************************************************************************)
EXTENDS Integers, Sequences, FiniteSets, Functions

CONSTANTS
  NumPorts,  \* num_ports; the last one is the CPU's
  NumMc,     \* num_vlan_mc: member configurations
  NumVids,   \* RTL8366S_NUM_VIDS: lines of the 4K table
  Fids,      \* filtering databases asked for (bound)
  CallPorts, \* lists of ports a VLAN is set with (bound)
  MaxCalls   \* calls, failed ones included (bound)

Ports   == 0 .. NumPorts - 1
CpuPort == NumPorts - 1
Entries == 0 .. NumMc - 1
Vids    == 0 .. NumVids - 1
Cfg     == [member : SUBSET Ports, fid : Nat]
Nothing == [member |-> {}, fid |-> 0]

ASSUME VlanAssumption ==
  /\ NumPorts \in Nat \ {0} /\ NumMc \in Nat /\ NumVids \in Nat
  /\ NumPorts < NumMc /\ NumMc < NumVids
  /\ Fids \subseteq Nat /\ CallPorts \subseteq Seq(Ports)
  /\ MaxCalls \in Nat

VARIABLES
  chip,      \* the registers: table, mc and mcIndex
  vlan4k,    \* smi->vlan4k_enabled
  vlanRet,   \* the answer of the last call
  addressed, \* the ports whose PVID the last call was about
  unsettled, \* VLANs a call that failed half-way has been about
  setting,   \* swconfig_set_vlan_ports: what is left to do
  calls      \* calls so far

vlanVars == <<chip, vlan4k, vlanRet, addressed, unsettled, setting, calls>>

(* The call that sets the ports of VLAN vid: by whom ("core", "driver"),   *)
(* all of its ports and those still to be looked at.                       *)
Setting(by, v, ports, todo) == [by |-> by, vid |-> v, ports |-> ports, todo |-> todo]
NoSetting == Setting("none", 0, <<>>, <<>>)

(* An MC: a VLAN's number and its line of the 4K table.                    *)
Mc(v, c) == [vid |-> v, member |-> c.member, fid |-> c.fid]
CfgOf(e) == [member |-> e.member, fid |-> e.fid]

(* rtl8366_get_pvid                                                        *)
GetPvid(s, p) == s.mc[s.mcIndex[p]].vid

-----------------------------------------------------------------------------
(* A call so far: the chip, and 0 or the error it stops with.              *)
Call(s, r) == [chip |-> s, ret |-> r]

(* Writing one MC: over, or broken off before or between the two words.    *)
SetVlanMc(s, i, e) ==
  {Call([s EXCEPT !.mc[i] = e], "0"), Call(s, "EIO"),
   Call([s EXCEPT !.mc[i].vid = e.vid], "EIO")}

SetMcIndex(s, p, i) == {Call([s EXCEPT !.mcIndex[p] = i], "0"), Call(s, "EIO")}

(* rtl8366_mc_is_used                                                      *)
McIsUsed(s, i) == \E p \in Ports : s.mcIndex[p] = i

LeastOf(S) == CHOOSE i \in S : \A j \in S : i <= j

\* Mutant of Victims: an entry is taken for free if it has no members.
VictimsWithoutMembers(s) == {i \in Entries : s.mc[i].member = {}}

\* Mutant of Victims: only an entry that no VLAN is in can be had.
VictimsEmptyOnly(s) ==
  {i \in Entries : ~McIsUsed(s, i) /\ s.mc[i].vid = 0 /\ s.mc[i].member = {}}

(* What is replaced when no entry has the VLAN and none is empty.          *)
Victims(s) == {i \in Entries : ~McIsUsed(s, i)}

(* Where rtl8366_set_pvid puts a VLAN: at the entry that has it, or in an  *)
(* empty one, or in place of one that no port points at.                   *)
Holding(s, v) == {i \in Entries : s.mc[i].vid = v}
Empty(s)      == {i \in Entries : s.mc[i].vid = 0 /\ s.mc[i].member = {}}

\* Mutant of Fill: the 4K table is not read for the new entry.
FillStale(s, i, v) == Mc(v, CfgOf(s.mc[i]))

Fill(s, i, v) == Mc(v, s.table[v])

(* rtl8366_set_pvid                                                        *)
SetPvid(s, p, v) ==
  LET put(i) == {o \in SetVlanMc(s, i, Fill(s, i, v)) : o.ret # "0"}
                \cup SetMcIndex([s EXCEPT !.mc[i] = Fill(s, i, v)], p, i)
  IN
  IF Holding(s, v) # {} THEN SetMcIndex(s, p, LeastOf(Holding(s, v)))
  ELSE {Call(s, "EIO")} \cup
       IF v \notin Vids THEN {Call(s, "EINVAL")}
       ELSE IF Empty(s) # {} THEN put(LeastOf(Empty(s)))
       ELSE IF Victims(s) # {} THEN put(LeastOf(Victims(s)))
       ELSE {Call(s, "ENOSPC")}

(* rtl8366_set_vlan: the line of the 4K table, and the MC if there is one. *)
SetVlan(s, v, c) ==
  LET t == [s EXCEPT !.table[v] = c] IN
  {Call(s, "EIO"), Call(t, "EIO")} \cup
    IF Holding(t, v) = {} THEN {Call(t, "0")}
    ELSE SetVlanMc(t, LeastOf(Holding(t, v)), Mc(v, c))

(* rtl8366_reset_vlan: all MC are cleared, in order. The table stays, and  *)
(* so do the indices.                                                      *)
Cleared(s, n) ==
  [s EXCEPT !.mc = [i \in Entries |-> IF i < n THEN Mc(0, Nothing) ELSE @[i]]]
ResetVlan(s) ==
  {Call(Cleared(s, NumMc), "0")} \cup
  UNION {{o \in SetVlanMc(Cleared(s, n), n, Mc(0, Nothing)) : o.ret # "0"}
           : n \in Entries}

(* rtl8366s_reset_chip, external: the registers keep what they have, or    *)
(* come back clear.                                                        *)
ResetChip(s) ==
  {s, [table |-> [v \in Vids |-> Nothing],
       mc |-> [i \in Entries |-> Mc(0, Nothing)],
       mcIndex |-> [p \in Ports |-> 0]]}

IsVlanValid(v) == v # 0 /\ v < (IF vlan4k THEN NumVids - 1 ELSE NumMc)

-----------------------------------------------------------------------------
(* Outcome o, about VLAN v. A call that wrote and failed leaves v          *)
(* unsettled; a line written with its MC settles it.                       *)
Leaves(o, v, settles) ==
  /\ chip' = o.chip
  /\ unsettled' = IF o.ret # "0" /\ o.chip # chip THEN unsettled \cup {v}
                  ELSE IF o.ret = "0" /\ settles THEN unsettled \ {v}
                  ELSE unsettled

(* rtl8366_init_vlan, as the driver starts: each port with the CPU port in *)
(* a VLAN of its own, numbered from 1.                                     *)
OwnVlan(p) ==
  [member |-> IF p = CpuPort THEN Ports ELSE {p, CpuPort}, fid |-> 0]

VlanInit ==
  /\ chip = [table |-> [v \in Vids |-> IF v - 1 \in Ports THEN OwnVlan(v - 1)
                                       ELSE Nothing],
             mc |-> [i \in Entries |-> IF i \in Ports THEN Mc(i + 1, OwnVlan(i))
                                       ELSE Mc(0, Nothing)],
             mcIndex |-> [p \in Ports |-> p]]
  /\ vlan4k = FALSE /\ vlanRet = "0" /\ addressed = {}
  /\ unsettled = {} /\ setting = NoSetting /\ calls = 0

(* rtl8366_sw_set_port_pvid: any number the user gives.                    *)
SwSetPortPvid(p, v) ==
  /\ \E o \in SetPvid(chip, p, v) : Leaves(o, v, FALSE) /\ vlanRet' = o.ret
  /\ addressed' = {p} /\ UNCHANGED <<vlan4k, setting>>

(* swconfig_set_vlan_ports is called.                                      *)
SwSetVlanPorts(v, ports) ==
  /\ setting' = Setting("core", v, ports, ports)
  /\ addressed' = Range(ports)
  /\ UNCHANGED <<chip, vlan4k, vlanRet, unsettled>>

(* It moves each untagged port to the VLAN first, whatever comes of that   *)
(* (a tagged one it leaves),                                               *)
MovePort ==
  /\ setting.by = "core" /\ setting.todo # <<>>
  /\ \E o \in {Call(chip, "0")} \cup SetPvid(chip, Head(setting.todo), setting.vid) :
       Leaves(o, setting.vid, FALSE)
  /\ setting' = [setting EXCEPT !.todo = Tail(@)]
  /\ UNCHANGED <<vlan4k, vlanRet, addressed, calls>>

(* and calls rtl8366_sw_set_vlan_ports.                                    *)
CallDriver ==
  /\ setting.by = "core" /\ setting.todo = <<>>
  /\ IF IsVlanValid(setting.vid)
     THEN /\ setting' = [setting EXCEPT !.by = "driver", !.todo = setting.ports]
          /\ UNCHANGED vlanRet
     ELSE setting' = NoSetting /\ vlanRet' = "EINVAL"
  /\ UNCHANGED <<chip, vlan4k, addressed, unsettled, calls>>

(* It too moves each port, "to ensure that we have a valid MC entry for    *)
(* this VLAN", and stops where that fails,                                 *)
SetVlanPort ==
  /\ setting.by = "driver" /\ setting.todo # <<>>
  /\ \E o \in SetPvid(chip, Head(setting.todo), setting.vid) :
       /\ Leaves(o, setting.vid, FALSE)
       /\ IF o.ret = "0"
          THEN setting' = [setting EXCEPT !.todo = Tail(@)] /\ UNCHANGED vlanRet
          ELSE setting' = NoSetting /\ vlanRet' = o.ret
  /\ UNCHANGED <<vlan4k, addressed, calls>>

(* and then sets the members.                                              *)
SetVlanMembers ==
  /\ setting.by = "driver" /\ setting.todo = <<>>
  /\ \E o \in SetVlan(chip, setting.vid, [member |-> Range(setting.ports), fid |-> 0]) :
       Leaves(o, setting.vid, TRUE) /\ vlanRet' = o.ret
  /\ setting' = NoSetting
  /\ UNCHANGED <<vlan4k, addressed, calls>>

(* rtl8366_sw_set_vlan_fid                                                 *)
SwSetVlanFid(v, f) ==
  /\ IsVlanValid(v)
  /\ \E o \in SetVlan(chip, v, [member |-> chip.table[v].member, fid |-> f]) :
       Leaves(o, v, TRUE) /\ vlanRet' = o.ret
  /\ addressed' = {} /\ UNCHANGED <<vlan4k, setting>>

(* rtl8366_sw_set_vlan_enable, for the MC table and for the 4K table.      *)
SwSetVlanEnable ==
  /\ \/ vlanRet' = "0" /\ vlan4k' \in BOOLEAN
     \/ vlanRet' = "EIO" /\ vlan4k' \in {vlan4k, FALSE}
  /\ addressed' = {}
  /\ UNCHANGED <<chip, unsettled, setting>>

(* rtl8366s_sw_reset_switch: that the VLANs could not be switched off goes *)
(* unnoticed; that they could not be switched on again is reported.        *)
SwResetSwitch ==
  /\ \E s \in ResetChip(chip) : \E o \in ResetVlan(s) :
       /\ chip' = o.chip /\ vlanRet' \in {o.ret, "EIO"}
       /\ unsettled' = IF o.ret = "0" THEN {} ELSE Vids
  /\ addressed' = Ports /\ vlan4k' \in {vlan4k, FALSE}
  /\ UNCHANGED setting

VlanCall ==
  /\ setting = NoSetting /\ calls < MaxCalls /\ calls' = calls + 1
  /\ \/ \E p \in Ports, v \in 0 .. NumVids : SwSetPortPvid(p, v)
     \/ \E v \in Vids, ports \in CallPorts : SwSetVlanPorts(v, ports)
     \/ \E v \in Vids, f \in Fids : SwSetVlanFid(v, f)
     \/ SwSetVlanEnable
     \/ SwResetSwitch

VlanNext == VlanCall \/ MovePort \/ CallDriver \/ SetVlanPort \/ SetVlanMembers

VlanSpec == VlanInit /\ [][VlanNext]_vlanVars

-----------------------------------------------------------------------------
(* The switch forwards by an MC as by the VLAN's line of the 4K table: no  *)
(* VLAN is in two MC, and each MC of a real VLAN is what its line says,    *)
(* whatever entries were reused for it - unless a call that was broken off *)
(* in between has told the user so.                                        *)
McMirrors ==
  \A i \in Entries :
    chip.mc[i].vid # 0 =>
      /\ Holding(chip, chip.mc[i].vid) = {i}
      /\ chip.mc[i].vid \notin unsettled =>
           CfgOf(chip.mc[i]) = chip.table[chip.mc[i].vid]

(* A port leaves a real VLAN only by a call about that port, or by a       *)
(* reset: an entry taken for another VLAN is never one that a port has.    *)
PvidKept ==
  [][\A p \in Ports :
       GetPvid(chip, p) # 0 /\ GetPvid(chip', p) # GetPvid(chip, p)
         => p \in addressed']_vlanVars

(* There are more MC than ports, so that "all VLAN member configurations   *)
(* are in use" is an answer nobody gets.                                   *)
PvidNeverRefused == vlanRet # "ENOSPC"
=============================================================================
