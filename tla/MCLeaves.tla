------------------------------ MODULE MCLeaves ------------------------------
(***************************************************************************)
(* One instance each of five parts that have nothing to do with each       *)
(* other: the netdev LED trigger, the VLANs of the RTL8366S, and of YAFFS2 *)
(* the code over its tags, the checkpoint and the cache. A behavior is a   *)
(* behavior of one of them, the others staying where they start.           *)
(***************************************************************************)
EXTENDS LedNetdev, Rtl8366Vlan, YaffsEcc, YaffsCheckpt, YaffsCache

CONSTANTS eth0, eth1, f1, f2

AllDevs == {eth0, eth1}

(* Two objects that files use in turn.                                     *)
TwoFiles == {f1, f2}

(* One port, or both with the CPU's first.                                 *)
PortLists == {<<0>>, <<1, 0>>}

(* Empty tags, and bytes with two bits or, where the two are one, with one.*)
TagBlocks == {[i \in 0 .. 15 |-> {}],
              [i \in 0 .. 15 |-> {i % 8, (i \div 2) % 8}]}

VARIABLE part    \* the part that is looked at

Init ==
  /\ LedInit /\ VlanInit /\ CkptInit /\ CacheInit
  /\ part \in {"led", "vlan", "ecc", "ckpt", "cache"}
  /\ IF part = "ecc" THEN EccInit
     ELSE EccInit /\ written = [i \in 0 .. 15 |-> {}]

Next ==
  \/ part = "led"  /\ LedNext  /\ UNCHANGED <<vlanVars, eccVars, ckptVars, cacheVars, part>>
  \/ part = "vlan" /\ VlanNext /\ UNCHANGED <<ledVars, eccVars, ckptVars, cacheVars, part>>
  \/ part = "ecc"  /\ EccNext  /\ UNCHANGED <<ledVars, vlanVars, ckptVars, cacheVars, part>>
  \/ part = "ckpt" /\ CkptNext /\ UNCHANGED <<ledVars, vlanVars, eccVars, cacheVars, part>>
  \/ part = "cache" /\ CacheNext /\ UNCHANGED <<ledVars, vlanVars, eccVars, ckptVars, part>>

Spec == Init /\ [][Next]_<<ledVars, vlanVars, eccVars, ckptVars, cacheVars, part>>
=============================================================================
