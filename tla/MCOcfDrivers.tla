---------------------------- MODULE MCOcfDrivers ----------------------------
(* Instances of OcfDrivers: an accelerator that comes and goes (hw) and    *)
(* one that is built in (kd), next to cryptosoft (soft).                   *)
EXTENDS OcfDrivers

CONSTANTS hw, kd, soft, u1, u2, k1, k2

AllDrivers      == {hw, kd, soft}
HardwareDrivers == {hw, kd}
BuiltIn         == {kd, soft}
AllUsers        == {u1, u2}
AllKeys         == {k1, k2}
NoUsers         == {}
=============================================================================
