----------------------------- MODULE MCOcfQueue -----------------------------
(* Small instances of OcfQueue: three callers of a hardware driver with    *)
(* one slot and one caller of another driver, so that refusal, blocking,   *)
(* overtaking and a queue with requests of both drivers all happen.        *)
EXTENDS OcfQueue

CONSTANTS r1, r2, r3, r4, hw, other

MCReqs    == {r1, r2, r3, r4}
MCDrivers == {hw, other}
MCHidOf   == [r \in MCReqs |-> IF r = r4 THEN other ELSE hw]

=============================================================================
