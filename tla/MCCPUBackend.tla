---------------------------- MODULE MCCPUBackend ----------------------------
(***************************************************************************)
(* CPUBackend for TLC: three keys, objects that take a third, two thirds   *)
(* and more than the whole of a store of three bytes.                      *)
(***************************************************************************)
EXTENDS CPUBackend

CONSTANTS k1, k2, k3, small, large, oversize

MCKey == {k1, k2, k3}
MCObj == {small, large, oversize}
MCNbytes == [o \in MCObj |-> CASE o = small -> 1 [] o = large -> 2 [] o = oversize -> 4]
=============================================================================
