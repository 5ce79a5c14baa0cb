---------------------------- MODULE MCDiskBackend ----------------------------
(***************************************************************************)
(* Instance of DiskBackend for TLC: two threads that write, read and       *)
(* remove the two chunks of one cache.                                     *)
(***************************************************************************)
EXTENDS DiskBackend

CONSTANTS t1, t2, k1, k2, o1, d1

MCThread == {t1, t2}
MCKey == {k1, k2}
MCObj == {o1}
MCDir == {d1}
MCDirOf == [k \in Key |-> d1]
Always == {TRUE}
=============================================================================
