-------------------------- MODULE MCTieredBackend --------------------------
(***************************************************************************)
(* Instances of TieredBackend for TLC: two keys and a hot tier of two      *)
(* bytes, so that small objects fit side by side and a large one evicts    *)
(* the other key.                                                          *)
(***************************************************************************)
EXTENDS TieredBackend, TLC

CONSTANTS t1, t2, k1, k2, small, large

One == {t1}
Two == {t1, t2}
MCKey == {k1, k2}
OneObj == {small}
MCObj == {small, large}
MCNbytes == [o \in Obj |-> IF o = small THEN 1 ELSE 2]
Symmetry == Permutations(Two) \union Permutations(MCKey)

Both == BOOLEAN
Never == {FALSE}
All == Operation
PutGet == {"put", "get"}
=============================================================================
