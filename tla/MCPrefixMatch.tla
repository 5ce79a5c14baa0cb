--------------------------- MODULE MCPrefixMatch ---------------------------
(***************************************************************************)
(* PrefixMatch for TLC: tokens of two binary digits (-2 to 1), one more    *)
(* that does not fit, and chunk sizes that do and do not divide the        *)
(* lengths.                                                                *)
(***************************************************************************)
EXTENDS PrefixMatch

MCToken == {-2, 1, 2}
MCChunkSizes == {1, 2, 3}
=============================================================================
