-------------------------- MODULE MCVLLMConnector --------------------------
(***************************************************************************)
(* VLLMConnector for TLC: two blocks to a chunk.  Two requests save        *)
(* prompts that disagree under one id, each with a short last chunk.  A    *)
(* third saves under another id what is the first chunk of the prompt that *)
(* a client registers there.  There are blocks for the first of them, or   *)
(* for the other two at a time.                                            *)
(***************************************************************************)
EXTENDS VLLMConnector, TLC

CONSTANTS b1, b2, b3, b4, h, g, saver, sharer, reader, ta, tb, tc, t1

MCContent == {ta, tb, tc}
MCRequest == {saver, sharer, reader}
MCCacheId == {h, g}
MCPromptOf == [r \in MCRequest |-> CASE r = saver -> <<ta, tb, tc>>
                                    [] r = sharer -> <<ta>>
                                    [] r = reader -> <<ta, tb>>]
MCCacheOf == [r \in MCRequest |-> IF r = reader THEN g ELSE h]
MCBlock == {b1, b2, b3}
MCClient == {t1}
MCClientPrompts == [c \in MCCacheId |-> IF c = g THEN {<<ta, tb, tc>>} ELSE {}]
OneId == [r \in MCRequest |-> h]
NoPrompts == [c \in MCCacheId |-> {}]
MoreBlocks == MCBlock \union {b4}
Symmetry == Permutations(MCBlock)
MoreSymmetry == Permutations(MoreBlocks)

Nobody == {}
Clients == {"evict", "delete unmatched"}
ASSUME SteadyAssumption == Steady
=============================================================================
