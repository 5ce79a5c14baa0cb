--------------------------- MODULE DictKVTransfer ---------------------------
(***************************************************************************)
(* connectors/transfer.py: the copy of KV between an engine's paged buffer *)
(* and the payloads of a cache, one payload per chunk.                     *)
(*                                                                         *)
(* A buffer maps blocks to KV; None is KV that belongs to no prompt.  The  *)
(* payload of a chunk is the sequence of the KV of its blocks.             *)
(***************************************************************************)
EXTENDS Integers, Sequences

CONSTANTS None,
          BlocksPerChunk    \* chunk_size // block_size

ASSUME BlocksAssumption == BlocksPerChunk \in Nat \ {0}   \* else ValueError, transfer.py:33

Least(m, n) == IF m < n THEN m ELSE n

\* block_ids[i * bpc : (i + 1) * bpc]: those of the last chunk may be fewer, or none.
ChunkBlocks(blocks, i) ==
    SubSeq(blocks, (i - 1) * BlocksPerChunk + 1, Least(i * BlocksPerChunk, Len(blocks)))

\* _split cuts the bytes into n parts of one length: they are the KV of the blocks only
\* if as many blocks were joined.
Split(payload, n) == IF Len(payload) = n THEN payload ELSE [j \in 1 .. n |-> None]

\* load_into: a block beyond the payloads keeps what it holds.
LoadInto(buffer, blocks, payloads) ==
    [b \in DOMAIN buffer |->
        LET at == {s \in (DOMAIN payloads) \X (1 .. BlocksPerChunk) :
                      s[2] \in DOMAIN ChunkBlocks(blocks, s[1]) /\ ChunkBlocks(blocks, s[1])[s[2]] = b}
        IN  IF at = {} THEN buffer[b]
            ELSE LET s == CHOOSE s \in at : \A r \in at : r[1] <= s[1]
                 IN  Split(payloads[s[1]], Len(ChunkBlocks(blocks, s[1])))[s[2]]]

\* save_from.
SaveFrom(buffer, blocks, n) ==
    [i \in 1 .. n |-> [j \in DOMAIN ChunkBlocks(blocks, i) |-> buffer[ChunkBlocks(blocks, i)[j]]]]
=============================================================================
