---------------------------- MODULE PrefixMatch ----------------------------
(***************************************************************************)
(* How much of a registered prompt a request may reuse: the functions of   *)
(* types.py and the arithmetic of ExplicitKVCache.lookup, token by token.  *)
(* ExplicitKVCache uses the result at the level of whole chunks.           *)
(*                                                                         *)
(* A fingerprint is taken to be collision-free: it stands for the bytes    *)
(* that are hashed, Width binary digits of each token (32 in the code).    *)
(***************************************************************************)
EXTENDS Integers, Sequences, FiniteSets

CONSTANTS Token,       \* the token ids that requests are made of
          MaxTokens,   \* bound: the length of a prompt
          ChunkSizes,
          Width,       \* digits of an encoded token, two's complement
          None, OverflowError

ASSUME TokenAssumption == Token \subseteq Int
ASSUME BoundAssumption == MaxTokens \in Nat
ASSUME SizesAssumption == ChunkSizes \subseteq Nat \ {0}   \* else ValueError, engine.py:55
ASSUME WidthAssumption == Width \in Nat \ {0}

VARIABLES chunk_size, registered, request, result

vars == <<chunk_size, registered, request, result>>

Smaller(m, n) == IF m < n THEN m ELSE n
Prompts(S) == UNION {[1 .. n -> S] : n \in 0 .. MaxTokens}

\* chunk_token_ids: the last chunk may be short.
NumChunks(tokens) == (Len(tokens) + chunk_size - 1) \div chunk_size
ChunkTokenIds(tokens) ==
    [i \in 1 .. NumChunks(tokens) |->
        SubSeq(tokens, (i - 1) * chunk_size + 1, Smaller(i * chunk_size, Len(tokens)))]

\* int.to_bytes(4, "little", signed=True), which raises OverflowError out of range.
Encodable(t) == -(2 ^ (Width - 1)) <= t /\ t < 2 ^ (Width - 1)
Digit(t, b) == ((t % 2 ^ Width) \div 2 ^ b) % 2

\* Mutant: the order of the tokens is lost.
TokenFingerprint_Unordered(tokens) == {tokens[i] : i \in DOMAIN tokens}

\* token_fingerprint: the digits of the tokens one after the other.
TokenFingerprint(tokens) ==
    [j \in 1 .. Len(tokens) * Width |-> Digit(tokens[((j - 1) \div Width) + 1], (j - 1) % Width)]

Fingerprints(tokens) ==
    [i \in DOMAIN ChunkTokenIds(tokens) |-> TokenFingerprint(ChunkTokenIds(tokens)[i])]

\* matched_chunk_count stops at the first chunk that differs, and computes no
\* fingerprint beyond it.
Matching(q, fps, i) == TokenFingerprint(ChunkTokenIds(q)[i]) = fps[i]

\* Mutant: the last chunk of the request is not compared.
LeadingChunks_OneLess(q, fps) ==
    {i \in DOMAIN fps \intersect 1 .. NumChunks(q) - 1 : \A j \in 1 .. i : Matching(q, fps, j)}

LeadingChunks(q, fps) ==
    {i \in DOMAIN fps \intersect DOMAIN ChunkTokenIds(q) : \A j \in 1 .. i : Matching(q, fps, j)}

MatchedChunkCount(q, fps) == Cardinality(LeadingChunks(q, fps))

\* The request chunks whose tokens the loop encodes.
Compared(q, fps) ==
    1 .. Smaller(MatchedChunkCount(q, fps) + 1, Smaller(Len(fps), NumChunks(q)))
Overflows(q, fps) ==
    \E i \in Compared(q, fps) :
        \E j \in DOMAIN ChunkTokenIds(q)[i] : ~Encodable(ChunkTokenIds(q)[i][j])

\* Mutants: a short last chunk is counted as a whole one, and whether all is reusable
\* is told from the tokens of whole chunks.
LookupResult_WholeChunks(matched, fps) ==
    [num_tokens |-> matched * chunk_size, num_chunks |-> matched, full |-> matched = Len(fps)]

LookupResult_FullByTokens(matched, fps) ==
    [num_tokens |-> IF matched = Len(fps) THEN Len(registered) ELSE matched * chunk_size,
     num_chunks |-> matched,
     full       |-> matched * chunk_size = Len(registered)]

LookupResult(matched, fps) ==
    [num_tokens |-> IF matched = Len(fps) THEN Len(registered) ELSE matched * chunk_size,
     num_chunks |-> matched,
     full       |-> matched = Len(fps)]

-----------------------------------------------------------------------------
Init == /\ chunk_size \in ChunkSizes
        /\ registered \in Prompts({t \in Token : Encodable(t)})
        /\ request = None
        /\ result = None

\* lookup with request_tokens.
Lookup == LET fps == Fingerprints(registered)
          IN  /\ request' \in Prompts(Token)
              /\ result' = IF Overflows(request', fps) THEN OverflowError
                           ELSE LookupResult(MatchedChunkCount(request', fps), fps)
              /\ UNCHANGED <<chunk_size, registered>>

\* Without them the caller is trusted.
LookupTrusting == LET fps == Fingerprints(registered)
                  IN  /\ request' = None
                      /\ result' = LookupResult(Len(fps), fps)
                      /\ UNCHANGED <<chunk_size, registered>>

Next == Lookup \/ LookupTrusting

Spec == Init /\ [][Next]_vars

-----------------------------------------------------------------------------
(***************************************************************************)
(* Properties, against the longest common prefix of the two prompts.       *)
(***************************************************************************)
CommonPrefix(a, b) ==
    Cardinality({n \in DOMAIN a \intersect DOMAIN b : \A i \in 1 .. n : a[i] = b[i]})

Shared == CommonPrefix(request, registered)

\* lookup answered a request.
Answered == request # None /\ result # OverflowError

\* A result is a LookupResult within the registered prompt, or an error.
TypeOK ==
    /\ chunk_size \in ChunkSizes
    /\ registered \in Seq(Token)
    /\ request = None \/ request \in Seq(Token)
    /\ result \in {None, OverflowError}
         \/ result \in [num_tokens : 0 .. Len(registered),
                        num_chunks : 0 .. NumChunks(registered), full : BOOLEAN]

\* "The prompt really is a prefix of the registered tokens" (engine.py:9-10): tokens are
\* reusable only where the request and the registered prompt agree from the start.
ReuseIsShared == Answered => result.num_tokens <= Shared

\* Reuse is truncated "at the first divergence" (engine.py:196-197) and no earlier than
\* the chunk it falls in.
WholeChunksReused == Answered => result.num_tokens > Shared - chunk_size

\* A request for exactly the registered prompt reuses all of it, its short last chunk too.
SamePromptIsFull == Answered /\ request = registered => result.full
=============================================================================
