------------------------------ MODULE KVPayload ------------------------------
(***************************************************************************)
(* payload.py: the framing of an object for stores that hold bytes.  A     *)
(* blob is magic, header (its length with it) and data, in this order; a   *)
(* file or value that was cut short holds a prefix of them.                *)
(***************************************************************************)
LOCAL INSTANCE Integers
LOCAL INSTANCE Sequences

CONSTANTS Obj,          \* the KVPayloads
          CutShort,     \* a KVPayload with the header of one of them and less data
          Failure       \* SerializationError or json's ValueError

PackPayload(o) == <<"magic", "header", o>>

Blob == {PackPayload(o) : o \in Obj}
PartialBlob == UNION {{SubSeq(b, 1, n) : n \in 0 .. Len(b)} : b \in Blob}

\* Nothing in the header tells how much data belongs to it: a blob without (all of) its
\* data is read as an object.
UnpackPayload(b) ==
    IF Len(b) = 0 \/ b[1] # "magic" THEN Failure
    ELSE IF Len(b) = 1 \/ b[2] # "header" THEN Failure
    ELSE IF Len(b) = 2 THEN CutShort
    ELSE b[3]
=============================================================================
