----------------------------- MODULE ConfigCodec -----------------------------
(***************************************************************************)
(* The lossy parts of the setConfig payload codec (internal/config/        *)
(* encode.go): the transmission delays S, narrowed to uint8 by             *)
(* serializationRepresentation, and the peer IDs, joined with "," into one *)
(* ABI string and split again by golangRepresentation.  A string is a      *)
(* sequence of one-character strings, so that join and split are modelled *)
(* by what they do.  The fields the ABI carries unchanged (timings,        *)
(* offchain keys, the shared-secret encryptions) are carried as they are.  *)
(***************************************************************************)
EXTENDS Naturals, Sequences, SequencesExt

\* EncodedConfigVersion (encode.go:15).
EncodedConfigVersion == 1

Comma == ","

\* uint8(d) for a non-negative Go int d: the low 8 bits.
Narrow(d) == d % 256

\* strings.Join(ids, ","): the empty list joins to the empty string.
Join(ids) ==
    IF ids = <<>> THEN <<>>
    ELSE FlattenSeq([i \in 1..Len(ids) |-> IF i = 1 THEN ids[i] ELSE <<Comma>> \o ids[i]])

\* strings.Split(s, ","): the pieces between the commas, one piece for a
\* string without a comma (the empty string splits to one empty piece).
RECURSIVE Split(_)
Split(s) ==
    LET i == SelectInSeq(s, LAMBDA ch : ch = Comma) IN
    IF i = 0 THEN <<s>>
    ELSE <<SubSeq(s, 1, i - 1)>> \o Split(SubSeq(s, i + 1, Len(s)))

\* setConfigEncodedComponents.serializationRepresentation: S narrowed entry
\* by entry, peer IDs joined; the other fields are carried unchanged.
SerializationRepresentation(o) ==
    [o EXCEPT !.S = [i \in DOMAIN o.S |-> Narrow(o.S[i])],
              !.PeerIDs = Join(o.PeerIDs)]

\* Fault variant: peer IDs are split even when the string is empty.
SplitPeerIDsAlways(s) == Split(s)

\* The peer-ID half of golangRepresentation: nil for the empty string.
SplitPeerIDs(s) == IF Len(s) > 0 THEN Split(s) ELSE <<>>

\* setConfigSerializationTypes.golangRepresentation: uint8 delays widen to
\* int unchanged, the peer-ID string is split on ",".
GolangRepresentation(or) == [or EXCEPT !.PeerIDs = SplitPeerIDs(or.PeerIDs)]

\* encode / decodeContractSetConfigEncodedComponents: the ABI Pack and
\* Unpack of the serialization types round-trip, so the blob is the
\* serialization representation itself.
Encode(o) == SerializationRepresentation(o)
Decode(b) == GolangRepresentation(b)

=============================================================================
