------------------------------- MODULE RpcCodec -------------------------------
(***************************************************************************)
(* The frames of rpc_codec.h: a length, an id and the payload, numbers in  *)
(* network byte order. The widths are parameters (4 and 8 bytes of 256     *)
(* values in the code). tryUnpackWithId reports an incomplete frame, a     *)
(* broken one and one without payload alike, by an empty string.           *)
(***************************************************************************)
EXTENDS Buffer

CONSTANTS
  Base,      \* how many values a byte has
  LenSize,   \* sizeof netLen
  IdSize,    \* sizeof netId
  MaxLen     \* the longest frame a receiver takes for one (64 MB)

ASSUME CodecAssumption ==
  /\ Base \in Nat \ {0}
  /\ Byte = 0 .. Base - 1
  /\ LenSize \in Nat \ {0} /\ IdSize \in Nat /\ MaxLen \in Nat
  /\ \A k \in 0 .. LenSize + IdSize : Base ^ k \in Nat \ {0}
  /\ Base ^ 0 = 1 /\ \A k \in 1 .. LenSize + IdSize : Base ^ k = Base * Base ^ (k - 1)
  /\ MaxLen < Base ^ LenSize \div 2

\* htonl and htonll: n in k bytes, the most significant first.
LittleEndian(n, k) == [i \in 1 .. k |-> (n \div Base ^ (i - 1)) % Base]
BigEndian(n, k) == [i \in 1 .. k |-> (n \div Base ^ (k - i)) % Base]

\* ntohl and ntohll.
Number(s) ==
  LET value[i \in 0 .. Len(s)] == IF i = 0 THEN 0 ELSE value[i - 1] * Base + s[i]
  IN value[Len(s)]

\* The length as an int32_t.
Signed(n) == IF n >= Base ^ LenSize \div 2 THEN n - Base ^ LenSize ELSE n

packWithId(id, data) == BigEndian(IdSize + Len(data), LenSize) \o BigEndian(id, IdSize) \o data

\* What tryUnpackWithId leaves in the buffer, and what it returns.
Unpacked(b, id, data) == [buf |-> b, id |-> id, data |-> data]

\* Each early return of tryUnpackWithId is a case. A length that makes no sense empties the
\* buffer.
tryUnpackWithId(b) ==
  LET len == Signed(Number(SubSeq(Contents(b), 1, LenSize)))
      body == retrieve(b, LenSize)
      rest == retrieve(body, IdSize)
      header == readableBytes(b) >= LenSize
      sane == len \in 0 .. MaxLen
      complete == readableBytes(b) >= LenSize + len
  IN CASE ~header -> Unpacked(b, 0, <<>>)
       [] header /\ ~sane -> Unpacked(retrieveAll(b), 0, <<>>)
       [] header /\ sane /\ ~complete -> Unpacked(b, 0, <<>>)
       [] header /\ sane /\ complete /\ len < IdSize -> Unpacked(retrieveAll(body), 0, <<>>)
       [] header /\ sane /\ complete /\ len >= IdSize ->
            Unpacked(retrieve(rest, len - IdSize),
                     Number(SubSeq(Contents(body), 1, IdSize)),
                     SubSeq(Contents(rest), 1, len - IdSize))
=============================================================================
