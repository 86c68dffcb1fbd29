----------------------------- MODULE StreamProofs -----------------------------
(***************************************************************************)
(* What is proved of Buffer, RpcCodec and Stream, for any sizes and        *)
(* payloads: a Buffer is a queue of bytes whatever its vector does, no     *)
(* byte is lost or moved between send() and the decoder, a number that is  *)
(* packed is unpacked, and the decoder finds the frames again however the  *)
(* socket has cut them. The types follow from that.                        *)
(***************************************************************************)
EXTENDS Stream, QueueLemmas

-----------------------------------------------------------------------------
(* Sequences of bytes.                                                     *)

\* n bytes of s after the first a.
LEMMA PartOfBytes ==
  ASSUME NEW s \in Seq(Byte), NEW a \in Nat, NEW n \in Nat, a + n <= Len(s)
  PROVE  /\ SubSeq(s, a + 1, a + n) \in Seq(Byte)
         /\ Len(SubSeq(s, a + 1, a + n)) = n
         /\ \A i \in 1 .. n : SubSeq(s, a + 1, a + n)[i] = s[a + i]
<1> DEFINE u == SubSeq(s, a + 1, a + n)
<1>1. \A i \in a + 1 .. a + n : s[i] \in Byte
  BY LenProperties, ElementOfSeq
<1>2. /\ u \in Seq(Byte)
      /\ Len(u) = IF a + 1 <= a + n THEN a + n - (a + 1) + 1 ELSE 0
      /\ \A i \in 1 .. a + n - (a + 1) + 1 : u[i] = s[a + 1 + i - 1]
  BY <1>1, SubSeqProperties
<1> HIDE DEF u
<1>3. Len(u) = n
  BY <1>2
<1>4. ASSUME NEW i \in 1 .. n PROVE u[i] = s[a + i]
  <2>1. i \in 1 .. a + n - (a + 1) + 1 /\ a + 1 + i - 1 = a + i
    OBVIOUS
  <2> QED BY <1>2, <2>1
<1> QED BY <1>2, <1>3, <1>4 DEF u

\* A sequence is its first n bytes and the others.
LEMMA SplitBytes ==
  ASSUME NEW s \in Seq(Byte), NEW n \in Nat, n <= Len(s)
  PROVE  /\ SubSeq(s, 1, n) \in Seq(Byte) /\ Len(SubSeq(s, 1, n)) = n
         /\ SubSeq(s, n + 1, Len(s)) \in Seq(Byte)
         /\ Len(SubSeq(s, n + 1, Len(s))) = Len(s) - n
         /\ s = SubSeq(s, 1, n) \o SubSeq(s, n + 1, Len(s))
<1>0. Len(s) \in Nat
  BY LenProperties
<1>1. SubSeq(s, 1, n) \in Seq(Byte) /\ Len(SubSeq(s, 1, n)) = n
  <2>1. 0 + n <= Len(s) /\ 0 + 1 = 1 /\ 0 + n = n
    OBVIOUS
  <2> QED BY <2>1, PartOfBytes
<1>2. SubSeq(s, n + 1, Len(s)) \in Seq(Byte) /\ Len(SubSeq(s, n + 1, Len(s))) = Len(s) - n
  <2> DEFINE k == Len(s) - n
  <2>1. k \in Nat /\ n + k = Len(s) /\ n + k <= Len(s)
    BY <1>0
  <2> HIDE DEF k
  <2>2. SubSeq(s, n + 1, n + k) \in Seq(Byte) /\ Len(SubSeq(s, n + 1, n + k)) = k
    BY <2>1, PartOfBytes
  <2> QED BY <2>1, <2>2 DEF k
<1>3. s = SubSeq(s, 1, n) \o SubSeq(s, n + 1, Len(s))
  <2>1. 1 \in 1 .. Len(s) + 1 /\ n \in 1 - 1 .. Len(s) /\ Len(s) \in n .. Len(s)
    BY <1>0
  <2>2. SubSeq(s, 1, n) \o SubSeq(s, n + 1, Len(s)) = SubSeq(s, 1, Len(s))
    BY <2>1, ConcatAdjacentSubSeq
  <2> QED BY <2>2, SubSeqFull
<1> QED BY <1>1, <1>2, <1>3

\* The first part of two that were joined.
LEMMA FirstPart ==
  ASSUME NEW u \in Seq(Byte), NEW v \in Seq(Byte)
  PROVE  SubSeq(u \o v, 1, Len(u)) = u
<1> DEFINE w == SubSeq(u \o v, 1, Len(u))
<1>1. /\ Len(u) \in Nat /\ Len(v) \in Nat /\ u \o v \in Seq(Byte)
      /\ Len(u \o v) = Len(u) + Len(v)
      /\ \A i \in 1 .. Len(u) + Len(v) :
           (u \o v)[i] = IF i <= Len(u) THEN u[i] ELSE v[i - Len(u)]
  BY LenProperties, ConcatProperties
<1>2. 0 + Len(u) <= Len(u \o v) /\ 0 + 1 = 1 /\ 0 + Len(u) = Len(u)
  BY <1>1
<1>3. w \in Seq(Byte) /\ Len(w) = Len(u) /\ \A i \in 1 .. Len(u) : w[i] = (u \o v)[0 + i]
  BY <1>1, <1>2, PartOfBytes
<1> HIDE DEF w
<1>4. ASSUME NEW i \in 1 .. Len(w) PROVE w[i] = u[i]
  <2>1. i \in 1 .. Len(u) + Len(v) /\ i <= Len(u) /\ 0 + i = i
    BY <1>1, <1>3
  <2> QED BY <1>1, <1>3, <2>1
<1> QED BY <1>3, <1>4, SeqEqual DEF w
-----------------------------------------------------------------------------
(* Buffer.                                                                 *)

\* The readable bytes: how many there are, and each of them.
LEMMA ContentsProperties ==
  ASSUME NEW b \in BufferType
  PROVE  /\ Contents(b) \in Seq(Byte)
         /\ Len(Contents(b)) = readableBytes(b)
         /\ readableBytes(b) \in Nat
         /\ \A i \in 1 .. readableBytes(b) : Contents(b)[i] = b.data[b.readIndex + i]
<1>1. /\ b.data \in Seq(Byte) /\ b.readIndex \in Nat /\ b.writeIndex \in Nat
      /\ b.readIndex <= b.writeIndex /\ b.writeIndex <= Len(b.data) /\ Len(b.data) \in Nat
  BY LenProperties DEF BufferType
<1> DEFINE n == b.writeIndex - b.readIndex
<1>2. n \in Nat /\ b.readIndex + n = b.writeIndex /\ b.readIndex + n <= Len(b.data)
  BY <1>1
<1> HIDE DEF n
<1>3. /\ SubSeq(b.data, b.readIndex + 1, b.readIndex + n) \in Seq(Byte)
      /\ Len(SubSeq(b.data, b.readIndex + 1, b.readIndex + n)) = n
      /\ \A i \in 1 .. n :
           SubSeq(b.data, b.readIndex + 1, b.readIndex + n)[i] = b.data[b.readIndex + i]
  BY <1>1, <1>2, PartOfBytes
<1> QED BY <1>2, <1>3 DEF Contents, readableBytes, n

\* Two buffers with the same readable bytes.
LEMMA SameContents ==
  ASSUME NEW b \in BufferType, NEW s \in Seq(Byte), Len(s) = readableBytes(b),
         \A i \in 1 .. Len(s) : b.data[b.readIndex + i] = s[i]
  PROVE  Contents(b) = s
<1>1. /\ Contents(b) \in Seq(Byte) /\ Len(Contents(b)) = Len(s)
      /\ \A i \in 1 .. Len(s) : Contents(b)[i] = s[i]
  BY ContentsProperties
<1> QED BY <1>1, SeqEqual

\* std::copy into the vector.
LEMMA OverwriteProperties ==
  ASSUME NEW data \in Seq(Byte), NEW at \in Nat, NEW s \in Seq(Byte),
         at + Len(s) <= Len(data)
  PROVE  /\ Overwrite(data, at, s) \in Seq(Byte)
         /\ Len(Overwrite(data, at, s)) = Len(data)
         /\ \A i \in 1 .. Len(s) : Overwrite(data, at, s)[at + i] = s[i]
         /\ \A i \in 1 .. Len(data) : i <= at => Overwrite(data, at, s)[i] = data[i]
<1>1. Len(data) \in Nat /\ Len(s) \in Nat
  BY LenProperties
<1>2. \A i \in 1 .. Len(data) :
        (IF at < i /\ i <= at + Len(s) THEN s[i - at] ELSE data[i]) \in Byte
  BY <1>1, ElementOfSeq
<1>3. Overwrite(data, at, s) \in Seq(Byte) /\ Len(Overwrite(data, at, s)) = Len(data)
  BY <1>1, <1>2, IsASeq DEF Overwrite
<1> QED BY <1>1, <1>3 DEF Overwrite

\* A new buffer is empty.
LEMMA NewBufferIsEmpty == NewBuffer \in BufferType /\ Contents(NewBuffer) = <<>>
<1> DEFINE data == [i \in 1 .. kCheapPrepend + kInitialSize |-> 0]
<1>1. kCheapPrepend \in Nat /\ kInitialSize \in Nat /\ 0 \in Byte
  BY BufferAssumption
<1>2. data \in Seq(Byte) /\ Len(data) = kCheapPrepend + kInitialSize
  BY <1>1, IsASeq
<1>3. NewBuffer \in BufferType /\ readableBytes(NewBuffer) = 0
  BY <1>1, <1>2 DEF NewBuffer, BufferType, readableBytes
<1> QED BY <1>3, ContentsProperties, EmptySeq

\* retrieve takes from the front, at most what there is.
LEMMA RetrieveTakesFront ==
  ASSUME NEW b \in BufferType, NEW n \in Nat
  PROVE  /\ retrieve(b, n) \in BufferType
         /\ n <= readableBytes(b) =>
              /\ readableBytes(retrieve(b, n)) = readableBytes(b) - n
              /\ Contents(b) = SubSeq(Contents(b), 1, n) \o Contents(retrieve(b, n))
<1> DEFINE c == Contents(b)
<1>0. /\ b.data \in Seq(Byte) /\ b.readIndex \in Nat /\ b.writeIndex \in Nat
      /\ b.readIndex <= b.writeIndex /\ b.writeIndex <= Len(b.data) /\ Len(b.data) \in Nat
      /\ kCheapPrepend \in Nat /\ kCheapPrepend <= b.readIndex
  BY LenProperties, BufferAssumption DEF BufferType
<1>1. c \in Seq(Byte) /\ Len(c) = readableBytes(b) /\ Len(c) \in Nat
  BY ContentsProperties
<1>2. CASE n < readableBytes(b)
  <2> DEFINE r == [data |-> b.data, readIndex |-> b.readIndex + n,
                   writeIndex |-> b.writeIndex]
  <2>1. retrieve(b, n) = r
    BY <1>2 DEF retrieve
  <2>2. r \in BufferType /\ readableBytes(r) = readableBytes(b) - n
    BY <1>0, <1>2 DEF BufferType, readableBytes
  <2>3. c = SubSeq(c, 1, n) \o Contents(r)
    <3> DEFINE v == SubSeq(c, n + 1, Len(c))
               k == Len(c) - n
    <3>1. k \in Nat /\ n + k = Len(c) /\ n + k <= Len(c)
      BY <1>1, <1>2
    <3>2. v \in Seq(Byte) /\ Len(v) = k /\ \A i \in 1 .. k : v[i] = c[n + i]
      BY <1>1, <3>1, PartOfBytes
    <3>3. \A i \in 1 .. k : c[n + i] = b.data[b.readIndex + (n + i)]
      BY <1>1, <3>1, ContentsProperties
    <3> HIDE DEF v
    <3>4. ASSUME NEW i \in 1 .. Len(v) PROVE r.data[r.readIndex + i] = v[i]
      <4>1. i \in 1 .. k /\ b.readIndex + (n + i) = b.readIndex + n + i
        BY <1>0, <3>1, <3>2
      <4>2. v[i] = b.data[b.readIndex + n + i]
        BY <3>2, <3>3, <4>1
      <4> QED BY <4>2
    <3>5. Len(v) = readableBytes(r)
      BY <1>1, <2>2, <3>2
    <3>6. Contents(r) = v
      BY <2>2, <3>2, <3>4, <3>5, SameContents
    <3>7. c = SubSeq(c, 1, n) \o v
      BY <1>1, <1>2, SplitBytes DEF v
    <3> QED BY <3>6, <3>7
  <2> QED BY <2>1, <2>2, <2>3
<1>3. CASE ~(n < readableBytes(b))
  <2>1. retrieve(b, n) = retrieveAll(b)
    BY <1>3 DEF retrieve
  <2>2. retrieveAll(b) \in BufferType /\ readableBytes(retrieveAll(b)) = 0
    BY <1>0 DEF retrieveAll, BufferType, readableBytes
  <2>3. Contents(retrieveAll(b)) = <<>>
    BY <2>2, ContentsProperties, EmptySeq
  <2>4. ASSUME n <= readableBytes(b) PROVE n = Len(c)
    BY <1>1, <1>3, <2>4
  <2>5. SubSeq(c, 1, Len(c)) = c /\ c \o <<>> = c
    BY <1>1, SubSeqFull, ConcatEmptySeq
  <2> QED BY <1>1, <2>1, <2>2, <2>3, <2>4, <2>5
<1> QED BY <1>2, <1>3

\* What is copied behind the contents joins them, where there is room.
LEMMA PutAppends ==
  ASSUME NEW b \in BufferType, NEW s \in Seq(Byte), Len(s) <= writableBytes(b)
  PROVE  Put(b, s) \in BufferType /\ Contents(Put(b, s)) = Contents(b) \o s
<1> DEFINE r == Put(b, s)
           c == Contents(b)
<1>0. /\ b.data \in Seq(Byte) /\ b.readIndex \in Nat /\ b.writeIndex \in Nat
      /\ b.readIndex <= b.writeIndex /\ b.writeIndex <= Len(b.data) /\ Len(b.data) \in Nat
      /\ kCheapPrepend \in Nat /\ kCheapPrepend <= b.readIndex /\ Len(s) \in Nat
  BY LenProperties, BufferAssumption DEF BufferType
<1>1. /\ c \in Seq(Byte) /\ Len(c) = readableBytes(b) /\ Len(c) \in Nat
      /\ \A i \in 1 .. Len(c) : c[i] = b.data[b.readIndex + i]
  BY ContentsProperties
<1>2. b.writeIndex + Len(s) <= Len(b.data)
  BY <1>0 DEF writableBytes
<1> DEFINE data == Overwrite(b.data, b.writeIndex, s)
<1>3. /\ data \in Seq(Byte) /\ Len(data) = Len(b.data)
      /\ \A i \in 1 .. Len(s) : data[b.writeIndex + i] = s[i]
      /\ \A i \in 1 .. Len(b.data) : i <= b.writeIndex => data[i] = b.data[i]
  BY <1>0, <1>2, OverwriteProperties
<1> HIDE DEF data
<1>4. r = [data |-> data, readIndex |-> b.readIndex, writeIndex |-> b.writeIndex + Len(s)]
  BY DEF Put, data
<1>5. r \in BufferType /\ readableBytes(r) = Len(c) + Len(s)
  BY <1>0, <1>1, <1>2, <1>3, <1>4 DEF BufferType, readableBytes
<1> HIDE DEF r, c
<1>6. /\ c \o s \in Seq(Byte) /\ Len(c \o s) = Len(c) + Len(s)
      /\ \A i \in 1 .. Len(c) + Len(s) : (c \o s)[i] = IF i <= Len(c) THEN c[i] ELSE s[i - Len(c)]
  BY <1>0, <1>1, ConcatProperties
<1>7. ASSUME NEW i \in 1 .. Len(c \o s) PROVE r.data[r.readIndex + i] = (c \o s)[i]
  <2>0. r.data[r.readIndex + i] = data[b.readIndex + i] /\ i \in 1 .. Len(c) + Len(s)
    BY <1>4, <1>6
  <2>1. CASE i <= Len(c)
    <3>1. b.readIndex + i \in 1 .. Len(b.data) /\ b.readIndex + i <= b.writeIndex
      BY <1>0, <1>1, <2>1 DEF readableBytes
    <3> QED BY <1>1, <1>3, <1>6, <2>0, <2>1, <3>1
  <2>2. CASE ~(i <= Len(c))
    <3>1. Len(c) = b.writeIndex - b.readIndex
      BY <1>1 DEF readableBytes
    <3>2. /\ i \in Int /\ Len(c) < i /\ i <= Len(c) + Len(s)
          /\ Len(c) \in Nat /\ Len(s) \in Nat /\ b.writeIndex \in Nat /\ b.readIndex \in Nat
      BY <1>0, <1>1, <2>0, <2>2
    <3>3. i - Len(c) \in 1 .. Len(s) /\ b.writeIndex + (i - Len(c)) = b.readIndex + i
      BY <3>1, <3>2
    <3> QED BY <1>3, <1>6, <2>0, <2>2, <3>3
  <2> QED BY <2>1, <2>2
<1>8. Contents(r) = c \o s
  BY <1>5, <1>6, <1>7, SameContents
<1> QED BY <1>5, <1>8 DEF r, c

\* makeSpace makes room and changes nothing else, by growing or by moving the contents.
LEMMA MakeSpaceKeeps ==
  ASSUME NEW b \in BufferType, NEW n \in Nat, writableBytes(b) < n
  PROVE  /\ makeSpace(b, n) \in BufferType
         /\ Contents(makeSpace(b, n)) = Contents(b)
         /\ n <= writableBytes(makeSpace(b, n))
<1> DEFINE r == makeSpace(b, n)
           c == Contents(b)
<1>0. /\ b.data \in Seq(Byte) /\ b.readIndex \in Nat /\ b.writeIndex \in Nat
      /\ b.readIndex <= b.writeIndex /\ b.writeIndex <= Len(b.data) /\ Len(b.data) \in Nat
      /\ kCheapPrepend \in Nat /\ kCheapPrepend <= b.readIndex /\ 0 \in Byte
  BY LenProperties, BufferAssumption DEF BufferType
<1>1. /\ c \in Seq(Byte) /\ Len(c) = readableBytes(b) /\ Len(c) \in Nat
      /\ \A i \in 1 .. Len(c) : c[i] = b.data[b.readIndex + i]
  BY ContentsProperties
<1>2. CASE MustGrow(b, n)
  <2> DEFINE data == Resize(b.data, b.writeIndex + n)
  <2>1. r = [data |-> data, readIndex |-> b.readIndex, writeIndex |-> b.writeIndex]
    BY <1>2 DEF makeSpace
  <2>2. b.writeIndex + n \in Nat
    BY <1>0
  <2>3. \A i \in 1 .. b.writeIndex + n : (IF i <= Len(b.data) THEN b.data[i] ELSE 0) \in Byte
    BY <1>0, <2>2, ElementOfSeq
  <2>4. data \in Seq(Byte) /\ Len(data) = b.writeIndex + n
    BY <2>2, <2>3, IsASeq DEF Resize
  <2>5. \A i \in 1 .. Len(b.data) : i <= b.writeIndex + n => data[i] = b.data[i]
    BY <1>0 DEF Resize
  <2> HIDE DEF data, r, c
  <2>6. r \in BufferType /\ readableBytes(r) = Len(c) /\ n <= writableBytes(r)
    BY <1>0, <1>1, <2>1, <2>4 DEF BufferType, readableBytes, writableBytes
  <2>7. ASSUME NEW i \in 1 .. Len(c) PROVE r.data[r.readIndex + i] = c[i]
    <3>1. b.readIndex + i \in 1 .. Len(b.data) /\ b.readIndex + i <= b.writeIndex + n
      BY <1>0, <1>1 DEF readableBytes
    <3> QED BY <1>1, <2>1, <2>5, <3>1
  <2> QED BY <1>1, <2>6, <2>7, SameContents DEF r, c
<1>3. CASE ~MustGrow(b, n)
  <2> DEFINE data == Overwrite(b.data, kCheapPrepend, c)
  <2>1. r = [data |-> data, readIndex |-> kCheapPrepend,
             writeIndex |-> kCheapPrepend + readableBytes(b)]
    BY <1>3 DEF makeSpace
  <2>2. kCheapPrepend + Len(c) <= Len(b.data)
    BY <1>0, <1>1 DEF readableBytes
  <2>3. /\ data \in Seq(Byte) /\ Len(data) = Len(b.data)
        /\ \A i \in 1 .. Len(c) : data[kCheapPrepend + i] = c[i]
    BY <1>0, <1>1, <2>2, OverwriteProperties
  <2> HIDE DEF data, r, c
  <2>4. r \in BufferType /\ readableBytes(r) = Len(c) /\ n <= writableBytes(r)
    BY <1>0, <1>1, <1>3, <2>1, <2>2, <2>3
       DEF BufferType, MustGrow, readableBytes, writableBytes, prependableBytes
  <2>5. ASSUME NEW i \in 1 .. Len(c) PROVE r.data[r.readIndex + i] = c[i]
    BY <2>1, <2>3
  <2> QED BY <1>1, <2>4, <2>5, SameContents DEF r, c
<1> QED BY <1>2, <1>3

\* append adds at the end.
LEMMA AppendAppends ==
  ASSUME NEW b \in BufferType, NEW s \in Seq(Byte)
  PROVE  append(b, s) \in BufferType /\ Contents(append(b, s)) = Contents(b) \o s
<1> DEFINE r == ensureWritableBytes(b, Len(s))
<1>1. Len(s) \in Nat /\ writableBytes(b) \in Int
  BY LenProperties DEF BufferType, writableBytes
<1>2. r \in BufferType /\ Contents(r) = Contents(b) /\ Len(s) <= writableBytes(r)
  <2>1. CASE writableBytes(b) < Len(s)
    BY <1>1, <2>1, MakeSpaceKeeps DEF ensureWritableBytes
  <2>2. CASE ~(writableBytes(b) < Len(s))
    BY <1>1, <2>2 DEF ensureWritableBytes
  <2> QED BY <2>1, <2>2
<1> HIDE DEF r
<1>3. Put(r, s) \in BufferType /\ Contents(Put(r, s)) = Contents(r) \o s
  BY <1>2, PutAppends
<1> QED BY <1>2, <1>3 DEF append, r

\* readFd adds what was read at the end, whether it fits or goes through extrabuf.
LEMMA ReadFdAppends ==
  ASSUME NEW b \in BufferType, NEW s \in Seq(Byte)
  PROVE  readFd(b, s) \in BufferType /\ Contents(readFd(b, s)) = Contents(b) \o s
<1> DEFINE n == writableBytes(b)
           u == SubSeq(s, 1, n)
           v == SubSeq(s, n + 1, Len(s))
<1>1. Len(s) \in Nat /\ n \in Nat
  BY LenProperties DEF BufferType, writableBytes
<1>2. CASE Len(s) <= n
  BY <1>2, PutAppends DEF readFd
<1>3. CASE ~(Len(s) <= n)
  <2>1. readFd(b, s) = append(Put(b, u), v)
    BY <1>3 DEF readFd
  <2>2. n <= Len(s)
    BY <1>1, <1>3
  <2> HIDE DEF n
  <2>3. u \in Seq(Byte) /\ Len(u) = n /\ v \in Seq(Byte) /\ s = u \o v
    BY <1>1, <2>2, SplitBytes
  <2>4. Len(u) <= writableBytes(b)
    BY <1>1, <2>3 DEF n
  <2> HIDE DEF u, v
  <2>5. Put(b, u) \in BufferType /\ Contents(Put(b, u)) = Contents(b) \o u
    BY <2>3, <2>4, PutAppends
  <2>6. /\ append(Put(b, u), v) \in BufferType
        /\ Contents(append(Put(b, u), v)) = (Contents(b) \o u) \o v
    BY <2>3, <2>5, AppendAppends
  <2>7. Contents(b) \in Seq(Byte)
    BY ContentsProperties
  <2>8. (Contents(b) \o u) \o v = Contents(b) \o s
    BY <2>3, <2>7, ConcatAssociative
  <2> QED BY <2>1, <2>6, <2>8
<1> QED BY <1>2, <1>3
-----------------------------------------------------------------------------
(* RpcCodec.                                                               *)

\* r is what is left of b after some bytes have been taken from its front.
RestOf(b, r) == r \in BufferType /\ \E u \in Seq(Byte) : Contents(b) = u \o Contents(r)

\* Nothing, and then something more, may be taken.
LEMMA RestOfRest ==
  ASSUME NEW b \in BufferType, NEW r, NEW q, RestOf(b, r), RestOf(r, q)
  PROVE  RestOf(b, q)
<1>1. PICK u \in Seq(Byte) : Contents(b) = u \o Contents(r)
  BY DEF RestOf
<1>2. PICK v \in Seq(Byte) : Contents(r) = v \o Contents(q)
  BY DEF RestOf
<1>3. q \in BufferType /\ Contents(q) \in Seq(Byte)
  BY ContentsProperties DEF RestOf
<1>4. u \o (v \o Contents(q)) = (u \o v) \o Contents(q) /\ u \o v \in Seq(Byte)
  BY <1>3, ConcatAssociative, ConcatProperties
<1> QED BY <1>1, <1>2, <1>3, <1>4 DEF RestOf

\* A buffer, what retrieve leaves of it and what retrieveAll leaves of it are rests of it.
LEMMA RestOfRetrieve ==
  ASSUME NEW b \in BufferType
  PROVE  /\ RestOf(b, b)
         /\ RestOf(b, retrieveAll(b))
         /\ \A n \in Nat : RestOf(b, retrieve(b, n))
<1>0. /\ b.data \in Seq(Byte) /\ b.readIndex \in Nat /\ b.writeIndex \in Nat
      /\ b.readIndex <= b.writeIndex /\ b.writeIndex <= Len(b.data) /\ Len(b.data) \in Nat
      /\ kCheapPrepend \in Nat /\ kCheapPrepend <= b.readIndex
  BY LenProperties, BufferAssumption DEF BufferType
<1>1. Contents(b) \in Seq(Byte) /\ Len(Contents(b)) = readableBytes(b) /\ readableBytes(b) \in Nat
  BY ContentsProperties
<1>2. <<>> \in Seq(Byte) /\ <<>> \o Contents(b) = Contents(b) /\ Contents(b) \o <<>> = Contents(b)
  BY <1>1, ConcatEmptySeq, EmptySeq
<1>3. RestOf(b, b)
  BY <1>2 DEF RestOf
<1>4. retrieveAll(b) \in BufferType /\ readableBytes(retrieveAll(b)) = 0
  BY <1>0 DEF retrieveAll, BufferType, readableBytes
<1>5. Contents(retrieveAll(b)) = <<>>
  BY <1>4, ContentsProperties, EmptySeq
<1>6. RestOf(b, retrieveAll(b))
  BY <1>1, <1>2, <1>4, <1>5 DEF RestOf
<1>7. ASSUME NEW n \in Nat PROVE RestOf(b, retrieve(b, n))
  <2>1. CASE n < readableBytes(b)
    <3>1. n <= readableBytes(b)
      BY <1>1, <2>1
    <3>2. /\ retrieve(b, n) \in BufferType
          /\ Contents(b) = SubSeq(Contents(b), 1, n) \o Contents(retrieve(b, n))
      BY <3>1, RetrieveTakesFront
    <3>3. SubSeq(Contents(b), 1, n) \in Seq(Byte)
      BY <1>1, <3>1, SplitBytes
    <3> QED BY <3>2, <3>3 DEF RestOf
  <2>2. CASE ~(n < readableBytes(b))
    BY <1>6, <2>2 DEF retrieve
  <2> QED BY <2>1, <2>2
<1> QED BY <1>3, <1>6, <1>7

\* Whatever its bytes mean, tryUnpackWithId only takes from the front of the buffer.
LEMMA UnpackLeavesRest ==
  ASSUME NEW b \in BufferType
  PROVE  RestOf(b, tryUnpackWithId(b).buf)
<1> DEFINE len == Signed(Number(SubSeq(Contents(b), 1, LenSize)))
           body == retrieve(b, LenSize)
           rest == retrieve(body, IdSize)
           header == readableBytes(b) >= LenSize
           sane == len \in 0 .. MaxLen
           complete == readableBytes(b) >= LenSize + len
           r == tryUnpackWithId(b)
<1>0. LenSize \in Nat /\ IdSize \in Nat /\ MaxLen \in Nat
  BY CodecAssumption
<1>1. RestOf(b, body) /\ body \in BufferType
  BY <1>0, RestOfRetrieve DEF RestOf
<1>2. RestOf(body, rest) /\ rest \in BufferType /\ RestOf(body, retrieveAll(body))
  BY <1>0, <1>1, RestOfRetrieve DEF RestOf
<1>3. RestOf(b, rest) /\ RestOf(b, retrieveAll(body))
  BY <1>1, <1>2, RestOfRest
<1>4. /\ ~header => r.buf = b
      /\ header /\ ~sane => r.buf = retrieveAll(b)
      /\ header /\ sane /\ ~complete => r.buf = b
      /\ header /\ sane /\ complete /\ len < IdSize => r.buf = retrieveAll(body)
      /\ header /\ sane /\ complete /\ len >= IdSize => r.buf = retrieve(rest, len - IdSize)
  <2>1. CASE ~header
    BY <2>1 DEF tryUnpackWithId, Unpacked
  <2>2. CASE header /\ ~sane
    BY <2>2 DEF tryUnpackWithId, Unpacked
  <2>3. CASE header /\ sane /\ ~complete
    BY <2>3 DEF tryUnpackWithId, Unpacked
  <2>4. CASE header /\ sane /\ complete
    <3>1. len < IdSize <=> ~(len >= IdSize)
      BY <1>0, <2>4
    <3> QED BY <2>4, <3>1 DEF tryUnpackWithId, Unpacked
  <2> QED BY <2>1, <2>2, <2>3, <2>4
<1>5. sane => len < IdSize \/ (len >= IdSize /\ len - IdSize \in Nat)
  BY <1>0
<1> HIDE DEF len, body, rest, header, sane, complete, r
<1>6. ASSUME len - IdSize \in Nat PROVE RestOf(b, retrieve(rest, len - IdSize))
  BY <1>2, <1>3, <1>6, RestOfRetrieve, RestOfRest
<1> QED BY <1>3, <1>4, <1>5, <1>6, RestOfRetrieve DEF r

\* A number in network byte order is made of bytes.
LEMMA BigEndianBytes ==
  ASSUME NEW n \in Nat, NEW k \in 0 .. LenSize + IdSize
  PROVE  BigEndian(n, k) \in Seq(Byte) /\ Len(BigEndian(n, k)) = k
<1>0. /\ Base \in Nat \ {0} /\ Byte = 0 .. Base - 1 /\ LenSize \in Nat /\ IdSize \in Nat
      /\ \A j \in 0 .. LenSize + IdSize : Base ^ j \in Nat \ {0}
  BY CodecAssumption
<1>1. ASSUME NEW i \in 1 .. k PROVE (n \div Base ^ (k - i)) % Base \in Byte
  <2>1. k - i \in 0 .. LenSize + IdSize
    BY <1>0
  <2> DEFINE p == Base ^ (k - i)
  <2>2. p \in Nat \ {0}
    BY <1>0, <2>1
  <2> HIDE DEF p
  <2>3. n \div p \in Nat
    BY <2>2
  <2> DEFINE d == n \div p
  <2> HIDE DEF d
  <2>4. d % Base \in 0 .. Base - 1
    BY <1>0, <2>3 DEF d
  <2> QED BY <1>0, <2>4 DEF d, p
<1>2. k \in Nat
  BY <1>0
<1> QED BY <1>1, <1>2, IsASeq DEF BigEndian

\* A frame is made of bytes, and of some.
LEMMA FrameBytes ==
  ASSUME NEW id \in Nat, NEW data \in Seq(Byte)
  PROVE  packWithId(id, data) \in Seq(Byte) /\ Len(packWithId(id, data)) \in Nat \ {0}
<1> DEFINE u == BigEndian(IdSize + Len(data), LenSize)
           v == BigEndian(id, IdSize)
<1>0. LenSize \in Nat \ {0} /\ IdSize \in Nat /\ Len(data) \in Nat
  BY CodecAssumption, LenProperties
<1>1. /\ IdSize + Len(data) \in Nat
      /\ LenSize \in 0 .. LenSize + IdSize /\ IdSize \in 0 .. LenSize + IdSize
  BY <1>0
<1>2. u \in Seq(Byte) /\ Len(u) = LenSize /\ v \in Seq(Byte) /\ Len(v) = IdSize
  BY <1>1, BigEndianBytes
<1> HIDE DEF u, v
<1>3. u \o v \in Seq(Byte) /\ Len(u \o v) = LenSize + IdSize
  BY <1>2, ConcatProperties
<1>4. (u \o v) \o data \in Seq(Byte) /\ Len((u \o v) \o data) = LenSize + IdSize + Len(data)
  BY <1>3, ConcatProperties
<1> QED BY <1>0, <1>4 DEF packWithId, u, v
-----------------------------------------------------------------------------
(* Stream.                                                                 *)

\* The inductive invariant: StreamIntact and WritesWhilePending, the types they need, and
\* that no client thread leaves anything in outputBuffer_ before a write falls short.
StreamInv ==
  /\ side \in Sides
  /\ out \in BufferType
  /\ writing \in BOOLEAN
  /\ pipe \in Seq(Byte)
  /\ in \in BufferType
  /\ sent \in Seq([id : Nat, data : Payloads])
  /\ eaten \in Seq(Byte)
  /\ StreamIntact
  /\ WritesWhilePending
  /\ side = "client" => readableBytes(out) = 0

\* An empty buffer has no contents.
LEMMA NothingReadable ==
  ASSUME NEW b \in BufferType
  PROVE  readableBytes(b) = 0 <=> Contents(b) = <<>>
BY ContentsProperties, EmptySeq

\* The stream is empty at first.
LEMMA InitIntact == Init => StreamInv
<1> SUFFICES ASSUME Init PROVE StreamInv
  OBVIOUS
<1>1. NewBuffer \in BufferType /\ Contents(NewBuffer) = <<>> /\ readableBytes(NewBuffer) = 0
  BY NewBufferIsEmpty, NothingReadable
<1>2. <<>> \in Seq(Byte) /\ <<>> \in Seq([id : Nat, data : Payloads])
  BY EmptySeq
<1>3. <<>> = <<>> \o <<>> \o <<>> \o <<>>
  BY <1>2, ConcatEmptySeq
<1>4. StreamIntact
  BY <1>1, <1>3, Zenon DEF Init, StreamIntact
<1>5. readableBytes(out) = 0 /\ ~(readableBytes(out) > 0)
  BY <1>1 DEF Init
<1>6. WritesWhilePending
  BY <1>5, Zenon DEF Init, WritesWhilePending
<1> QED BY <1>1, <1>2, <1>4, <1>5, <1>6, Zenon DEF Init, StreamInv

\* The frame of the next message, and the record of it.
LEMMA RecordTypes ==
  ASSUME StreamInv, NEW data \in Payloads, Record(data)
  PROVE  /\ Frame(data) \in Seq(Byte) /\ Len(Frame(data)) \in Nat \ {0}
         /\ sent' \in Seq([id : Nat, data : Payloads])
         /\ stream' = stream \o Frame(data)
<1>1. Len(sent) \in Nat
  BY LenProperties DEF StreamInv
<1>2. Len(sent) + 1 \in Nat /\ data \in Seq(Byte)
  BY <1>1, StreamAssumption
<1>3. Message(data) \in [id : Nat, data : Payloads]
  BY <1>2 DEF Message
<1>4. sent' \in Seq([id : Nat, data : Payloads])
  BY <1>3, AppendProperties DEF Record, StreamInv
<1>5. Frame(data) \in Seq(Byte) /\ Len(Frame(data)) \in Nat \ {0}
  BY <1>2, FrameBytes DEF Frame
<1>6. stream' = stream \o Frame(data)
  BY DEF Record
<1> QED BY <1>4, <1>5, <1>6

\* What the parts of the stream are made of.
LEMMA Parts ==
  ASSUME StreamInv
  PROVE  /\ Contents(in) \in Seq(Byte) /\ Contents(out) \in Seq(Byte)
         /\ eaten \o Contents(in) \in Seq(Byte)
         /\ (eaten \o Contents(in)) \o pipe \in Seq(Byte)
         /\ stream = ((eaten \o Contents(in)) \o pipe) \o Contents(out)
         /\ readableBytes(out) \in Nat /\ readableBytes(in) \in Nat
         /\ Len(pipe) \in Nat
<1>1. Contents(in) \in Seq(Byte) /\ Contents(out) \in Seq(Byte)
  BY ContentsProperties DEF StreamInv
<1>2. eaten \o Contents(in) \in Seq(Byte)
  BY <1>1, ConcatProperties DEF StreamInv
<1>3. (eaten \o Contents(in)) \o pipe \in Seq(Byte)
  BY <1>2, ConcatProperties DEF StreamInv
<1> QED BY <1>1, <1>2, <1>3, ContentsProperties, LenProperties DEF StreamInv, StreamIntact

\* send() of the server, with a write that takes n bytes.
LEMMA SendDirectIntact ==
  ASSUME StreamInv, NEW data \in Payloads, SendDirect(data)
  PROVE  StreamInv'
<1> DEFINE f == Frame(data)
           x == eaten \o Contents(in)
<1>0. /\ f \in Seq(Byte) /\ Len(f) \in Nat \ {0}
      /\ sent' \in Seq([id : Nat, data : Payloads]) /\ stream' = stream \o f
  BY RecordTypes DEF SendDirect
<1>1. /\ Contents(in) \in Seq(Byte) /\ x \in Seq(Byte) /\ x \o pipe \in Seq(Byte)
      /\ stream = (x \o pipe) \o Contents(out)
  BY Parts
<1>2. /\ side = "server" /\ readableBytes(out) = 0 /\ Contents(out) = <<>>
      /\ UNCHANGED <<side, in, eaten>> /\ out \in BufferType /\ pipe \in Seq(Byte)
      /\ in \in BufferType /\ eaten \in Seq(Byte) /\ writing \in BOOLEAN /\ side \in Sides
      /\ writing <=> readableBytes(out) > 0
  BY NothingReadable DEF SendDirect, StreamInv, WritesWhilePending
<1>3. PICK n \in 1 .. Len(f) :
        LET rest == SubSeq(f, n + 1, Len(f))
        IN /\ n <= Free
           /\ pipe' = pipe \o SubSeq(f, 1, n)
           /\ IF n < Len(f)
              THEN out' = append(out, rest) /\ EnableWriting
              ELSE UNCHANGED <<out, writing>>
  BY DEF SendDirect
<1> DEFINE u == SubSeq(f, 1, n)
           v == SubSeq(f, n + 1, Len(f))
<1>4. n \in Nat /\ n <= Len(f)
  BY <1>0
<1>5. /\ u \in Seq(Byte) /\ v \in Seq(Byte) /\ Len(v) = Len(f) - n /\ f = u \o v
  BY <1>0, <1>4, SplitBytes
<1>6. /\ pipe' = pipe \o u
      /\ n < Len(f) => out' = append(out, v) /\ writing' = TRUE
      /\ ~(n < Len(f)) => out' = out /\ writing' = writing
  BY <1>3 DEF EnableWriting
<1> HIDE DEF f, x, u, v
<1>7. out' \in BufferType /\ Contents(out') = v
  <2>1. CASE n < Len(f)
    <3>1. append(out, v) \in BufferType /\ Contents(append(out, v)) = <<>> \o v
      BY <1>2, <1>5, AppendAppends
    <3> QED BY <1>5, <1>6, <2>1, <3>1, ConcatEmptySeq
  <2>2. CASE ~(n < Len(f))
    <3>1. Len(v) = 0
      BY <1>0, <1>4, <1>5, <2>2
    <3> QED BY <1>2, <1>5, <1>6, <2>2, <3>1, EmptySeq
  <2> QED BY <2>1, <2>2
<1>8. (writing' <=> readableBytes(out') > 0) /\ writing' \in BOOLEAN
  <2>1. readableBytes(out') = Len(v)
    BY <1>7, ContentsProperties
  <2>2. CASE n < Len(f)
    <3>1. Len(v) > 0
      BY <1>0, <1>4, <1>5, <2>2
    <3> QED BY <1>6, <2>1, <2>2, <3>1
  <2>3. CASE ~(n < Len(f))
    BY <1>2, <1>6, <2>3
  <2> QED BY <2>2, <2>3
<1>9. pipe' \in Seq(Byte)
  BY <1>2, <1>5, <1>6, ConcatProperties
<1>10. stream' = (x \o pipe') \o Contents(out')
  <2>1. stream = x \o pipe
    BY <1>1, <1>2, ConcatEmptySeq
  <2>2. x \in Seq(Byte) /\ pipe \in Seq(Byte) /\ u \in Seq(Byte) /\ v \in Seq(Byte)
    BY <1>1, <1>2, <1>5
  <2>3. (x \o pipe) \o (u \o v) = (x \o (pipe \o u)) \o v
    <3> DEFINE w == x \o pipe
    <3>1. x \in Seq(Byte) /\ pipe \in Seq(Byte) /\ u \in Seq(Byte)
      BY <2>2
    <3>2. w \o u = x \o (pipe \o u)
      BY ONLY <3>1, ConcatAssociative, SMTT(30) DEF w
    <3>3. w \in Seq(Byte) /\ u \in Seq(Byte) /\ v \in Seq(Byte)
      BY <1>1, <2>2
    <3> HIDE DEF w
    <3>4. (w \o u) \o v = w \o (u \o v)
      BY <3>3, ConcatAssociative
    <3> QED BY <3>2, <3>4, Zenon DEF w
  <2> QED BY <1>0, <1>5, <1>6, <1>7, <2>1, <2>3
<1>11. StreamIntact'
  BY <1>2, <1>10 DEF StreamIntact, x
<1>12. WritesWhilePending'
  BY <1>8 DEF WritesWhilePending
<1>13. side' = "server" /\ side' \in Sides /\ in' = in /\ eaten' = eaten
  BY <1>2
<1> QED BY <1>0, <1>2, <1>7, <1>8, <1>9, <1>11, <1>12, <1>13 DEF StreamInv

\* send() of the server into the buffer.
LEMMA SendBufferedIntact ==
  ASSUME StreamInv, NEW data \in Payloads, SendBuffered(data)
  PROVE  StreamInv'
<1> DEFINE f == Frame(data)
           y == (eaten \o Contents(in)) \o pipe
<1>0. /\ f \in Seq(Byte) /\ Len(f) \in Nat \ {0}
      /\ sent' \in Seq([id : Nat, data : Payloads]) /\ stream' = stream \o f
  BY RecordTypes DEF SendBuffered
<1>1. /\ y \in Seq(Byte) /\ Contents(out) \in Seq(Byte) /\ stream = y \o Contents(out)
  BY Parts
<1>2. /\ side' = "server" /\ side' \in Sides /\ in' = in /\ eaten' = eaten /\ pipe' = pipe
      /\ out \in BufferType /\ pipe' \in Seq(Byte) /\ in' \in BufferType /\ eaten' \in Seq(Byte)
      /\ out' = append(out, f) /\ writing' = TRUE
  BY DEF SendBuffered, StreamInv, EnableWriting, Sides
<1> HIDE DEF f
<1>3. out' \in BufferType /\ Contents(out') = Contents(out) \o f
  BY <1>0, <1>2, AppendAppends
<1>4. StreamIntact'
  <2> HIDE DEF y
  <2> DEFINE c == Contents(out)
  <2>1. y \in Seq(Byte) /\ c \in Seq(Byte) /\ f \in Seq(Byte)
    BY <1>0, <1>1
  <2> HIDE DEF c
  <2>2. (y \o c) \o f = y \o (c \o f)
    BY <2>1, ConcatAssociative
  <2>3. (y \o Contents(out)) \o f = y \o (Contents(out) \o f)
    BY <2>2 DEF c
  <2>4. stream' = y \o Contents(out')
    BY <1>0, <1>1, <1>3, <2>3
  <2> QED BY <1>2, <2>4 DEF StreamIntact, y
<1>5. WritesWhilePending'
  <2>1. Len(Contents(out) \o f) = Len(Contents(out)) + Len(f) /\ Len(Contents(out)) \in Nat
    BY <1>0, <1>1, ConcatProperties, LenProperties
  <2>2. readableBytes(out') > 0
    BY <1>0, <1>3, <2>1, ContentsProperties
  <2> QED BY <1>2, <2>2 DEF WritesWhilePending
<1> QED BY <1>0, <1>2, <1>3, <1>4, <1>5 DEF StreamInv

\* send() of a client, in one write.
LEMMA SendRequestIntact ==
  ASSUME StreamInv, NEW data \in Payloads, SendRequest(data)
  PROVE  StreamInv'
<1> DEFINE f == Frame(data)
           x == eaten \o Contents(in)
<1>0. /\ f \in Seq(Byte) /\ sent' \in Seq([id : Nat, data : Payloads]) /\ stream' = stream \o f
  BY RecordTypes DEF SendRequest
<1>1. /\ x \in Seq(Byte) /\ x \o pipe \in Seq(Byte) /\ stream = (x \o pipe) \o Contents(out)
  BY Parts
<1>2. /\ out \in BufferType /\ pipe \in Seq(Byte) /\ pipe' = pipe \o f
      /\ readableBytes(out) = 0 /\ Contents(out) = <<>>
      /\ UNCHANGED <<side, out, writing, in, eaten>>
  BY NothingReadable DEF SendRequest, StreamInv
<1> HIDE DEF f, x
<1>3. pipe' \in Seq(Byte) /\ x \o pipe' \in Seq(Byte)
  BY <1>0, <1>1, <1>2, ConcatProperties
<1>4. stream' = (x \o pipe') \o <<>>
  <2>1. stream = x \o pipe /\ (x \o pipe') \o <<>> = x \o pipe'
    BY <1>1, <1>2, <1>3, ConcatEmptySeq
  <2>2. (x \o pipe) \o f = x \o (pipe \o f)
    BY <1>0, <1>1, <1>2, ConcatAssociative
  <2> QED BY <1>0, <1>2, <2>1, <2>2
<1>5. StreamIntact'
  BY <1>2, <1>4 DEF StreamIntact, x
<1> QED BY <1>0, <1>2, <1>3, <1>5 DEF StreamInv, WritesWhilePending

\* handleWrite.
LEMMA HandleWriteIntact ==
  ASSUME StreamInv, HandleWrite
  PROVE  StreamInv'
<1> DEFINE x == eaten \o Contents(in)
<1>1. /\ x \in Seq(Byte) /\ x \o pipe \in Seq(Byte) /\ stream = (x \o pipe) \o Contents(out)
      /\ readableBytes(out) \in Nat /\ Contents(out) \in Seq(Byte)
  BY Parts
<1>2. /\ out \in BufferType /\ pipe \in Seq(Byte) /\ UNCHANGED <<side, in, eaten, sent, stream>>
      /\ Len(Contents(out)) = readableBytes(out) /\ side # "client"
  BY ContentsProperties DEF HandleWrite, StreamInv, WritesWhilePending
<1>3. PICK n \in 0 .. readableBytes(out) :
        /\ n = 0 => readableBytes(out) = 0
        /\ pipe' = pipe \o SubSeq(Contents(out), 1, n)
        /\ out' = IF n > 0 THEN retrieve(out, n) ELSE out
        /\ DisableIfDone(out')
  BY DEF HandleWrite
<1> DEFINE u == SubSeq(Contents(out), 1, n)
<1>4. n \in Nat /\ n <= readableBytes(out)
  BY <1>1
<1>5. u \in Seq(Byte) /\ Len(u) = n
  BY <1>1, <1>2, <1>4, SplitBytes
<1>6. out' \in BufferType /\ Contents(out) = u \o Contents(out')
  <2>1. CASE n > 0
    BY <1>2, <1>3, <1>4, <2>1, RetrieveTakesFront
  <2>2. CASE ~(n > 0)
    <3>1. out' = out /\ u = <<>>
      BY <1>3, <1>4, <1>5, <2>2, EmptySeq
    <3> QED BY <1>1, <1>2, <3>1, ConcatEmptySeq
  <2> QED BY <2>1, <2>2
<1> HIDE DEF u, x
<1>7. pipe' = pipe \o u /\ pipe' \in Seq(Byte) /\ Contents(out') \in Seq(Byte)
  BY <1>2, <1>3, <1>5, <1>6, ConcatProperties, ContentsProperties DEF u
<1>8. stream' = (x \o pipe') \o Contents(out')
  <2> DEFINE w == x \o pipe
             v == Contents(out')
  <2>1. w \in Seq(Byte) /\ v \in Seq(Byte)
    BY <1>1, <1>7
  <2>2. x \in Seq(Byte) /\ pipe \in Seq(Byte) /\ u \in Seq(Byte)
    BY <1>1, <1>2, <1>5
  <2>3. w \o u = x \o (pipe \o u)
    BY <2>2, ConcatAssociative
  <2> HIDE DEF w, v
  <2>4. (w \o u) \o v = w \o (u \o v)
    BY <1>5, <2>1, ConcatAssociative
  <2>5. (x \o pipe) \o (u \o Contents(out')) = (x \o (pipe \o u)) \o Contents(out')
    BY <2>3, <2>4, Zenon DEF w, v
  <2> QED BY <1>1, <1>2, <1>6, <1>7, <2>5
<1>9. StreamIntact'
  BY <1>2, <1>8 DEF StreamIntact, x
<1>10. writing' \in BOOLEAN /\ WritesWhilePending'
  <2>1. writing' = (readableBytes(out') > 0)
    BY <1>3, Zenon DEF DisableIfDone
  <2>2. (readableBytes(out') > 0) \in BOOLEAN
    OBVIOUS
  <2> QED BY <2>1, <2>2, Zenon DEF WritesWhilePending
<1> QED BY <1>2, <1>6, <1>7, <1>9, <1>10 DEF StreamInv

\* handleRead.
LEMMA ReadIntact ==
  ASSUME StreamInv, Read
  PROVE  StreamInv'
<1>1. /\ Contents(in) \in Seq(Byte) /\ Len(pipe) \in Nat
      /\ stream = ((eaten \o Contents(in)) \o pipe) \o Contents(out)
  BY Parts
<1>2. /\ in \in BufferType /\ pipe \in Seq(Byte) /\ eaten \in Seq(Byte)
      /\ UNCHANGED <<side, out, writing, sent, stream, eaten>>
  BY DEF Read, StreamInv
<1>3. PICK n \in 1 .. Len(pipe) :
        /\ in' = readFd(in, SubSeq(pipe, 1, n))
        /\ pipe' = SubSeq(pipe, n + 1, Len(pipe))
  BY DEF Read
<1> DEFINE u == SubSeq(pipe, 1, n)
<1>4. n \in Nat /\ n <= Len(pipe)
  BY <1>1
<1>5. u \in Seq(Byte) /\ pipe' \in Seq(Byte) /\ pipe = u \o pipe'
  BY <1>2, <1>3, <1>4, SplitBytes
<1>6. in' = readFd(in, u)
  BY <1>3
<1> HIDE DEF u
<1>7. in' \in BufferType /\ Contents(in') = Contents(in) \o u
  BY <1>2, <1>5, <1>6, ReadFdAppends
<1>8. (eaten \o Contents(in)) \o (u \o pipe') = (eaten \o (Contents(in) \o u)) \o pipe'
  <2> DEFINE c == Contents(in)
             w == eaten \o c
             v == pipe'
  <2>1. c \in Seq(Byte) /\ eaten \in Seq(Byte) /\ u \in Seq(Byte) /\ v \in Seq(Byte)
    BY <1>1, <1>2, <1>5
  <2> HIDE DEF c, v
  <2>2. w \in Seq(Byte)
    BY <2>1, ConcatProperties
  <2>3. eaten \in Seq(Byte) /\ c \in Seq(Byte) /\ u \in Seq(Byte)
    BY <2>1
  <2>4. w \o u = eaten \o (c \o u)
    BY <2>3, ConcatAssociative
  <2> HIDE DEF w
  <2>5. w \in Seq(Byte) /\ u \in Seq(Byte) /\ v \in Seq(Byte)
    BY <2>1, <2>2
  <2>6. (w \o u) \o v = w \o (u \o v)
    BY <2>5, ConcatAssociative
  <2> QED BY <2>4, <2>6, Zenon DEF c, v, w
<1>9. StreamIntact'
  BY <1>1, <1>2, <1>5, <1>7, <1>8 DEF StreamIntact
<1> QED BY <1>2, <1>5, <1>7, <1>9 DEF StreamInv, WritesWhilePending

\* One call of tryUnpackWithId.
LEMMA DecodeIntact ==
  ASSUME StreamInv, Decode
  PROVE  StreamInv'
<1> DEFINE buf == tryUnpackWithId(in).buf
<1>1. /\ Contents(in) \in Seq(Byte)
      /\ stream = ((eaten \o Contents(in)) \o pipe) \o Contents(out)
  BY Parts
<1>2. /\ in \in BufferType /\ eaten \in Seq(Byte) /\ pipe \in Seq(Byte)
      /\ UNCHANGED <<side, out, writing, pipe, sent, stream>>
      /\ in' = buf
      /\ eaten' = eaten \o SubSeq(Contents(in), 1, readableBytes(in) - readableBytes(buf))
  BY DEF Decode, StreamInv
<1>3. RestOf(in, buf)
  BY <1>2, UnpackLeavesRest
<1> HIDE DEF buf
<1>4. PICK u \in Seq(Byte) : Contents(in) = u \o Contents(buf)
  BY <1>3 DEF RestOf
<1>5. buf \in BufferType /\ Contents(buf) \in Seq(Byte)
  BY <1>3, ContentsProperties DEF RestOf
<1>6. readableBytes(in) - readableBytes(buf) = Len(u)
  <2>1. Len(u \o Contents(buf)) = Len(u) + Len(Contents(buf)) /\ Len(u) \in Nat
    BY <1>5, ConcatProperties, LenProperties
  <2>2. /\ Len(Contents(in)) = readableBytes(in) /\ Len(Contents(buf)) = readableBytes(buf)
        /\ readableBytes(in) \in Nat /\ readableBytes(buf) \in Nat
    BY <1>2, <1>5, ContentsProperties
  <2> QED BY <1>4, <2>1, <2>2
<1>7. eaten' = eaten \o u /\ eaten' \in Seq(Byte)
  <2>1. SubSeq(u \o Contents(buf), 1, Len(u)) = u
    BY <1>5, FirstPart, Zenon
  <2>2. eaten' = eaten \o u
    BY <1>2, <1>4, <1>6, <2>1, Zenon
  <2> QED BY <1>2, <2>2, ConcatProperties
<1>8. eaten' \o Contents(in') = eaten \o Contents(in)
  <2> DEFINE c == Contents(buf)
  <2>1. c \in Seq(Byte) /\ eaten \in Seq(Byte)
    BY <1>2, <1>5
  <2> HIDE DEF c
  <2>2. (eaten \o u) \o c = eaten \o (u \o c)
    BY <2>1, ConcatAssociative
  <2>3. (eaten \o u) \o Contents(buf) = eaten \o (u \o Contents(buf))
    BY <2>2, Zenon DEF c
  <2> QED BY <1>2, <1>4, <1>7, <2>3, Zenon
<1>9. StreamIntact'
  BY <1>1, <1>2, <1>8 DEF StreamIntact
<1> QED BY <1>2, <1>5, <1>7, <1>9 DEF StreamInv, WritesWhilePending

\* The invariant is inductive.
LEMMA StepIntact == StreamInv /\ [Next]_vars => StreamInv'
<1> SUFFICES ASSUME StreamInv, [Next]_vars PROVE StreamInv'
  OBVIOUS
<1>1. ASSUME NEW data \in Payloads, SendDirect(data) \/ SendBuffered(data) \/ SendRequest(data)
      PROVE  StreamInv'
  BY <1>1, SendDirectIntact, SendBufferedIntact, SendRequestIntact
<1>2. CASE FallShort
  BY <1>2 DEF FallShort, StreamInv, StreamIntact, WritesWhilePending
<1>3. CASE HandleWrite
  BY <1>3, HandleWriteIntact
<1>4. CASE Read
  BY <1>4, ReadIntact
<1>5. CASE Decode
  BY <1>5, DecodeIntact
<1>6. CASE Idle \/ UNCHANGED vars
  <2>1. /\ side' = side /\ out' = out /\ writing' = writing /\ pipe' = pipe /\ in' = in
        /\ sent' = sent /\ stream' = stream /\ eaten' = eaten
    BY <1>6 DEF Idle, vars
  <2> QED BY <2>1 DEF StreamInv, StreamIntact, WritesWhilePending
<1> QED BY <1>1, <1>2, <1>3, <1>4, <1>5, <1>6 DEF Next

\* Whatever the sizes of buffers, frames and socket, and whoever sends: no byte is lost,
\* doubled or moved between send() and the decoder (TcpConnection, Buffer).
THEOREM NoByteIsLost == Spec => []StreamIntact
<1>1. StreamInv => StreamIntact
  BY DEF StreamInv
<1> QED BY <1>1, InitIntact, StepIntact, PTL DEF Spec

\* EPOLLOUT is asked for exactly while outputBuffer_ holds something (send, handleWrite).
THEOREM WritingIsPending == Spec => []WritesWhilePending
<1>1. StreamInv => WritesWhilePending
  BY DEF StreamInv
<1> QED BY <1>1, InitIntact, StepIntact, PTL DEF Spec
-----------------------------------------------------------------------------
(* Numbers in network byte order.                                         *)

\* A digit of n: what is left of it above the place of weight w is the next quotient.
LEMMA NextQuotient ==
  ASSUME NEW n \in Nat, NEW w \in Nat \ {0}, Base \in Nat \ {0}
  PROVE  (n \div w) = (n \div (Base * w)) * Base + ((n \div w) % Base)
<1> DEFINE m == n \div w
           c == m \div Base
<1>1. n = w * m + (n % w) /\ m \in Nat /\ n % w \in 0 .. w - 1
  OBVIOUS
<1>2. m = Base * c + (m % Base) /\ c \in Nat /\ m % Base \in 0 .. Base - 1
  <2>1. m \in Nat
    BY <1>1
  <2> HIDE DEF m
  <2> QED BY <2>1
<1> DEFINE d == m % Base
           r == n % w
           B == Base * w
<1>3. B \in Nat \ {0}
  OBVIOUS
<1>4. w * d + r \in 0 .. B - 1
  <2> HIDE DEF m, r, d
  <2>1. w \in Nat \ {0} /\ d \in 0 .. Base - 1 /\ r \in 0 .. w - 1 /\ Base \in Nat \ {0}
    BY <1>1, <1>2 DEF r, d
  <2>2. w * d <= w * (Base - 1)
    BY <2>1
  <2>3. w * (Base - 1) = B - w
    BY <2>1
  <2>4. w * d \in Nat
    BY <2>1
  <2> HIDE DEF B
  <2> QED BY <2>1, <2>2, <2>3, <2>4, <1>3
<1>5. n = B * c + (w * d + r)
  <2> HIDE DEF m, r, d, c
  <2>1. n = w * m + r /\ m = Base * c + d /\ c \in Nat /\ d \in Int /\ r \in Int /\ Base \in Int
    BY <1>1, <1>2 DEF r, d
  <2>2. w * (Base * c + d) = w * (Base * c) + w * d
    BY <2>1
  <2>3. w * (Base * c) = B * c
    BY <2>1
  <2> QED BY <2>1, <2>2, <2>3
<1>6. n \div B = c
  <2>1. c \in Int
    BY <1>2
  <2> HIDE DEF m, r, d, c, B
  <2>2. (B * c + (w * d + r)) \div B = c
    BY <1>3, <1>4, <2>1, QuotientIs
  <2> QED BY <1>5, <2>2
<1>7. c * Base = Base * c
  BY <1>2
<1> QED BY <1>2, <1>6, <1>7

\* ntohl gives back what htonl was given.
LEMMA NumberOfBigEndian ==
  ASSUME NEW k \in 0 .. LenSize + IdSize, NEW n \in Nat, n < Base ^ k
  PROVE  Number(BigEndian(n, k)) = n
<1> DEFINE s == BigEndian(n, k)
           E(f) == [i \in 0 .. Len(s) |-> IF i = 0 THEN 0 ELSE f[i - 1] * Base + s[i]]
           value == CHOOSE f : f = E(f)
           g == [i \in 0 .. Len(s) |-> n \div Base ^ (k - i)]
<1>0. /\ Base \in Nat \ {0} /\ Byte = 0 .. Base - 1 /\ LenSize \in Nat /\ IdSize \in Nat
      /\ \A j \in 0 .. LenSize + IdSize : Base ^ j \in Nat \ {0}
      /\ Base ^ 0 = 1 /\ \A j \in 1 .. LenSize + IdSize : Base ^ j = Base * Base ^ (j - 1)
  BY CodecAssumption
<1>1. Number(s) = value[Len(s)]
  BY DEF Number
<1>2. /\ k \in Nat /\ Len(s) = k
      /\ \A i \in 1 .. k : s[i] = (n \div Base ^ (k - i)) % Base
  <2>1. k \in Nat /\ s = [i \in 1 .. k |-> (n \div Base ^ (k - i)) % Base]
    BY <1>0 DEF BigEndian
  <2> QED BY <2>1
<1>3. ASSUME NEW i \in 1 .. k
      PROVE  n \div Base ^ (k - i) = (n \div Base ^ (k - (i - 1))) * Base + s[i]
  <2> DEFINE w == Base ^ (k - i)
  <2>1. /\ k - i \in 0 .. LenSize + IdSize /\ k - (i - 1) \in 1 .. LenSize + IdSize
        /\ (k - (i - 1)) - 1 = k - i
    BY <1>0, <1>2
  <2>2. w \in Nat \ {0} /\ Base ^ (k - (i - 1)) = Base * w
    BY <1>0, <2>1
  <2>3. s[i] = (n \div w) % Base
    BY <1>2
  <2> HIDE DEF w, s
  <2>4. (n \div w) = (n \div (Base * w)) * Base + ((n \div w) % Base)
    BY <1>0, <2>2, NextQuotient
  <2>5. (n \div w) = (n \div Base ^ (k - (i - 1))) * Base + s[i]
    BY <2>2, <2>3, <2>4
  <2> QED BY <2>5 DEF w
<1> HIDE DEF s
<1>4. n \div Base ^ k = 0 /\ n \div Base ^ 0 = n
  <2> DEFINE w == Base ^ k
  <2>1. w \in Nat \ {0} /\ n \in 0 .. w - 1
    BY <1>0
  <2> HIDE DEF w
  <2>2. n \div w = 0
    BY <2>1
  <2> QED BY <1>0, <2>2 DEF w
<1>5. g = E(g)
  <2>1. ASSUME NEW i \in 0 .. Len(s) PROVE g[i] = IF i = 0 THEN 0 ELSE g[i - 1] * Base + s[i]
    <3>1. CASE i = 0
      <4>1. g[i] = n \div Base ^ (k - 0) /\ k - 0 = k
        BY <3>1, <1>2
      <4> QED BY <3>1, <4>1, <1>4
    <3>2. CASE i # 0
      <4>1. i \in 1 .. k /\ i - 1 \in 0 .. Len(s)
        BY <3>2, <1>2
      <4>2. g[i] = n \div Base ^ (k - i) /\ g[i - 1] = n \div Base ^ (k - (i - 1))
        BY <4>1
      <4> HIDE DEF g
      <4> QED BY <3>2, <4>1, <4>2, <1>3
    <3> QED BY <3>1, <3>2
  <2> HIDE DEF g
  <2>2. g = [i \in 0 .. Len(s) |-> g[i]]
    BY DEF g
  <2> QED BY <2>1, <2>2
<1>6. value = E(value)
  <2> HIDE DEF g
  <2>1. \E f : f = E(f)
    BY <1>5
  <2> QED BY <2>1, Zenon
<1> HIDE DEF value
<1>7. ASSUME NEW i \in 0 .. k PROVE value[i] = n \div Base ^ (k - i)
  <2> DEFINE T == {j \in 0 .. k : value[j] # n \div Base ^ (k - j)}
  <2>1. SUFFICES ASSUME T # {} PROVE FALSE
    OBVIOUS
  <2>2. PICK m \in T : \A j \in T : m <= j
    <3>1. T \subseteq Nat
      BY <1>2
    <3> HIDE DEF T
    <3> QED BY <2>1, <3>1, Least
  <2>3. m \in 0 .. Len(s) /\ value[m] # n \div Base ^ (k - m)
    BY <1>2, <2>2
  <2>4. value[m] = IF m = 0 THEN 0 ELSE value[m - 1] * Base + s[m]
    BY <1>6, <2>3
  <2>5. CASE m = 0
    <3>1. k - 0 = k
      BY <1>2
    <3> QED BY <2>3, <2>4, <2>5, <1>4, <3>1
  <2>6. CASE m # 0
    <3>1. m \in 1 .. k /\ m - 1 \in 0 .. k /\ ~(m <= m - 1)
      BY <2>3, <2>6, <1>2
    <3>2. value[m - 1] = n \div Base ^ (k - (m - 1))
      BY <3>1, <2>2
    <3> QED BY <2>3, <2>4, <2>6, <3>1, <3>2, <1>3
  <2> QED BY <2>5, <2>6
<1>8. k \in 0 .. k /\ k - k = 0
  BY <1>2
<1>9. value[k] = n
  BY <1>4, <1>7, <1>8
<1> QED BY <1>1, <1>2, <1>9 DEF s

-----------------------------------------------------------------------------
(* One frame.                                                              *)

\* The three parts of a frame.
LEMMA FrameParts ==
  ASSUME NEW id \in Nat, NEW data \in Seq(Byte)
  PROVE  LET f == packWithId(id, data)
         IN /\ Len(f) = LenSize + IdSize + Len(data)
            /\ \A i \in 1 .. LenSize : f[i] = BigEndian(IdSize + Len(data), LenSize)[i]
            /\ \A i \in 1 .. IdSize : f[LenSize + i] = BigEndian(id, IdSize)[i]
            /\ \A i \in 1 .. Len(data) : f[LenSize + IdSize + i] = data[i]
<1> DEFINE u == BigEndian(IdSize + Len(data), LenSize)
           v == BigEndian(id, IdSize)
           f == packWithId(id, data)
<1>0. LenSize \in Nat \ {0} /\ IdSize \in Nat /\ Len(data) \in Nat
  BY CodecAssumption, LenProperties
<1>1. /\ IdSize + Len(data) \in Nat
      /\ LenSize \in 0 .. LenSize + IdSize /\ IdSize \in 0 .. LenSize + IdSize
  BY <1>0
<1>2. u \in Seq(Byte) /\ Len(u) = LenSize /\ v \in Seq(Byte) /\ Len(v) = IdSize
  BY <1>1, BigEndianBytes
<1>3. f = (u \o v) \o data
  BY DEF packWithId
<1> HIDE DEF u, v, f
<1>4. /\ u \o v \in Seq(Byte) /\ Len(u \o v) = LenSize + IdSize
      /\ \A i \in 1 .. LenSize + IdSize :
           (u \o v)[i] = IF i <= LenSize THEN u[i] ELSE v[i - LenSize]
  BY <1>2, ConcatProperties
<1>5. /\ Len(f) = LenSize + IdSize + Len(data)
      /\ \A i \in 1 .. LenSize + IdSize + Len(data) :
           f[i] = IF i <= LenSize + IdSize THEN (u \o v)[i] ELSE data[i - (LenSize + IdSize)]
  BY <1>3, <1>4, ConcatProperties
<1>6. ASSUME NEW i \in 1 .. LenSize PROVE f[i] = u[i]
  <2>1. i \in 1 .. LenSize + IdSize /\ i \in 1 .. LenSize + IdSize + Len(data)
        /\ i <= LenSize /\ i <= LenSize + IdSize
    BY <1>0
  <2> QED BY <1>4, <1>5, <2>1
<1>7. ASSUME NEW i \in 1 .. IdSize PROVE f[LenSize + i] = v[i]
  <2> DEFINE j == LenSize + i
  <2>1. /\ j \in 1 .. LenSize + IdSize /\ j \in 1 .. LenSize + IdSize + Len(data)
        /\ ~(j <= LenSize) /\ j <= LenSize + IdSize /\ j - LenSize = i
    BY <1>0
  <2> QED BY <1>4, <1>5, <2>1
<1>8. ASSUME NEW i \in 1 .. Len(data) PROVE f[LenSize + IdSize + i] = data[i]
  <2> DEFINE j == LenSize + IdSize + i
  <2>1. /\ j \in 1 .. LenSize + IdSize + Len(data)
        /\ ~(j <= LenSize + IdSize) /\ j - (LenSize + IdSize) = i
    BY <1>0
  <2> QED BY <1>5, <2>1
<1> QED BY <1>5, <1>6, <1>7, <1>8 DEF u, v, f

\* The first n bytes of c, when they are those of t.
LEMMA FirstBytes ==
  ASSUME NEW c \in Seq(Byte), NEW n \in Nat, n <= Len(c), NEW t \in Seq(Byte), Len(t) = n,
         \A i \in 1 .. n : c[i] = t[i]
  PROVE  SubSeq(c, 1, n) = t
<1> DEFINE u == SubSeq(c, 1, n)
<1>1. u \in Seq(Byte) /\ Len(u) = n
  BY SplitBytes
<1>2. \A i \in 1 .. n : u[i] = c[i]
  <2>1. SubSeq(c, 0 + 1, 0 + n) = u
    OBVIOUS
  <2>2. 0 + n <= Len(c) /\ 0 \in Nat
    OBVIOUS
  <2>3. \A i \in 1 .. n : SubSeq(c, 0 + 1, 0 + n)[i] = c[0 + i]
    BY <2>2, PartOfBytes
  <2> HIDE DEF u
  <2> QED BY <2>1, <2>3
<1> HIDE DEF u
<1>3. u = t
  BY <1>1, <1>2, SeqEqual
<1> QED BY <1>3 DEF u

\* What is readable after retrieve was readable before, further on.
LEMMA RetrieveShifts ==
  ASSUME NEW b \in BufferType, NEW n \in Nat, n <= readableBytes(b)
  PROVE  LET r == retrieve(b, n)
         IN /\ r \in BufferType /\ Contents(r) \in Seq(Byte)
            /\ readableBytes(r) = readableBytes(b) - n
            /\ Len(Contents(r)) = readableBytes(b) - n
            /\ \A i \in 1 .. readableBytes(b) - n : Contents(r)[i] = Contents(b)[n + i]
<1> DEFINE r == retrieve(b, n)
           c == Contents(b)
           u == SubSeq(c, 1, n)
<1>1. /\ r \in BufferType /\ readableBytes(r) = readableBytes(b) - n
      /\ c = u \o Contents(r)
  BY RetrieveTakesFront
<1>2. /\ c \in Seq(Byte) /\ Len(c) = readableBytes(b) /\ readableBytes(b) \in Nat
      /\ Contents(r) \in Seq(Byte) /\ Len(Contents(r)) = readableBytes(b) - n
  BY <1>1, ContentsProperties
<1>3. u \in Seq(Byte) /\ Len(u) = n
  BY <1>2, SplitBytes
<1> HIDE DEF r, c, u
<1>4. ASSUME NEW i \in 1 .. readableBytes(b) - n PROVE Contents(r)[i] = c[n + i]
  <2>1. \A j \in 1 .. Len(u) + Len(Contents(r)) :
          (u \o Contents(r))[j] = IF j <= Len(u) THEN u[j] ELSE Contents(r)[j - Len(u)]
    BY <1>2, <1>3, ConcatProperties
  <2>2. n + i \in 1 .. Len(u) + Len(Contents(r)) /\ ~(n + i <= Len(u)) /\ (n + i) - Len(u) = i
    BY <1>2, <1>3
  <2> QED BY <1>1, <2>1, <2>2
<1> QED BY <1>1, <1>2, <1>4 DEF r, c

\* tryUnpackWithId finds the frame a buffer begins with, once it is complete, and takes
\* exactly its bytes; before that it takes none.
LEMMA UnpackFrame ==
  ASSUME NEW b \in BufferType, NEW id \in Nat, id < Base ^ IdSize,
         NEW data \in Seq(Byte), IdSize + Len(data) <= MaxLen,
         NEW f, f = packWithId(id, data),
         \A i \in 1 .. readableBytes(b) : i <= Len(f) => Contents(b)[i] = f[i]
  PROVE  LET r == tryUnpackWithId(b)
         IN /\ readableBytes(b) < Len(f) => r = Unpacked(b, 0, <<>>)
            /\ readableBytes(b) >= Len(f) =>
                 /\ r.id = id /\ r.data = data
                 /\ r.buf \in BufferType
                 /\ readableBytes(r.buf) = readableBytes(b) - Len(f)
<1> DEFINE c == Contents(b)
           R == readableBytes(b)
           L == IdSize + Len(data)
           len == Signed(Number(SubSeq(c, 1, LenSize)))
           body == retrieve(b, LenSize)
           rest == retrieve(body, IdSize)
           r == tryUnpackWithId(b)
<1>0. /\ LenSize \in Nat \ {0} /\ IdSize \in Nat /\ MaxLen \in Nat /\ Len(data) \in Nat
      /\ MaxLen < Base ^ LenSize \div 2 /\ Base ^ LenSize \in Nat \ {0}
      /\ LenSize \in 0 .. LenSize + IdSize /\ IdSize \in 0 .. LenSize + IdSize
  <2>1. LenSize \in Nat \ {0} /\ IdSize \in Nat
    BY CodecAssumption
  <2>2. LenSize \in 0 .. LenSize + IdSize /\ IdSize \in 0 .. LenSize + IdSize
    BY <2>1
  <2> QED BY <2>1, <2>2, CodecAssumption, LenProperties
<1>1. c \in Seq(Byte) /\ Len(c) = R /\ R \in Nat
  BY ContentsProperties
<1>2. /\ Len(f) = LenSize + L /\ L \in Nat
      /\ \A i \in 1 .. LenSize : f[i] = BigEndian(L, LenSize)[i]
      /\ \A i \in 1 .. IdSize : f[LenSize + i] = BigEndian(id, IdSize)[i]
      /\ \A i \in 1 .. Len(data) : f[LenSize + IdSize + i] = data[i]
  <2>1. LenSize + IdSize + Len(data) = LenSize + L /\ L \in Nat
    BY <1>0
  <2> QED BY <2>1, FrameParts
<1>3. CASE R < LenSize
  <2>1. r = Unpacked(b, 0, <<>>)
    <3>1. ~(readableBytes(b) >= LenSize)
      BY <1>0, <1>1, <1>3
    <3> QED BY <3>1 DEF tryUnpackWithId
  <2> QED BY <1>0, <1>1, <1>2, <1>3, <2>1
<1>4. CASE R >= LenSize
  <2>1. len = L
    <3> DEFINE t == BigEndian(L, LenSize)
               w == Base ^ LenSize
    <3>1. t \in Seq(Byte) /\ Len(t) = LenSize
      BY <1>0, <1>2, BigEndianBytes
    <3>2. \A i \in 1 .. LenSize : c[i] = t[i]
      <4>1. ASSUME NEW i \in 1 .. LenSize PROVE c[i] = t[i]
        <5>1. i \in 1 .. readableBytes(b) /\ i <= Len(f)
          BY <1>0, <1>1, <1>2, <1>4
        <5> QED BY <1>2, <5>1
      <4> QED BY <4>1
    <3>3. SubSeq(c, 1, LenSize) = t
      <4> HIDE DEF t, c
      <4> QED BY <1>0, <1>1, <1>4, <3>1, <3>2, FirstBytes
    <3>4. L < w \div 2 /\ w \in Nat \ {0}
      BY <1>0, <1>2
    <3>5. L < w
      <4> HIDE DEF w, L
      <4> QED BY <3>4, <1>2
    <3>6. Number(t) = L
      BY <1>0, <1>2, <3>5, NumberOfBigEndian
    <3>7. Signed(L) = L
      <4>1. ~(L >= w \div 2)
        <5> HIDE DEF w, L
        <5> QED BY <3>4, <1>2
      <4> QED BY <4>1 DEF Signed
    <3> QED BY <3>3, <3>6, <3>7
  <2>2. len \in 0 .. MaxLen /\ len >= IdSize /\ ~(len < IdSize) /\ len - IdSize = Len(data)
    BY <1>0, <1>2, <2>1
  <2>3. CASE R < Len(f)
    <3>1. ~(readableBytes(b) >= LenSize + len)
      BY <1>0, <1>1, <1>2, <2>1, <2>3
    <3>2. r = Unpacked(b, 0, <<>>)
      BY <1>4, <2>2, <3>1 DEF tryUnpackWithId
    <3> QED BY <1>1, <1>2, <2>3, <3>2
  <2>4. CASE R >= Len(f)
    <3>1. readableBytes(b) >= LenSize + len
      BY <1>0, <1>1, <1>2, <2>1, <2>4
    <3>2. r = Unpacked(retrieve(rest, len - IdSize),
                       Number(SubSeq(Contents(body), 1, IdSize)),
                       SubSeq(Contents(rest), 1, len - IdSize))
      BY <1>4, <2>2, <3>1 DEF tryUnpackWithId
    <3>3. r = Unpacked(retrieve(rest, Len(data)),
                       Number(SubSeq(Contents(body), 1, IdSize)),
                       SubSeq(Contents(rest), 1, Len(data)))
      BY <2>2, <3>2
    <3> HIDE DEF r, len
    <3>4. /\ body \in BufferType /\ Contents(body) \in Seq(Byte)
          /\ readableBytes(body) = R - LenSize /\ Len(Contents(body)) = R - LenSize
          /\ \A i \in 1 .. R - LenSize : Contents(body)[i] = c[LenSize + i]
      BY <1>0, <1>1, <1>4, RetrieveShifts
    <3> HIDE DEF body
    <3>5. IdSize <= readableBytes(body) /\ Len(data) <= R - LenSize - IdSize
          /\ R - LenSize - IdSize \in Nat /\ (R - LenSize) - IdSize = R - LenSize - IdSize
      BY <1>0, <1>1, <1>2, <2>4, <3>4
    <3>6. /\ rest \in BufferType /\ Contents(rest) \in Seq(Byte)
          /\ readableBytes(rest) = R - LenSize - IdSize
          /\ Len(Contents(rest)) = R - LenSize - IdSize
          /\ \A i \in 1 .. R - LenSize - IdSize : Contents(rest)[i] = Contents(body)[IdSize + i]
      <4>1. /\ rest \in BufferType /\ Contents(rest) \in Seq(Byte)
            /\ readableBytes(rest) = readableBytes(body) - IdSize
            /\ Len(Contents(rest)) = readableBytes(body) - IdSize
            /\ \A i \in 1 .. readableBytes(body) - IdSize :
                 Contents(rest)[i] = Contents(body)[IdSize + i]
        BY <1>0, <3>4, <3>5, RetrieveShifts
      <4>2. readableBytes(body) - IdSize = R - LenSize - IdSize
        BY <3>4
      <4> HIDE DEF rest
      <4> QED BY <4>1, <4>2
    <3> HIDE DEF rest
    <3>7. Number(SubSeq(Contents(body), 1, IdSize)) = id
      <4> DEFINE t == BigEndian(id, IdSize)
      <4>1. t \in Seq(Byte) /\ Len(t) = IdSize
        BY <1>0, BigEndianBytes
      <4>2. ASSUME NEW i \in 1 .. IdSize PROVE Contents(body)[i] = t[i]
        <5>1. i \in 1 .. R - LenSize /\ LenSize + i \in 1 .. readableBytes(b)
              /\ LenSize + i <= Len(f)
          BY <1>0, <1>1, <1>2, <2>4, <3>5
        <5>2. Contents(body)[i] = c[LenSize + i] /\ c[LenSize + i] = f[LenSize + i]
          BY <3>4, <5>1
        <5> QED BY <1>2, <5>2
      <4>3. SubSeq(Contents(body), 1, IdSize) = t
        <5> HIDE DEF t
        <5> QED BY <1>0, <3>4, <3>5, <4>1, <4>2, FirstBytes
      <4> QED BY <1>0, <4>3, NumberOfBigEndian
    <3>8. SubSeq(Contents(rest), 1, Len(data)) = data
      <4>1. ASSUME NEW i \in 1 .. Len(data) PROVE Contents(rest)[i] = data[i]
        <5>1. /\ i \in 1 .. R - LenSize - IdSize /\ IdSize + i \in 1 .. R - LenSize
              /\ LenSize + (IdSize + i) \in 1 .. readableBytes(b)
              /\ LenSize + (IdSize + i) <= Len(f)
              /\ LenSize + (IdSize + i) = LenSize + IdSize + i
          BY <1>0, <1>1, <1>2, <2>4, <3>5
        <5>2. Contents(rest)[i] = f[LenSize + (IdSize + i)]
          BY <3>4, <3>6, <5>1
        <5> QED BY <1>2, <5>1, <5>2
      <4> QED BY <1>0, <3>5, <3>6, <4>1, FirstBytes
    <3>9. /\ retrieve(rest, Len(data)) \in BufferType
          /\ readableBytes(retrieve(rest, Len(data))) = R - Len(f)
      <4>1. (R - LenSize - IdSize) - Len(data) = R - Len(f)
        <5>1. Len(f) = LenSize + (IdSize + Len(data)) /\ R \in Int
          BY <1>1, <1>2
        <5> HIDE DEF R
        <5> QED BY <1>0, <5>1
      <4> QED BY <1>0, <3>5, <3>6, <4>1, RetrieveTakesFront
    <3>10. r.id = id /\ r.data = data /\ r.buf = retrieve(rest, Len(data))
      BY <3>3, <3>7, <3>8 DEF Unpacked
    <3>11. ~(R < Len(f))
      BY <1>0, <1>1, <1>2, <2>4
    <3> QED BY <3>9, <3>10, <3>11 DEF r
  <2> QED BY <1>0, <1>1, <1>2, <2>3, <2>4
<1> QED BY <1>0, <1>1, <1>3, <1>4

-----------------------------------------------------------------------------
(* The frames in the stream.                                               *)

FrameOf(i) == packWithId(i, sent[i].data)

\* The frames of the first i messages sent are the first b[i] bytes of the stream.
Boundaries(b) ==
  /\ b \in [0 .. Len(sent) -> Nat]
  /\ b[0] = 0 /\ b[Len(sent)] = Len(stream)
  /\ \A i \in 1 .. Len(sent) :
       /\ sent[i].id = i
       /\ b[i] = b[i - 1] + Len(FrameOf(i))
       /\ \A j \in 1 .. Len(FrameOf(i)) : stream[b[i - 1] + j] = FrameOf(i)[j]

WithBytes(k) == {j \in 1 .. k : sent[j].data # <<>>}

\* The receiver has got the messages with bytes among the first k, in order.
GotFirst(k) ==
  /\ k \in 0 .. Len(sent)
  /\ Range(received) = {sent[i] : i \in WithBytes(k)}
  /\ \A i, j \in 1 .. Len(received) : i < j => received[i].id < received[j].id

\* What the receiver has taken ends where a frame ends, and what it has got are the
\* messages of the frames taken.
FrameInv ==
  /\ Len(sent) <= MaxSends
  /\ decoding \in BOOLEAN /\ torn \in BOOLEAN
  /\ received \in Seq([id : Nat, data : Payloads])
  /\ \E b, k : Boundaries(b) /\ GotFirst(k) /\ Len(eaten) = b[k]

\* A step that neither sends nor decodes.
LEMMA KeepsFrames ==
  ASSUME FrameInv, UNCHANGED <<sent, stream, eaten, received>>,
         decoding' \in BOOLEAN, torn' \in BOOLEAN
  PROVE  FrameInv'
<1>1. PICK b, k : Boundaries(b) /\ GotFirst(k) /\ Len(eaten) = b[k]
  BY DEF FrameInv
<1>2. sent' = sent /\ stream' = stream /\ eaten' = eaten /\ received' = received
  OBVIOUS
<1>3. Boundaries(b)' /\ GotFirst(k)' /\ Len(eaten') = b[k]
  BY <1>1, <1>2 DEF Boundaries, GotFirst, FrameOf, WithBytes
<1>4. Len(sent') <= MaxSends /\ received' \in Seq([id : Nat, data : Payloads])
  BY <1>2 DEF FrameInv
<1> QED BY <1>3, <1>4 DEF FrameInv

\* The bytes of a stream before those that are added.
LEMMA OldBytes ==
  ASSUME NEW s \in Seq(Byte), NEW f \in Seq(Byte)
  PROVE  /\ s \o f \in Seq(Byte) /\ Len(s \o f) = Len(s) + Len(f)
         /\ \A i \in 1 .. Len(s) : (s \o f)[i] = s[i]
         /\ \A i \in 1 .. Len(f) : (s \o f)[Len(s) + i] = f[i]
<1>1. /\ Len(s) \in Nat /\ Len(f) \in Nat
      /\ s \o f \in Seq(Byte) /\ Len(s \o f) = Len(s) + Len(f)
      /\ \A i \in 1 .. Len(s) + Len(f) :
           (s \o f)[i] = IF i <= Len(s) THEN s[i] ELSE f[i - Len(s)]
  BY LenProperties, ConcatProperties
<1>2. ASSUME NEW i \in 1 .. Len(s) PROVE (s \o f)[i] = s[i]
  <2>1. i \in 1 .. Len(s) + Len(f) /\ i <= Len(s)
    BY <1>1
  <2> QED BY <1>1, <2>1
<1>3. ASSUME NEW i \in 1 .. Len(f) PROVE (s \o f)[Len(s) + i] = f[i]
  <2>1. Len(s) + i \in 1 .. Len(s) + Len(f) /\ ~(Len(s) + i <= Len(s)) /\ Len(s) + i - Len(s) = i
    BY <1>1
  <2> QED BY <1>1, <2>1
<1> QED BY <1>1, <1>2, <1>3

\* Sending adds a frame behind the others.
LEMMA RecordFrames ==
  ASSUME StreamInv, FrameInv, NEW data \in Payloads, Record(data),
         UNCHANGED <<eaten, received, decoding, torn>>
  PROVE  FrameInv'
<1> DEFINE N == Len(sent)
           M == [id : Nat, data : Payloads]
           m == Message(data)
           f == Frame(data)
<1>1. PICK b, k : Boundaries(b) /\ GotFirst(k) /\ Len(eaten) = b[k]
  BY DEF FrameInv
<1>2. /\ f \in Seq(Byte) /\ sent' \in Seq(M) /\ stream' = stream \o f /\ stream \in Seq(Byte)
      /\ sent \in Seq(M) /\ N \in Nat /\ N < MaxSends /\ sent' = Append(sent, m)
      /\ m = [id |-> N + 1, data |-> data]
  <2>1. stream \in Seq(Byte)
    <3>1. /\ (eaten \o Contents(in)) \o pipe \in Seq(Byte) /\ Contents(out) \in Seq(Byte)
          /\ stream = ((eaten \o Contents(in)) \o pipe) \o Contents(out)
      BY Parts
    <3> QED BY <3>1, ConcatProperties
  <2>2. sent \in Seq(M) /\ N \in Nat
    BY LenProperties DEF StreamInv
  <2> QED BY <2>1, <2>2, RecordTypes DEF Record, Message
<1>3. f = packWithId(N + 1, data)
  BY DEF Frame
<1> HIDE DEF f, m
<1>4. m \in M /\ m.id = N + 1 /\ m.data = data
  BY <1>2
<1> HIDE DEF M
<1>5. /\ Len(sent') = N + 1 /\ sent'[N + 1] = m
      /\ \A i \in 1 .. N : sent'[i] = sent[i]
  BY <1>2, <1>4, AppendProperties
<1>6. /\ Len(stream) \in Nat /\ Len(f) \in Nat /\ Len(stream') = Len(stream) + Len(f)
      /\ \A i \in 1 .. Len(stream) : stream'[i] = stream[i]
      /\ \A i \in 1 .. Len(f) : stream'[Len(stream) + i] = f[i]
  BY <1>2, OldBytes, LenProperties
<1>7. /\ b \in [0 .. N -> Nat] /\ b[0] = 0 /\ b[N] = Len(stream)
      /\ \A i \in 1 .. N : /\ sent[i].id = i
                           /\ b[i] = b[i - 1] + Len(FrameOf(i))
                           /\ \A j \in 1 .. Len(FrameOf(i)) : stream[b[i - 1] + j] = FrameOf(i)[j]
  BY <1>1 DEF Boundaries
<1>8. ASSUME NEW i \in 1 .. N
      PROVE  FrameOf(i)' = FrameOf(i) /\ Len(FrameOf(i)) \in Nat
  <2>1. sent'[i] = sent[i]
    BY <1>5
  <2>2. sent[i] \in M
    BY <1>2, ElementOfSeq
  <2>3. sent[i].data \in Seq(Byte) /\ i \in Nat
    BY <1>2, <2>2, StreamAssumption DEF M
  <2>4. Len(FrameOf(i)) \in Nat
    BY <2>3, FrameBytes DEF FrameOf
  <2> QED BY <2>1, <2>4 DEF FrameOf
<1>9. ASSUME NEW i \in 0 .. N PROVE b[i] <= Len(stream)
  <2> DEFINE T == {j \in 0 .. N : ~(b[N - j] <= Len(stream))}
  <2>1. ASSUME T # {} PROVE FALSE
    <3>1. T \subseteq Nat
      BY <1>2
    <3>2. PICK j \in T : \A h \in T : j <= h
      <4> HIDE DEF T
      <4> QED BY <2>1, <3>1, Least
    <3>3. j \in 0 .. N /\ ~(b[N - j] <= Len(stream))
      BY <3>2
    <3>4. j # 0
      BY <1>2, <1>6, <1>7, <3>3
    <3>5. /\ j - 1 \in 0 .. N /\ ~(j <= j - 1) /\ N - (j - 1) \in 1 .. N
          /\ N - (j - 1) - 1 = N - j /\ N - j \in 0 .. N
      BY <1>2, <3>3, <3>4
    <3>6. b[N - (j - 1)] <= Len(stream)
      BY <3>2, <3>5
    <3>7. b[N - (j - 1)] = b[N - j] + Len(FrameOf(N - (j - 1)))
      BY <1>7, <3>5
    <3>8. Len(FrameOf(N - (j - 1))) \in Nat /\ b[N - j] \in Nat
      BY <1>7, <1>8, <3>5
    <3> QED BY <1>6, <3>3, <3>6, <3>7, <3>8
  <2>2. N - i \in 0 .. N /\ N - (N - i) = i
    BY <1>2
  <2>3. N - i \notin T
    BY <2>1
  <2> QED BY <2>2, <2>3
<1>d. PICK d : d = [i \in 0 .. N + 1 |-> IF i = N + 1 THEN Len(stream') ELSE b[i]]
  OBVIOUS
<1>10. /\ d \in [0 .. N + 1 -> Nat] /\ d[N + 1] = Len(stream')
       /\ \A i \in 0 .. N : d[i] = b[i]
  BY <1>2, <1>6, <1>7, <1>d
<1>11. Boundaries(d)'
  <2>1. d[0] = 0
    BY <1>2, <1>7, <1>10
  <2>2. ASSUME NEW i \in 1 .. N
        PROVE  /\ sent'[i].id = i
               /\ d[i] = d[i - 1] + Len(FrameOf(i)')
               /\ \A j \in 1 .. Len(FrameOf(i)') : stream'[d[i - 1] + j] = FrameOf(i)'[j]
    <3>1. i \in 0 .. N /\ i - 1 \in 0 .. N
      BY <1>2
    <3>2. d[i] = b[i] /\ d[i - 1] = b[i - 1] /\ FrameOf(i)' = FrameOf(i) /\ sent'[i] = sent[i]
      BY <1>5, <1>8, <1>10, <3>1
    <3>3. ASSUME NEW j \in 1 .. Len(FrameOf(i)) PROVE stream'[b[i - 1] + j] = FrameOf(i)[j]
      <4>1. b[i] <= Len(stream) /\ b[i] = b[i - 1] + Len(FrameOf(i)) /\ b[i - 1] \in Nat
        BY <1>7, <1>9, <3>1
      <4>2. b[i - 1] + j \in 1 .. Len(stream)
        BY <4>1, <1>6, <1>8
      <4> QED BY <1>6, <1>7, <4>2
    <3> QED BY <1>7, <3>2, <3>3
  <2>3. ASSUME NEW i, i = N + 1
        PROVE  /\ sent'[i].id = i
               /\ d[i] = d[i - 1] + Len(FrameOf(i)')
               /\ \A j \in 1 .. Len(FrameOf(i)') : stream'[d[i - 1] + j] = FrameOf(i)'[j]
    <3>1. FrameOf(i)' = f
      BY <2>3, <1>3, <1>4, <1>5 DEF FrameOf
    <3>2. i - 1 = N /\ N \in 0 .. N
      BY <1>2, <2>3
    <3>3. d[i - 1] = Len(stream) /\ d[i] = Len(stream) + Len(f)
      BY <1>6, <1>7, <1>10, <2>3, <3>2
    <3> QED BY <1>4, <1>5, <1>6, <2>3, <3>1, <3>3
  <2>4. \A i \in 1 .. N + 1 : i \in 1 .. N \/ i = N + 1
    BY <1>2
  <2>5. \A i \in 1 .. Len(sent') :
          /\ sent'[i].id = i
          /\ d[i] = d[i - 1] + Len(FrameOf(i)')
          /\ \A j \in 1 .. Len(FrameOf(i)') : stream'[d[i - 1] + j] = FrameOf(i)'[j]
    BY <1>5, <2>2, <2>3, <2>4
  <2>6. d \in [0 .. Len(sent') -> Nat] /\ d[Len(sent')] = Len(stream')
    BY <1>5, <1>10
  <2> QED BY <2>1, <2>5, <2>6, Zenon DEF Boundaries
<1>12. GotFirst(k)' /\ k \in 0 .. N
  <2>1. /\ k \in 0 .. N /\ Range(received) = {sent[i] : i \in WithBytes(k)}
        /\ \A i, j \in 1 .. Len(received) : i < j => received[i].id < received[j].id
    BY <1>1 DEF GotFirst
  <2>2. k \in 0 .. Len(sent') /\ \A i \in 1 .. k : sent'[i] = sent[i]
    BY <1>2, <1>5, <2>1
  <2>3. WithBytes(k)' = WithBytes(k) /\ \A i \in WithBytes(k) : sent'[i] = sent[i]
    BY <2>2 DEF WithBytes
  <2>4. {sent'[i] : i \in WithBytes(k)'} = {sent[i] : i \in WithBytes(k)}
    BY <2>3
  <2>5. received' = received
    OBVIOUS
  <2> QED BY <2>1, <2>2, <2>4, <2>5 DEF GotFirst
<1>13. Len(eaten') = d[k]
  BY <1>1, <1>10, <1>12
<1>14. Len(sent') <= MaxSends
  BY <1>2, <1>5, StreamAssumption
<1>15. decoding' \in BOOLEAN /\ torn' \in BOOLEAN /\ received' \in Seq([id : Nat, data : Payloads])
  BY DEF FrameInv
<1>16. \E e, h : Boundaries(e)' /\ GotFirst(h)' /\ Len(eaten') = e[h]
  BY <1>11, <1>12, <1>13, Zenon
<1> QED BY <1>14, <1>15, <1>16, Zenon DEF FrameInv

\* What the receiver has in its buffer follows what it has taken.
LEMMA BufferIsNext ==
  ASSUME StreamInv
  PROVE  /\ Len(stream) \in Nat /\ Len(eaten) \in Nat /\ readableBytes(in) \in Nat
         /\ Len(eaten) + readableBytes(in) <= Len(stream)
         /\ \A i \in 1 .. readableBytes(in) : stream[Len(eaten) + i] = Contents(in)[i]
<1> DEFINE c == Contents(in)
           x == eaten \o c
           y == x \o pipe
           o == Contents(out)
<1>1. /\ c \in Seq(Byte) /\ o \in Seq(Byte) /\ x \in Seq(Byte) /\ y \in Seq(Byte)
      /\ stream = y \o o /\ readableBytes(in) \in Nat
  BY Parts
<1>2. eaten \in Seq(Byte) /\ pipe \in Seq(Byte) /\ Len(c) = readableBytes(in)
  BY ContentsProperties DEF StreamInv
<1> HIDE DEF c, o
<1>3. /\ Len(x) = Len(eaten) + Len(c)
      /\ \A i \in 1 .. Len(c) : x[Len(eaten) + i] = c[i]
  BY <1>1, <1>2, OldBytes
<1> HIDE DEF x
<1>4. Len(y) = Len(x) + Len(pipe) /\ \A i \in 1 .. Len(x) : y[i] = x[i]
  BY <1>1, <1>2, OldBytes
<1> HIDE DEF y
<1>5. Len(stream) = Len(y) + Len(o) /\ \A i \in 1 .. Len(y) : stream[i] = y[i]
  BY <1>1, OldBytes
<1>6. /\ Len(eaten) \in Nat /\ Len(c) \in Nat /\ Len(pipe) \in Nat /\ Len(o) \in Nat
  BY <1>1, <1>2, LenProperties
<1>7. /\ Len(stream) \in Nat /\ Len(eaten) + Len(c) <= Len(stream)
      /\ Len(x) = Len(eaten) + Len(c) /\ Len(x) <= Len(y) /\ Len(y) \in Nat
  BY <1>3, <1>4, <1>5, <1>6
<1>8. ASSUME NEW i \in 1 .. Len(c) PROVE stream[Len(eaten) + i] = c[i]
  <2>1. Len(eaten) + i \in 1 .. Len(x) /\ Len(eaten) + i \in 1 .. Len(y)
    BY <1>6, <1>7
  <2> QED BY <1>3, <1>4, <1>5, <2>1
<1> QED BY <1>2, <1>6, <1>7, <1>8 DEF c

\* A call of tryUnpackWithId that takes nothing.
LEMMA DecodesNothing ==
  ASSUME StreamInv, FrameInv, Decode, tryUnpackWithId(in) = Unpacked(in, 0, <<>>)
  PROVE  FrameInv'
<1> DEFINE r == tryUnpackWithId(in)
<1>1. r.buf = in /\ r.data = <<>>
  BY DEF Unpacked
<1>2. /\ UNCHANGED <<sent, stream, torn>> /\ received' = received /\ decoding' = FALSE
      /\ eaten' = eaten \o SubSeq(Contents(in), 1, readableBytes(in) - readableBytes(r.buf))
  BY <1>1 DEF Decode
<1>3. readableBytes(in) - readableBytes(r.buf) = 0
  <2>1. readableBytes(in) \in Nat
    BY BufferIsNext
  <2> QED BY <1>1, <2>1
<1> HIDE DEF r
<1>4. SubSeq(Contents(in), 1, 0) = <<>>
  BY SubSeqEmpty
<1>5. eaten \o <<>> = eaten
  BY ConcatEmptySeq DEF StreamInv
<1>6. eaten' = eaten
  BY <1>2, <1>3, <1>4, <1>5
<1>7. torn' \in BOOLEAN
  BY <1>2 DEF FrameInv
<1> QED BY <1>2, <1>6, <1>7, KeepsFrames

\* The receiver takes the frame of the message that comes next, whole, or nothing.
LEMMA DecodeFrames ==
  ASSUME StreamInv, FrameInv, Decode
  PROVE  FrameInv'
<1> DEFINE N == Len(sent)
           M == [id : Nat, data : Payloads]
           R == readableBytes(in)
           c == Contents(in)
           r == tryUnpackWithId(in)
<1>1. PICK b, k : Boundaries(b) /\ GotFirst(k) /\ Len(eaten) = b[k]
  BY DEF FrameInv
<1>2. /\ Len(stream) \in Nat /\ Len(eaten) \in Nat /\ R \in Nat
      /\ Len(eaten) + R <= Len(stream)
      /\ \A i \in 1 .. R : stream[Len(eaten) + i] = c[i]
  BY BufferIsNext
<1>3. /\ N \in Nat /\ N <= MaxSends /\ k \in 0 .. N /\ sent \in Seq(M) /\ in \in BufferType
      /\ received \in Seq(M) /\ eaten \in Seq(Byte) /\ c \in Seq(Byte) /\ Len(c) = R
  BY <1>1, LenProperties, ContentsProperties DEF FrameInv, GotFirst, StreamInv
<1>4. CASE k = N
  <2>1. R = 0
    BY <1>1, <1>2, <1>4 DEF Boundaries
  <2>2. ~(readableBytes(in) >= LenSize)
    BY <2>1, CodecAssumption
  <2>3. r = Unpacked(in, 0, <<>>)
    BY <2>2 DEF tryUnpackWithId
  <2> QED BY <2>3, DecodesNothing
<1>5. CASE k # N
  <2> DEFINE data == sent[k + 1].data
             f == packWithId(k + 1, data)
  <2>1. k + 1 \in 1 .. N /\ k + 1 \in Nat /\ k \in Nat /\ (k + 1) - 1 = k
    BY <1>3, <1>5
  <2>2. sent[k + 1] \in M
    BY <1>3, <2>1, ElementOfSeq
  <2>3. /\ data \in Payloads /\ data \in Seq(Byte) /\ IdSize + Len(data) <= MaxLen
    BY <2>2, StreamAssumption
  <2>4. k + 1 < Base ^ IdSize
    <3> DEFINE w == Base ^ IdSize
    <3>1. MaxSends \in Nat /\ MaxSends < w /\ w \in Nat
      <4>1. LenSize \in Nat /\ IdSize \in Nat
        BY CodecAssumption
      <4>2. IdSize \in 0 .. LenSize + IdSize
        BY <4>1
      <4> QED BY <4>2, StreamAssumption, CodecAssumption
    <3> HIDE DEF w
    <3>2. k + 1 < w
      BY <1>3, <2>1, <3>1
    <3> QED BY <3>2 DEF w
  <2>5. /\ sent[k + 1].id = k + 1 /\ b[k + 1] = b[k] + Len(f)
        /\ \A j \in 1 .. Len(f) : stream[b[k] + j] = f[j]
    <3>1. /\ sent[k + 1].id = k + 1
          /\ b[k + 1] = b[(k + 1) - 1] + Len(FrameOf(k + 1))
          /\ \A j \in 1 .. Len(FrameOf(k + 1)) :
               stream[b[(k + 1) - 1] + j] = FrameOf(k + 1)[j]
      BY <1>1, <2>1 DEF Boundaries
    <3>2. FrameOf(k + 1) = f
      BY DEF FrameOf
    <3> HIDE DEF f
    <3> QED BY <2>1, <3>1, <3>2
  <2>6. f \in Seq(Byte) /\ Len(f) \in Nat
    BY <2>1, <2>3, FrameBytes
  <2>7. sent[k + 1] = [id |-> k + 1, data |-> data]
    BY <2>2, <2>5
  <2> HIDE DEF f, data
  <2>8. ASSUME NEW i \in 1 .. readableBytes(in), i <= Len(f) PROVE Contents(in)[i] = f[i]
    <3>1. i \in 1 .. Len(f)
      BY <1>2, <2>6, <2>8
    <3> QED BY <1>1, <1>2, <2>5, <3>1
  <2>9. /\ R < Len(f) => r = Unpacked(in, 0, <<>>)
        /\ R >= Len(f) => /\ r.id = k + 1 /\ r.data = data
                          /\ r.buf \in BufferType
                          /\ readableBytes(r.buf) = R - Len(f)
    <3>1. f = packWithId(k + 1, data)
      BY DEF f
    <3>2. \A i \in 1 .. readableBytes(in) : i <= Len(f) => Contents(in)[i] = f[i]
      BY <2>8
    <3> HIDE DEF R, r, c
    <3>3. LET q == tryUnpackWithId(in)
          IN /\ readableBytes(in) < Len(f) => q = Unpacked(in, 0, <<>>)
             /\ readableBytes(in) >= Len(f) =>
                  /\ q.id = k + 1 /\ q.data = data
                  /\ q.buf \in BufferType
                  /\ readableBytes(q.buf) = readableBytes(in) - Len(f)
      BY <1>3, <2>1, <2>3, <2>4, <3>1, <3>2, UnpackFrame
    <3> QED BY <3>3 DEF R, r
  <2>10. CASE R < Len(f)
    BY <2>9, <2>10, DecodesNothing
  <2>11. CASE R >= Len(f)
    <3>1. r.id = k + 1 /\ r.data = data /\ readableBytes(r.buf) = R - Len(f)
      BY <2>9, <2>11
    <3>2. /\ UNCHANGED <<sent, stream, torn>>
          /\ eaten' = eaten \o SubSeq(c, 1, R - readableBytes(r.buf))
          /\ IF r.data = <<>>
             THEN decoding' = FALSE /\ UNCHANGED received
             ELSE /\ received' = Append(received, [id |-> r.id, data |-> r.data])
                  /\ decoding' = (side = "client")
      BY DEF Decode, DecodesAll
    <3> HIDE DEF r, c, R
    <3>3. Len(eaten') = b[k + 1]
      <4>1. R - (R - Len(f)) = Len(f) /\ Len(f) <= R
        BY <1>2, <2>6, <2>11
      <4>2. SubSeq(c, 1, Len(f)) \in Seq(Byte) /\ Len(SubSeq(c, 1, Len(f))) = Len(f)
        BY <1>3, <2>6, <4>1, SplitBytes
      <4>3. eaten' = eaten \o SubSeq(c, 1, Len(f))
        BY <3>1, <3>2, <4>1
      <4>4. Len(eaten') = Len(eaten) + Len(f)
        BY <1>3, <4>2, <4>3, ConcatProperties
      <4> QED BY <1>1, <2>5, <4>4
    <3>4. Boundaries(b)'
      BY <1>1, <3>2 DEF Boundaries, FrameOf
    <3>5. /\ Range(received) = {sent[i] : i \in WithBytes(k)}
          /\ \A i, j \in 1 .. Len(received) : i < j => received[i].id < received[j].id
      BY <1>1 DEF GotFirst
    <3>6. sent' = sent /\ k + 1 \in 0 .. Len(sent')
      BY <2>1, <3>2
    <3>7. torn' \in BOOLEAN /\ decoding' \in BOOLEAN /\ Len(sent') <= MaxSends
      BY <1>3, <3>2, <3>6 DEF FrameInv
    <3>8. CASE data = <<>>
      <4>1. received' = received
        BY <3>1, <3>2, <3>8
      <4>2. WithBytes(k + 1) = WithBytes(k)
        BY <2>1, <3>8 DEF WithBytes, data
      <4>3. WithBytes(k + 1)' = WithBytes(k)
        BY <3>6, <4>2 DEF WithBytes
      <4>4. {sent'[i] : i \in WithBytes(k + 1)'} = {sent[i] : i \in WithBytes(k)}
        BY <3>6, <4>3
      <4>5. GotFirst(k + 1)'
        BY <3>5, <3>6, <4>1, <4>4 DEF GotFirst
      <4>6. received' \in Seq(M)
        BY <1>3, <4>1
      <4>7. \E e, h : Boundaries(e)' /\ GotFirst(h)' /\ Len(eaten') = e[h]
        BY <3>3, <3>4, <4>5, Zenon
      <4> QED BY <3>7, <4>6, <4>7 DEF FrameInv
    <3>9. CASE data # <<>>
      <4>1. received' = Append(received, sent[k + 1])
        BY <2>7, <3>1, <3>2, <3>9
      <4> DEFINE n == Len(received)
      <4>2. n \in Nat /\ DOMAIN received = 1 .. n
        BY <1>3, LenProperties
      <4> HIDE DEF M
      <4>3. /\ received' \in Seq(M) /\ Len(received') = n + 1
            /\ \A i \in 1 .. n : received'[i] = received[i]
            /\ received'[n + 1] = sent[k + 1]
        BY <1>3, <2>2, <4>1, AppendProperties
      <4>4. Range(received') = Range(received) \cup {sent[k + 1]}
        BY <1>3, <2>2, <4>1, RangeAppend
      <4>5. WithBytes(k + 1) = WithBytes(k) \cup {k + 1}
        BY <2>1, <3>9 DEF WithBytes, data
      <4>6. WithBytes(k + 1)' = WithBytes(k) \cup {k + 1}
        BY <3>6, <4>5 DEF WithBytes
      <4>7. Range(received') = {sent'[i] : i \in WithBytes(k + 1)'}
        BY <3>5, <3>6, <4>4, <4>6
      <4>8. ASSUME NEW i \in 1 .. n PROVE received[i].id \in Nat /\ received[i].id < k + 1
        <5>1. received[i] \in Range(received)
          BY <4>2 DEF Range
        <5>2. PICK h \in WithBytes(k) : received[i] = sent[h]
          BY <3>5, <5>1
        <5>3. h \in 1 .. k /\ h \in 1 .. N
          BY <1>3, <2>1 DEF WithBytes
        <5>4. sent[h].id = h
          BY <1>1, <5>3 DEF Boundaries
        <5> QED BY <2>1, <5>2, <5>3, <5>4
      <4>9. ASSUME NEW i \in 1 .. n + 1, NEW j \in 1 .. n + 1, i < j
            PROVE  received'[i].id < received'[j].id
        <5>1. i \in 1 .. n
          BY <4>2, <4>9
        <5>2. CASE j = n + 1
          BY <2>5, <4>3, <4>8, <5>1, <5>2
        <5>3. CASE j # n + 1
          <6>1. j \in 1 .. n
            BY <4>2, <5>3
          <6> QED BY <3>5, <4>3, <4>9, <5>1, <6>1
        <5> QED BY <5>2, <5>3
      <4>10. GotFirst(k + 1)'
        BY <3>6, <4>3, <4>7, <4>9 DEF GotFirst
      <4>11. \E e, h : Boundaries(e)' /\ GotFirst(h)' /\ Len(eaten') = e[h]
        BY <3>3, <3>4, <4>10, Zenon
      <4> QED BY <3>7, <4>3, <4>11 DEF FrameInv, M
    <3> QED BY <3>8, <3>9
  <2> QED BY <1>2, <2>6, <2>10, <2>11
<1> QED BY <1>4, <1>5

\* At the start nothing is sent.
LEMMA InitFrames == Init => FrameInv
<1> SUFFICES ASSUME Init PROVE FrameInv
  OBVIOUS
<1>1. /\ sent = <<>> /\ stream = <<>> /\ eaten = <<>> /\ received = <<>>
      /\ decoding = FALSE /\ torn = FALSE
  BY DEF Init
<1>2. Len(sent) = 0 /\ Len(stream) = 0 /\ Len(eaten) = 0 /\ Len(received) = 0
  BY <1>1, EmptySeq
<1>3. PICK b : b = [i \in {0} |-> 0]
  OBVIOUS
<1>4. 0 .. 0 = {0} /\ 1 .. 0 = {}
  OBVIOUS
<1>5. Boundaries(b)
  BY <1>2, <1>3, <1>4 DEF Boundaries
<1>6. GotFirst(0)
  <2>1. Range(received) = {} /\ WithBytes(0) = {}
    BY <1>1, <1>4, EmptyRange DEF WithBytes
  <2> QED BY <1>2, <1>4, <2>1 DEF GotFirst
<1>7. \E e, h : Boundaries(e) /\ GotFirst(h) /\ Len(eaten) = e[h]
  <2>1. b[0] = 0
    BY <1>3
  <2> QED BY <1>2, <1>5, <1>6, <2>1
<1>8. Len(sent) <= MaxSends /\ received \in Seq([id : Nat, data : Payloads])
  BY <1>1, <1>2, StreamAssumption, EmptySeq
<1> QED BY <1>1, <1>7, <1>8 DEF FrameInv

\* Every step keeps to the frames.
LEMMA StepFrames == StreamInv /\ FrameInv /\ [Next]_vars => FrameInv'
<1> SUFFICES ASSUME StreamInv, FrameInv, [Next]_vars PROVE FrameInv'
  OBVIOUS
<1>0. decoding \in BOOLEAN /\ torn \in BOOLEAN
  BY DEF FrameInv
<1>1. ASSUME NEW data \in Payloads, SendDirect(data) \/ SendBuffered(data) \/ SendRequest(data)
      PROVE  FrameInv'
  <2>1. Record(data) /\ UNCHANGED <<eaten, received, decoding, torn>>
    BY <1>1 DEF SendDirect, SendBuffered, SendRequest
  <2> QED BY <2>1, RecordFrames
<1>2. CASE FallShort
  BY <1>0, <1>2, KeepsFrames DEF FallShort
<1>3. CASE HandleWrite
  BY <1>0, <1>3, KeepsFrames DEF HandleWrite
<1>4. CASE Read
  BY <1>0, <1>4, KeepsFrames DEF Read
<1>5. CASE Decode
  BY <1>5, DecodeFrames
<1>6. CASE Idle \/ UNCHANGED vars
  BY <1>0, <1>6, KeepsFrames DEF Idle, vars
<1> QED BY <1>1, <1>2, <1>3, <1>4, <1>5, <1>6 DEF Next

\* ReceivedAsSent, for any sizes of bytes, numbers, buffers and socket, any payloads that
\* fit into a frame, and any way in which write() and readv() cut the stream: whatever is
\* in its buffer, the decoder takes the next frame whole or waits for the rest of it.
THEOREM FramesAreFound == Spec => []ReceivedAsSent
<1>1. FrameInv => ReceivedAsSent
  BY DEF FrameInv, GotFirst, WithBytes, ReceivedAsSent
<1> QED BY <1>1, InitIntact, StepIntact, InitFrames, StepFrames, PTL DEF Spec

\* The type invariant of Stream; that the receiver makes up no payload is part of it.
THEOREM TypeCorrect == Spec => []TypeOK
<1>1. StreamInv /\ FrameInv => TypeOK
  <2> SUFFICES ASSUME StreamInv, FrameInv PROVE TypeOK
    OBVIOUS
  <2>1. stream \in Seq(Byte)
    <3>1. /\ (eaten \o Contents(in)) \o pipe \in Seq(Byte) /\ Contents(out) \in Seq(Byte)
          /\ stream = ((eaten \o Contents(in)) \o pipe) \o Contents(out)
      BY Parts
    <3> QED BY <3>1, ConcatProperties
  <2>2. received \in Seq([id : Nat, data : Seq(Byte)])
    <3> DEFINE M == [id : Nat, data : Payloads]
               A == [id : Nat, data : Seq(Byte)]
    <3>1. M \subseteq A
      BY StreamAssumption
    <3>2. received \in Seq(M)
      BY DEF FrameInv
    <3> HIDE DEF M, A
    <3>3. received \in Seq(A)
      BY <3>1, <3>2, SeqDef
    <3> QED BY <3>3 DEF A
  <2> QED BY <2>1, <2>2 DEF StreamInv, FrameInv, TypeOK
<1> QED BY <1>1, InitIntact, StepIntact, InitFrames, StepFrames, PTL DEF Spec
=============================================================================
