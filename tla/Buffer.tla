-------------------------------- MODULE Buffer --------------------------------
(***************************************************************************)
(* Buffer (src/src/Buffer.h, Buffer.cpp): a vector of bytes with a read    *)
(* and a write index, as operators on a record. What it promises is a      *)
(* queue of bytes, Contents: append adds at the end, retrieve takes from   *)
(* the front, and making space changes nothing.                            *)
(***************************************************************************)
EXTENDS Integers, Sequences

CONSTANTS
  Byte,            \* the values of a byte, 0 among them
  kCheapPrepend,   \* the space kept in front
  kInitialSize,    \* the space for bytes in a new buffer
  ExtraSize        \* the size of readFd's second vector, extrabuf

ASSUME BufferAssumption ==
  /\ 0 \in Byte
  /\ kCheapPrepend \in Nat
  /\ kInitialSize \in Nat
  /\ ExtraSize \in Nat

\* buffer_, readIndex_ and writeIndex_; the byte at index i of the vector is data[i + 1].
BufferType ==
  {b \in [data : Seq(Byte), readIndex : Nat, writeIndex : Nat] :
     /\ kCheapPrepend <= b.readIndex
     /\ b.readIndex <= b.writeIndex
     /\ b.writeIndex <= Len(b.data)}

NewBuffer ==
  [data |-> [i \in 1 .. kCheapPrepend + kInitialSize |-> 0],
   readIndex |-> kCheapPrepend,
   writeIndex |-> kCheapPrepend]

readableBytes(b) == b.writeIndex - b.readIndex
writableBytes(b) == Len(b.data) - b.writeIndex
prependableBytes(b) == b.readIndex

\* The readable bytes, from peek() on.
Contents(b) == SubSeq(b.data, b.readIndex + 1, b.writeIndex)

retrieveAll(b) ==
  [data |-> b.data, readIndex |-> kCheapPrepend, writeIndex |-> kCheapPrepend]

retrieve(b, len) ==
  IF len < readableBytes(b)
  THEN [data |-> b.data, readIndex |-> b.readIndex + len, writeIndex |-> b.writeIndex]
  ELSE retrieveAll(b)

\* std::copy of s to index at of the vector.
Overwrite(data, at, s) ==
  [i \in 1 .. Len(data) |-> IF at < i /\ i <= at + Len(s) THEN s[i - at] ELSE data[i]]

\* buffer_.resize
Resize(data, n) == [i \in 1 .. n |-> IF i <= Len(data) THEN data[i] ELSE 0]

\* Whether growing is needed, or moving the contents to the front makes enough room.
MustGrowOff(b, len) == writableBytes(b) + prependableBytes(b) < len
MustGrow(b, len) == writableBytes(b) + prependableBytes(b) < len + kCheapPrepend

makeSpace(b, len) ==
  IF MustGrow(b, len)
  THEN [data |-> Resize(b.data, b.writeIndex + len),
        readIndex |-> b.readIndex, writeIndex |-> b.writeIndex]
  ELSE [data |-> Overwrite(b.data, kCheapPrepend, Contents(b)),
        readIndex |-> kCheapPrepend, writeIndex |-> kCheapPrepend + readableBytes(b)]

ensureWritableBytes(b, len) == IF writableBytes(b) < len THEN makeSpace(b, len) ELSE b

\* std::copy to beginWrite() and writeIndex_ += len.
Put(b, s) ==
  [data |-> Overwrite(b.data, b.writeIndex, s),
   readIndex |-> b.readIndex, writeIndex |-> b.writeIndex + Len(s)]

append(b, s) == Put(ensureWritableBytes(b, Len(s)), s)

\* readFd when readv delivers s: what does not fit goes through extrabuf and is appended.
readFdOneVector(b, s) ==
  Put(b, IF Len(s) <= writableBytes(b) THEN s ELSE SubSeq(s, 1, writableBytes(b)))
readFd(b, s) ==
  LET writable == writableBytes(b)
  IN IF Len(s) <= writable
     THEN Put(b, s)
     ELSE append(Put(b, SubSeq(s, 1, writable)), SubSeq(s, writable + 1, Len(s)))
=============================================================================
