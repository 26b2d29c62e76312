------------------------------- MODULE Buffer -------------------------------
(***************************************************************************)
(* muduo/net/Buffer.{h,cc}.  A buffer is a record: the bytes of the vector *)
(* buffer_, a function on 0 .. size - 1, and readerIndex_ and writerIndex_ *)
(* into it; what is between the two is its content.  The operations are    *)
(* operators on such records, as they call each other; the actions are the *)
(* calls of a user.                                                        *)
(***************************************************************************)
EXTENDS Naturals, Sequences

CONSTANTS
  Byte,            \* the bytes, 0 among them
  kCheapPrepend, kInitialSize,
  ExtraSize,       \* sizeof extrabuf in readFd()
  MaxLen,          \* bound: bytes given or asked for in one call
  MaxReadable      \* bound: bytes in the buffer

ASSUME BufferAssumption ==
  /\ 0 \in Byte
  /\ kCheapPrepend \in Nat /\ kInitialSize \in Nat /\ ExtraSize \in Nat
  /\ MaxLen \in Nat /\ MaxReadable \in Nat

VARIABLES
  buffer,          \* the buffer
  op               \* history: what the last operation put in or took out

vars == <<buffer, op>>

Data == UNION {[1 .. n -> Byte] : n \in 0 .. MaxLen}

-----------------------------------------------------------------------------
readableBytes(b) == b.writerIndex - b.readerIndex
writableBytes(b) == b.size - b.writerIndex
prependableBytes(b) == b.readerIndex

\* The bytes from peek() to beginWrite().
Content(b) == [i \in 1 .. readableBytes(b) |-> b.bytes[b.readerIndex + i - 1]]

\* A new Buffer.
NewBuffer ==
  [bytes |-> [i \in 0 .. kCheapPrepend + kInitialSize - 1 |-> 0],
   size |-> kCheapPrepend + kInitialSize,
   readerIndex |-> kCheapPrepend, writerIndex |-> kCheapPrepend]

\* buffer_.resize(): what is added is 0.
Resized(b, n) ==
  [b EXCEPT !.size = n,
            !.bytes = [i \in 0 .. n - 1 |-> IF i < b.size THEN b.bytes[i] ELSE 0]]

\* std::copy of data to the place at.
Copied(b, data, at) ==
  [b EXCEPT !.bytes = [i \in 0 .. b.size - 1 |->
     IF i >= at /\ i < at + Len(data) THEN data[i - at + 1] ELSE b.bytes[i]]]

\* readerIndex_ and writerIndex_ are assigned.
Indexed(b, reader, writer) ==
  [b EXCEPT !.readerIndex = reader, !.writerIndex = writer]

\* The content moved to the front, up to the byte before the last.
MovedShort(b) ==
  Indexed(Copied(b, SubSeq(Content(b), 1, readableBytes(b) - 1), kCheapPrepend),
          kCheapPrepend, kCheapPrepend + readableBytes(b))

\* The content is moved to the front.
Moved(b) ==
  Indexed(Copied(b, Content(b), kCheapPrepend),
          kCheapPrepend, kCheapPrepend + readableBytes(b))

\* Is there room for len bytes once the content is moved, without a thought
\* for the bytes to prepend?
FitsWithoutPrepend(b, len) == writableBytes(b) + prependableBytes(b) >= len

\* Is there room for len bytes once the content is moved?
Fits(b, len) == writableBytes(b) + prependableBytes(b) >= len + kCheapPrepend

makeSpace(b, len) == IF Fits(b, len) THEN Moved(b) ELSE Resized(b, b.writerIndex + len)

ensureWritableBytes(b, len) == IF writableBytes(b) < len THEN makeSpace(b, len) ELSE b

\* The bytes are copied to beginWrite(), and hasWritten().
Written(b, data) ==
  Indexed(Copied(b, data, b.writerIndex), b.readerIndex, b.writerIndex + Len(data))

append(b, data) == Written(ensureWritableBytes(b, Len(data)), data)

retrieveAll(b) == Indexed(b, kCheapPrepend, kCheapPrepend)

retrieve(b, len) ==
  IF len < readableBytes(b) THEN Indexed(b, b.readerIndex + len, b.writerIndex)
                            ELSE retrieveAll(b)

prepend(b, data) ==
  Indexed(Copied(b, data, b.readerIndex - Len(data)),
          b.readerIndex - Len(data), b.writerIndex)

\* shrink(): the content is copied into a new buffer.
shrink(b, reserve) ==
  append(ensureWritableBytes(NewBuffer, readableBytes(b) + reserve), Content(b))

\* The first n bytes of data, and the others.
FirstBytes(data, n) == SubSeq(data, 1, n)
OtherBytes(data, n) == SubSeq(data, n + 1, Len(data))

\* readFd(): readv() fills the writable bytes and then extrabuf.
readFd(b, data) ==
  IF Len(data) <= writableBytes(b) THEN Written(b, data)
  ELSE append(Written(b, FirstBytes(data, writableBytes(b))),
              OtherBytes(data, writableBytes(b)))

-----------------------------------------------------------------------------
Init == buffer = NewBuffer /\ op = <<"none", <<>> >>

Room(data) == readableBytes(buffer) + Len(data) <= MaxReadable

AppendData(data) ==
  /\ Room(data)
  /\ buffer' = append(buffer, data)
  /\ op' = <<"put", data>>

ReadFd(data) ==
  /\ Room(data)
  /\ Len(data) <= writableBytes(buffer) + ExtraSize
  /\ buffer' = readFd(buffer, data)
  /\ op' = <<"put", data>>

Prepend(data) ==
  /\ Room(data)
  /\ Len(data) <= prependableBytes(buffer)
  /\ buffer' = prepend(buffer, data)
  /\ op' = <<"putFront", data>>

\* retrieve() and the operations that return what they take.
Retrieve(len) ==
  /\ len <= readableBytes(buffer)
  /\ buffer' = retrieve(buffer, len)
  /\ op' = <<"take", FirstBytes(Content(buffer), len)>>

EnsureWritableBytes(len) ==
  /\ buffer' = ensureWritableBytes(buffer, len)
  /\ op' = <<"none", <<>> >>

Shrink(reserve) ==
  /\ buffer' = shrink(buffer, reserve)
  /\ op' = <<"none", <<>> >>

Next ==
  \/ \E data \in Data : AppendData(data) \/ ReadFd(data) \/ Prepend(data)
  \/ \E len \in 0 .. MaxReadable : Retrieve(len)
  \/ \E len \in 0 .. MaxLen : EnsureWritableBytes(len) \/ Shrink(len)

Spec == Init /\ [][Next]_vars

-----------------------------------------------------------------------------
\* The picture in Buffer.h: 0 <= readerIndex <= writerIndex <= size, with room
\* for the bytes to prepend.
IsBuffer(b) ==
  /\ b \in [bytes : [0 .. b.size - 1 -> Byte], size : Nat,
            readerIndex : Nat, writerIndex : Nat]
  /\ b.readerIndex <= b.writerIndex
  /\ b.writerIndex <= b.size
  /\ kCheapPrepend <= b.size

\* Every operation leaves the indices in order, and the assertions of
\* makeSpace() and ensureWritableBytes() hold for every length: the content is
\* moved only to the left, and then the bytes fit.
IndexInv ==
  /\ IsBuffer(buffer)
  /\ op \in {"none", "put", "putFront", "take"} \X Seq(Byte)
  /\ \A len \in 0 .. MaxLen :
       /\ writableBytes(ensureWritableBytes(buffer, len)) >= len
       /\ (writableBytes(buffer) < len /\ Fits(buffer, len))
             => kCheapPrepend < buffer.readerIndex

BQ == INSTANCE ByteQueue WITH content <- Content(buffer)

\* Through moves, growth and shrinking no byte of the content is lost, changed,
\* repeated or put in another place: the buffer is a queue of bytes.
ImplementsByteQueue == BQ!Spec

\* The vector grows only when content and prependable bytes do not fit into it
\* (a buffer that is filled and emptied by turns keeps its size).
GrowsOnlyWhenFull ==
  [][(buffer'.size > buffer.size /\ op'[1] = "put")
       => readableBytes(buffer') + kCheapPrepend > buffer.size]_vars
=============================================================================
