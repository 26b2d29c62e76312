---------------------------- MODULE BufferProofs ----------------------------
(***************************************************************************)
(* Proofs about Buffer, for any sizes and any bytes.                       *)
(***************************************************************************)
EXTENDS Buffer, SequenceTheorems, TLAPS

\* Where the bytes of a content lie.
LEMMA ContentIndex ==
  ASSUME NEW r \in Nat, NEW w \in Nat, NEW size \in Nat, r <= w, w <= size,
         NEW n, n = w - r, NEW i \in 1 .. n
  PROVE  /\ r + i - 1 \in 0 .. size - 1
         /\ r + i - 1 >= r /\ r + i - 1 < w
         /\ r + i - 1 - r + 1 = i
         /\ i \in Nat
  OBVIOUS

\* The content is a sequence of as many bytes as readableBytes() says.
LEMMA ContentType ==
  ASSUME NEW b, IsBuffer(b)
  PROVE  /\ readableBytes(b) \in Nat /\ writableBytes(b) \in Nat
         /\ Content(b) \in Seq(Byte)
         /\ Len(Content(b)) = readableBytes(b)
         /\ \A i \in 1 .. readableBytes(b) : Content(b)[i] = b.bytes[b.readerIndex + i - 1]
<1>1. readableBytes(b) \in Nat /\ writableBytes(b) \in Nat
  BY DEF IsBuffer, readableBytes, writableBytes
<1>2. \A i \in 1 .. readableBytes(b) : b.bytes[b.readerIndex + i - 1] \in Byte
  BY DEF IsBuffer, readableBytes
<1> QED
  BY <1>1, <1>2 DEF Content

\* Two buffers have the same content if they have the same bytes there.
LEMMA SameContent ==
  ASSUME NEW b, NEW c, IsBuffer(b), IsBuffer(c),
         readableBytes(c) = readableBytes(b),
         \A i \in 1 .. readableBytes(b) :
            c.bytes[c.readerIndex + i - 1] = b.bytes[b.readerIndex + i - 1]
  PROVE  Content(c) = Content(b)
  BY DEF Content

\* std::copy writes the data to its place and nothing else.
LEMMA CopiedIsBuffer ==
  ASSUME NEW b, IsBuffer(b), NEW data \in Seq(Byte), NEW at \in Nat,
         at + Len(data) <= b.size
  PROVE  /\ IsBuffer(Copied(b, data, at))
         /\ Copied(b, data, at).size = b.size
         /\ Copied(b, data, at).readerIndex = b.readerIndex
         /\ Copied(b, data, at).writerIndex = b.writerIndex
         /\ \A i \in 0 .. b.size - 1 : Copied(b, data, at).bytes[i] =
              IF i >= at /\ i < at + Len(data) THEN data[i - at + 1] ELSE b.bytes[i]
<1> DEFINE f == [i \in 0 .. b.size - 1 |->
                   IF i >= at /\ i < at + Len(data) THEN data[i - at + 1] ELSE b.bytes[i]]
<1>1. f \in [0 .. b.size - 1 -> Byte]
  <2> SUFFICES ASSUME NEW i \in 0 .. b.size - 1
               PROVE  (IF i >= at /\ i < at + Len(data) THEN data[i - at + 1]
                                                       ELSE b.bytes[i]) \in Byte
    OBVIOUS
  <2>1. Len(data) \in Nat /\ b.size \in Nat
    BY DEF IsBuffer
  <2>2. CASE i >= at /\ i < at + Len(data)
    <3>1. i - at + 1 \in 1 .. Len(data)
      BY <2>1, <2>2
    <3> QED
      BY <2>2, <3>1, ElementOfSeq
  <2>3. CASE ~(i >= at /\ i < at + Len(data))
    BY <2>3 DEF IsBuffer
  <2> QED
    BY <2>2, <2>3
<1>2. Copied(b, data, at) = [b EXCEPT !.bytes = f]
  BY DEF Copied
<1> HIDE DEF f
<1>3. /\ Copied(b, data, at).bytes = f
      /\ Copied(b, data, at).size = b.size
      /\ Copied(b, data, at).readerIndex = b.readerIndex
      /\ Copied(b, data, at).writerIndex = b.writerIndex
      /\ Copied(b, data, at) \in [bytes : [0 .. b.size - 1 -> Byte], size : Nat,
                                  readerIndex : Nat, writerIndex : Nat]
  BY <1>1, <1>2 DEF IsBuffer
<1>4. IsBuffer(Copied(b, data, at))
  BY <1>3 DEF IsBuffer
<1> QED
  BY <1>3, <1>4 DEF f

\* Indices that are in order can be assigned.
LEMMA IndicesAssigned ==
  ASSUME NEW b, IsBuffer(b), NEW r \in Nat, NEW w \in Nat, r <= w, w <= b.size,
         NEW d, d = Indexed(b, r, w)
  PROVE  /\ IsBuffer(d)
         /\ d.bytes = b.bytes /\ d.size = b.size
         /\ d.readerIndex = r /\ d.writerIndex = w
<1>1. b \in [bytes : [0 .. b.size - 1 -> Byte], size : Nat,
            readerIndex : Nat, writerIndex : Nat]
  BY DEF IsBuffer
<1>2. /\ d.bytes = b.bytes /\ d.size = b.size /\ d.readerIndex = r /\ d.writerIndex = w
      /\ d \in [bytes : [0 .. b.size - 1 -> Byte], size : Nat,
                readerIndex : Nat, writerIndex : Nat]
  BY <1>1 DEF Indexed
<1>3. IsBuffer(d)
  BY <1>2 DEF IsBuffer
<1> QED
  BY <1>2, <1>3

\* Bytes written behind the content are appended to it: append() and readFd()
\* when there is space.
LEMMA WrittenAppends ==
  ASSUME NEW b, IsBuffer(b), NEW data \in Seq(Byte), Len(data) <= writableBytes(b)
  PROVE  /\ IsBuffer(Written(b, data))
         /\ Content(Written(b, data)) = Content(b) \o data
         /\ Written(b, data).size = b.size
         /\ Written(b, data).readerIndex = b.readerIndex
         /\ Written(b, data).writerIndex = b.writerIndex + Len(data)
<1> DEFINE c == Copied(b, data, b.writerIndex)
           d == Written(b, data)
<1>1. /\ b.size \in Nat /\ b.readerIndex \in Nat /\ b.writerIndex \in Nat
      /\ b.readerIndex <= b.writerIndex
      /\ b.writerIndex + Len(data) <= b.size
      /\ Len(data) \in Nat
  BY DEF IsBuffer, writableBytes
<1>2. /\ IsBuffer(c) /\ c.size = b.size
      /\ c.readerIndex = b.readerIndex /\ c.writerIndex = b.writerIndex
      /\ \A i \in 0 .. b.size - 1 : c.bytes[i] =
           IF i >= b.writerIndex /\ i < b.writerIndex + Len(data)
           THEN data[i - b.writerIndex + 1] ELSE b.bytes[i]
  BY <1>1, CopiedIsBuffer
<1>3. d = Indexed(c, b.readerIndex, b.writerIndex + Len(data))
  BY DEF Written
<1> HIDE DEF c, d
<1>4. /\ d.bytes = c.bytes /\ d.size = b.size /\ d.readerIndex = b.readerIndex
      /\ d.writerIndex = b.writerIndex + Len(data)
      /\ IsBuffer(d)
  <2>1. /\ b.writerIndex + Len(data) \in Nat
        /\ b.readerIndex <= b.writerIndex + Len(data)
        /\ b.writerIndex + Len(data) <= c.size
    BY <1>1, <1>2
  <2> QED
    BY <1>1, <1>2, <1>3, <2>1, IndicesAssigned
<1>5. IsBuffer(d)
  BY <1>4
<1>6. Content(d) = Content(b) \o data
  <2> DEFINE s == Content(b) \o data
  <2>1. /\ Content(b) \in Seq(Byte) /\ Len(Content(b)) = readableBytes(b)
        /\ \A i \in 1 .. readableBytes(b) :
             Content(b)[i] = b.bytes[b.readerIndex + i - 1]
        /\ Content(d) \in Seq(Byte) /\ Len(Content(d)) = readableBytes(d)
        /\ \A i \in 1 .. readableBytes(d) :
             Content(d)[i] = d.bytes[d.readerIndex + i - 1]
    BY <1>5, ContentType
  <2>2. /\ s \in Seq(Byte) /\ Len(s) = Len(Content(b)) + Len(data)
        /\ \A i \in 1 .. Len(Content(b)) + Len(data) : s[i] =
             IF i <= Len(Content(b)) THEN Content(b)[i] ELSE data[i - Len(Content(b))]
    BY <2>1, ConcatProperties
  <2> HIDE DEF s
  <2>3. /\ readableBytes(b) = b.writerIndex - b.readerIndex
        /\ readableBytes(d) = readableBytes(b) + Len(data)
    BY <1>1, <1>4 DEF readableBytes
  <2>4. Len(s) = Len(Content(d))
    BY <2>1, <2>2, <2>3
  <2>5. ASSUME NEW i \in 1 .. Len(s)
        PROVE  s[i] = Content(d)[i]
    <3>1. i \in 1 .. readableBytes(d)
      BY <2>1, <2>4
    <3>5. readableBytes(d) = b.writerIndex + Len(data) - b.readerIndex
      BY <1>1, <2>3
    <3>6. b.readerIndex + i - 1 \in 0 .. b.size - 1
      <4>1. PICK w : w = b.writerIndex + Len(data)
        OBVIOUS
      <4>2. PICK n : n = readableBytes(d)
        OBVIOUS
      <4>3. /\ b.readerIndex \in Nat /\ w \in Nat /\ b.size \in Nat
            /\ b.readerIndex <= w /\ w <= b.size
        BY <1>1, <4>1
      <4>4. n = w - b.readerIndex
        BY <1>1, <3>5, <4>1, <4>2
      <4>5. i \in 1 .. n
        BY <3>1, <4>2, Zenon
      <4> QED
        BY <4>3, <4>4, <4>5, ContentIndex, SMTT(30)
    <3>2. Content(d)[i] = c.bytes[b.readerIndex + i - 1]
      BY <1>4, <2>1, <3>1
    <3>3. CASE i <= readableBytes(b)
      <4>1. ~(b.readerIndex + i - 1 >= b.writerIndex) /\ i \in 1 .. readableBytes(b)
        BY <1>1, <2>3, <3>1, <3>3
      <4>2. c.bytes[b.readerIndex + i - 1] = b.bytes[b.readerIndex + i - 1]
        BY <1>2, <3>6, <4>1
      <4> QED
        BY <2>1, <2>2, <3>2, <3>3, <4>1, <4>2
    <3>4. CASE ~(i <= readableBytes(b))
      <4>1. /\ b.readerIndex + i - 1 >= b.writerIndex
            /\ b.readerIndex + i - 1 < b.writerIndex + Len(data)
            /\ b.readerIndex + i - 1 - b.writerIndex + 1 = i - readableBytes(b)
        BY <1>1, <2>3, <3>1, <3>4
      <4>2. PICK j : j = b.readerIndex + i - 1
        OBVIOUS
      <4>3. /\ j \in 0 .. b.size - 1
            /\ j >= b.writerIndex /\ j < b.writerIndex + Len(data)
        BY <3>6, <4>1, <4>2
      <4>4. c.bytes[j] = data[j - b.writerIndex + 1]
        BY <1>2, <4>3
      <4>5. j - b.writerIndex + 1 = i - readableBytes(b)
        BY <1>1, <2>3, <3>1, <4>2
      <4> QED
        BY <2>1, <2>2, <3>2, <3>4, <4>2, <4>4, <4>5
    <3> QED
      BY <3>3, <3>4
  <2>6. s = Content(d)
    BY <2>1, <2>2, <2>4, <2>5, SeqEqual
  <2> QED
    BY <2>6 DEF s
<1> QED
  BY <1>4, <1>5, <1>6 DEF d

\* makeSpace() and ensureWritableBytes() keep the content and make the space.
LEMMA EnsureMakesSpace ==
  ASSUME NEW b, IsBuffer(b), NEW len \in Nat
  PROVE  LET d == ensureWritableBytes(b, len)
         IN  /\ IsBuffer(d)
             /\ Content(d) = Content(b)
             /\ writableBytes(d) >= len
             /\ (writableBytes(b) < len /\ Fits(b, len)) => kCheapPrepend < b.readerIndex
             /\ d.size >= b.size
             /\ d.size > b.size => readableBytes(b) + len + kCheapPrepend > b.size
             /\ d.readerIndex = b.readerIndex \/ d.readerIndex = kCheapPrepend
<1> USE BufferAssumption
<1> DEFINE d == ensureWritableBytes(b, len)
<1>1. /\ b.size \in Nat /\ b.readerIndex \in Nat /\ b.writerIndex \in Nat
      /\ b.readerIndex <= b.writerIndex /\ b.writerIndex <= b.size
      /\ kCheapPrepend \in Nat /\ kCheapPrepend <= b.size
      /\ readableBytes(b) = b.writerIndex - b.readerIndex
      /\ writableBytes(b) = b.size - b.writerIndex
      /\ b.bytes \in [0 .. b.size - 1 -> Byte]
  BY DEF IsBuffer, readableBytes, writableBytes
<1>2. CASE ~(writableBytes(b) < len)
  BY <1>1, <1>2 DEF ensureWritableBytes
<1>3. CASE writableBytes(b) < len /\ Fits(b, len)
  <2>1. kCheapPrepend < b.readerIndex /\ kCheapPrepend + readableBytes(b) <= b.size
    BY <1>1, <1>3 DEF Fits, prependableBytes
  <2> DEFINE c == Copied(b, Content(b), kCheapPrepend)
  <2>2. Content(b) \in Seq(Byte) /\ Len(Content(b)) = readableBytes(b)
    BY ContentType
  <2>3. /\ IsBuffer(c) /\ c.size = b.size
        /\ \A i \in 0 .. b.size - 1 : c.bytes[i] =
             IF i >= kCheapPrepend /\ i < kCheapPrepend + readableBytes(b)
             THEN Content(b)[i - kCheapPrepend + 1] ELSE b.bytes[i]
    BY <2>1, <2>2, CopiedIsBuffer
  <2>4. d = Indexed(c, kCheapPrepend, kCheapPrepend + readableBytes(b))
    BY <1>3 DEF ensureWritableBytes, makeSpace, Moved
  <2> HIDE DEF c, d
  <2>5. /\ d.bytes = c.bytes /\ d.size = b.size /\ d.readerIndex = kCheapPrepend
        /\ d.writerIndex = kCheapPrepend + readableBytes(b)
        /\ IsBuffer(d)
    <3>1. /\ kCheapPrepend + readableBytes(b) \in Nat
          /\ kCheapPrepend <= kCheapPrepend + readableBytes(b)
          /\ kCheapPrepend + readableBytes(b) <= c.size
      BY <1>1, <2>1, <2>3
    <3> QED
      BY <2>3, <2>4, <3>1, IndicesAssigned
  <2>6. IsBuffer(d)
    BY <2>5
  <2>7. readableBytes(d) = readableBytes(b)
    BY <1>1, <2>5 DEF readableBytes
  <2>8. ASSUME NEW i \in 1 .. readableBytes(b)
        PROVE  d.bytes[d.readerIndex + i - 1] = b.bytes[b.readerIndex + i - 1]
    <3>1. /\ kCheapPrepend + i - 1 \in 0 .. b.size - 1
          /\ kCheapPrepend + i - 1 >= kCheapPrepend
          /\ kCheapPrepend + i - 1 < kCheapPrepend + readableBytes(b)
          /\ kCheapPrepend + i - 1 - kCheapPrepend + 1 = i
      BY <1>1, <2>1
    <3>2. c.bytes[kCheapPrepend + i - 1] = Content(b)[i]
      BY <2>3, <3>1
    <3> QED
      BY <2>5, <3>2, ContentType
  <2>9. Content(d) = Content(b)
    BY <2>6, <2>7, <2>8, SameContent
  <2>10. writableBytes(d) >= len
    BY <1>1, <1>3, <2>5 DEF writableBytes, Fits, prependableBytes
  <2> QED
    BY <1>1, <2>1, <2>5, <2>6, <2>9, <2>10 DEF d
<1>4. CASE writableBytes(b) < len /\ ~Fits(b, len)
  <2> DEFINE n == b.writerIndex + len
             f == [i \in 0 .. n - 1 |-> IF i < b.size THEN b.bytes[i] ELSE 0]
  <2>1. d = [b EXCEPT !.size = n, !.bytes = f]
    BY <1>4 DEF ensureWritableBytes, makeSpace, Resized
  <2>2. n \in Nat /\ n > b.size
    BY <1>1, <1>4
  <2>3. f \in [0 .. n - 1 -> Byte]
    BY SMTT(30), <1>1, <2>2
  <2> HIDE DEF d
  <2>4. /\ d.bytes = f /\ d.size = n /\ d.readerIndex = b.readerIndex
        /\ d.writerIndex = b.writerIndex
        /\ d \in [bytes : [0 .. n - 1 -> Byte], size : Nat,
                  readerIndex : Nat, writerIndex : Nat]
    BY <1>1, <2>1, <2>2, <2>3 DEF IsBuffer
  <2>5. IsBuffer(d)
    BY <1>1, <2>2, <2>4 DEF IsBuffer
  <2>6. readableBytes(d) = readableBytes(b)
    BY <2>4 DEF readableBytes
  <2>7. ASSUME NEW i \in 1 .. readableBytes(b)
        PROVE  d.bytes[d.readerIndex + i - 1] = b.bytes[b.readerIndex + i - 1]
    <3>1. b.readerIndex + i - 1 \in 0 .. b.size - 1
      BY <1>1, ContentIndex
    <3>2. b.readerIndex + i - 1 \in 0 .. n - 1 /\ b.readerIndex + i - 1 < b.size
      BY SMTT(30), <1>1, <2>2, <3>1
    <3> QED
      BY <2>4, <3>2
  <2>8. Content(d) = Content(b)
    BY <2>5, <2>6, <2>7, SameContent
  <2>9. writableBytes(d) >= len
    BY <1>1, <2>4 DEF writableBytes
  <2>10. readableBytes(b) + len + kCheapPrepend > b.size
    BY <1>1, <1>4 DEF Fits, prependableBytes
  <2> QED
    BY <1>1, <1>4, <2>2, <2>4, <2>5, <2>8, <2>9, <2>10 DEF d
<1> QED
  BY <1>2, <1>3, <1>4

\* append() appends, and grows the vector only when it has to.
LEMMA AppendAppends ==
  ASSUME NEW b, IsBuffer(b), NEW data \in Seq(Byte)
  PROVE  /\ IsBuffer(append(b, data))
         /\ Content(append(b, data)) = Content(b) \o data
         /\ append(b, data).size > b.size
              => readableBytes(append(b, data)) + kCheapPrepend > b.size
<1> DEFINE e == ensureWritableBytes(b, Len(data))
           d == append(b, data)
<1>1. Len(data) \in Nat
  OBVIOUS
<1>2. /\ IsBuffer(e) /\ Content(e) = Content(b) /\ writableBytes(e) >= Len(data)
      /\ e.size > b.size => readableBytes(b) + Len(data) + kCheapPrepend > b.size
  BY <1>1, EnsureMakesSpace
<1>3. d = Written(e, data)
  BY DEF append
<1>4. writableBytes(e) \in Nat
  BY <1>2, ContentType
<1> HIDE DEF e, d
<1>5. Len(data) <= writableBytes(e)
  BY <1>1, <1>2, <1>4
<1>6. IsBuffer(d) /\ Content(d) = Content(b) \o data /\ d.size = e.size
  BY <1>2, <1>3, <1>5, WrittenAppends
<1>7. readableBytes(d) = readableBytes(b) + Len(data)
  <2>1. /\ Content(b) \in Seq(Byte)
        /\ Len(Content(b)) = readableBytes(b) /\ Len(Content(d)) = readableBytes(d)
    BY <1>6, ContentType
  <2>2. Len(Content(b) \o data) = Len(Content(b)) + Len(data)
    BY <2>1, ConcatProperties
  <2> QED
    BY <1>6, <2>1, <2>2
<1> QED
  BY <1>2, <1>6, <1>7 DEF d

\* Bytes put before the content are prepended to it.
LEMMA PrependPrepends ==
  ASSUME NEW b, IsBuffer(b), NEW data \in Seq(Byte), Len(data) <= prependableBytes(b)
  PROVE  /\ IsBuffer(prepend(b, data))
         /\ Content(prepend(b, data)) = data \o Content(b)
<1>1. /\ b.size \in Nat /\ b.readerIndex \in Nat /\ b.writerIndex \in Nat
      /\ b.readerIndex <= b.writerIndex /\ b.writerIndex <= b.size
      /\ Len(data) \in Nat /\ Len(data) <= b.readerIndex
  BY DEF IsBuffer, prependableBytes
<1>2. PICK at : at = b.readerIndex - Len(data)
  OBVIOUS
<1>3. /\ at \in Nat /\ at + Len(data) = b.readerIndex /\ at + Len(data) <= b.size
      /\ at <= b.writerIndex
  BY <1>1, <1>2
<1> DEFINE c == Copied(b, data, at)
           d == prepend(b, data)
<1>4. /\ IsBuffer(c) /\ c.size = b.size
      /\ \A i \in 0 .. b.size - 1 : c.bytes[i] =
           IF i >= at /\ i < at + Len(data) THEN data[i - at + 1] ELSE b.bytes[i]
  BY <1>3, CopiedIsBuffer
<1>5. d = Indexed(c, at, b.writerIndex)
  BY <1>2 DEF prepend
<1> HIDE DEF c, d
<1>6. /\ d.bytes = c.bytes /\ d.readerIndex = at /\ d.writerIndex = b.writerIndex
      /\ IsBuffer(d)
  BY <1>1, <1>3, <1>4, <1>5, IndicesAssigned
<1>7. PICK s : s = data \o Content(b)
  OBVIOUS
<1>8. /\ Content(b) \in Seq(Byte) /\ Len(Content(b)) = readableBytes(b)
      /\ readableBytes(b) \in Nat
      /\ \A i \in 1 .. readableBytes(b) : Content(b)[i] = b.bytes[b.readerIndex + i - 1]
      /\ Content(d) \in Seq(Byte) /\ Len(Content(d)) = readableBytes(d)
      /\ \A i \in 1 .. readableBytes(d) : Content(d)[i] = d.bytes[d.readerIndex + i - 1]
  BY <1>6, ContentType
<1>9. /\ s \in Seq(Byte) /\ Len(s) = Len(data) + readableBytes(b)
      /\ \A i \in 1 .. Len(data) + readableBytes(b) : s[i] =
           IF i <= Len(data) THEN data[i] ELSE Content(b)[i - Len(data)]
  BY <1>7, <1>8, ConcatProperties
<1>10. /\ readableBytes(b) = b.writerIndex - b.readerIndex
       /\ readableBytes(d) = b.writerIndex - at
       /\ readableBytes(d) = Len(data) + readableBytes(b)
  BY <1>1, <1>3, <1>6 DEF readableBytes
<1>11. ASSUME NEW i \in 1 .. Len(s)
       PROVE  s[i] = Content(d)[i]
  <2>1. i \in 1 .. readableBytes(d) /\ i \in 1 .. Len(data) + readableBytes(b)
    BY <1>9, <1>10
  <2>2. PICK j : j = at + i - 1
    OBVIOUS
  <2>3. j \in 0 .. b.size - 1 /\ j >= at /\ j - at + 1 = i /\ i \in Nat
    BY <1>1, <1>3, <1>10, <2>1, <2>2, ContentIndex
  <2>4. Content(d)[i] = c.bytes[j]
    BY <1>6, <1>8, <2>1, <2>2
  <2>5. CASE i <= Len(data)
    <3>1. j < at + Len(data)
      BY <1>1, <1>3, <2>3, <2>5
    <3>2. c.bytes[j] = data[i]
      BY <1>4, <2>3, <3>1
    <3> QED
      BY <1>9, <2>1, <2>4, <2>5, <3>2
  <2>6. CASE ~(i <= Len(data))
    <3>1. ~(j < at + Len(data)) /\ i - Len(data) \in 1 .. readableBytes(b)
      BY SMTT(30), <1>1, <1>3, <1>8, <2>1, <2>3, <2>6
    <3>2. c.bytes[j] = b.bytes[j]
      BY <1>4, <2>3, <3>1
    <3>3. j = b.readerIndex + (i - Len(data)) - 1
      BY <1>1, <1>3, <2>2, <2>3
    <3>4. Content(b)[i - Len(data)] = b.bytes[j]
      BY <1>8, <3>1, <3>3
    <3> QED
      BY <1>9, <2>1, <2>4, <2>6, <3>2, <3>4
  <2> QED
    BY <2>5, <2>6
<1>12. s = Content(d)
  BY <1>8, <1>9, <1>10, <1>11, SeqEqual
<1> QED
  BY <1>6, <1>7, <1>12 DEF d

\* The first n bytes and the others make up the data.
LEMMA SplitBytes ==
  ASSUME NEW data \in Seq(Byte), NEW n \in 0 .. Len(data)
  PROVE  /\ FirstBytes(data, n) \in Seq(Byte) /\ Len(FirstBytes(data, n)) = n
         /\ OtherBytes(data, n) \in Seq(Byte)
         /\ Len(OtherBytes(data, n)) = Len(data) - n
         /\ \A i \in 1 .. Len(data) - n : OtherBytes(data, n)[i] = data[n + i]
         /\ FirstBytes(data, n) \o OtherBytes(data, n) = data
<1>1. Len(data) \in Nat /\ \A i \in 1 .. Len(data) : data[i] \in Byte
  BY ElementOfSeq
<1>2. FirstBytes(data, n) \in Seq(Byte) /\ Len(FirstBytes(data, n)) = n
  <2>1. \A i \in 1 .. n : data[i] \in Byte
    BY <1>1
  <2>2. /\ SubSeq(data, 1, n) \in Seq(Byte)
        /\ Len(SubSeq(data, 1, n)) = IF 1 <= n THEN n - 1 + 1 ELSE 0
    BY <2>1, SubSeqProperties
  <2> QED
    BY <1>1, <2>2 DEF FirstBytes
<1>3. /\ OtherBytes(data, n) \in Seq(Byte)
      /\ Len(OtherBytes(data, n)) = Len(data) - n
      /\ \A i \in 1 .. Len(data) - n : OtherBytes(data, n)[i] = data[n + i]
  <2>1. \A i \in n + 1 .. Len(data) : data[i] \in Byte
    BY <1>1
  <2>2. n + 1 \in Int /\ Len(data) \in Int
    BY <1>1
  <2>3. /\ SubSeq(data, n + 1, Len(data)) \in Seq(Byte)
        /\ Len(SubSeq(data, n + 1, Len(data)))
             = IF n + 1 <= Len(data) THEN Len(data) - (n + 1) + 1 ELSE 0
        /\ \A i \in 1 .. Len(data) - (n + 1) + 1 :
             SubSeq(data, n + 1, Len(data))[i] = data[n + 1 + i - 1]
    BY <2>1, <2>2, SubSeqProperties
  <2>4. Len(data) - (n + 1) + 1 = Len(data) - n
    BY <1>1
  <2>5. OtherBytes(data, n) = SubSeq(data, n + 1, Len(data))
    BY DEF OtherBytes
  <2>6. Len(OtherBytes(data, n)) = Len(data) - n
    <3>1. CASE n + 1 <= Len(data)
      BY <2>3, <2>4, <2>5, <3>1
    <3>2. CASE ~(n + 1 <= Len(data))
      BY <1>1, <2>3, <2>5, <3>2
    <3> QED
      BY <3>1, <3>2
  <2>7. ASSUME NEW i \in 1 .. Len(data) - n
        PROVE  OtherBytes(data, n)[i] = data[n + i]
    <3>1. n + 1 + i - 1 = n + i
      BY <1>1
    <3> QED
      BY <2>3, <2>4, <2>5, <3>1
  <2> QED
    BY <2>3, <2>5, <2>6, <2>7
<1>4. FirstBytes(data, n) \o OtherBytes(data, n) = SubSeq(data, 1, Len(data))
  <2>1. 1 \in 1 .. Len(data) + 1 /\ n \in 1 - 1 .. Len(data) /\ Len(data) \in n .. Len(data)
    BY <1>1
  <2> QED
    BY <2>1, ConcatAdjacentSubSeq DEF FirstBytes, OtherBytes
<1> QED
  BY <1>2, <1>3, <1>4, SubSeqFull

\* retrieve() takes the first bytes, whether the indices go on or go back to the
\* front.
LEMMA RetrieveTakes ==
  ASSUME NEW b, IsBuffer(b), NEW len \in Nat, len <= readableBytes(b)
  PROVE  /\ IsBuffer(retrieve(b, len))
         /\ FirstBytes(Content(b), len) \in Seq(Byte)
         /\ Content(b) = FirstBytes(Content(b), len) \o Content(retrieve(b, len))
<1> USE BufferAssumption
<1>1. /\ b.size \in Nat /\ b.readerIndex \in Nat /\ b.writerIndex \in Nat
      /\ b.readerIndex <= b.writerIndex /\ b.writerIndex <= b.size
      /\ kCheapPrepend \in Nat /\ kCheapPrepend <= b.size
      /\ readableBytes(b) = b.writerIndex - b.readerIndex
  BY DEF IsBuffer, readableBytes
<1>2. /\ Content(b) \in Seq(Byte) /\ Len(Content(b)) = readableBytes(b)
      /\ readableBytes(b) \in Nat
      /\ \A i \in 1 .. readableBytes(b) : Content(b)[i] = b.bytes[b.readerIndex + i - 1]
  BY ContentType
<1>3. PICK t : t = OtherBytes(Content(b), len)
  OBVIOUS
<1>4. /\ FirstBytes(Content(b), len) \in Seq(Byte)
      /\ t \in Seq(Byte) /\ Len(t) = readableBytes(b) - len
      /\ \A i \in 1 .. readableBytes(b) - len : t[i] = Content(b)[len + i]
      /\ FirstBytes(Content(b), len) \o t = Content(b)
  <2>1. len \in 0 .. Len(Content(b))
    BY <1>2
  <2> QED
    BY <1>2, <1>3, <2>1, SplitBytes
<1> DEFINE d == retrieve(b, len)
<1>5. CASE len < readableBytes(b)
  <2>1. d = Indexed(b, b.readerIndex + len, b.writerIndex)
    BY <1>5 DEF retrieve
  <2> HIDE DEF d
  <2>2. b.readerIndex + len \in Nat /\ b.readerIndex + len <= b.writerIndex
    BY <1>1, <1>5
  <2>3. /\ IsBuffer(d) /\ d.bytes = b.bytes /\ d.readerIndex = b.readerIndex + len
        /\ d.writerIndex = b.writerIndex
    BY <1>1, <2>1, <2>2, IndicesAssigned
  <2>4. /\ Content(d) \in Seq(Byte) /\ Len(Content(d)) = readableBytes(d)
        /\ \A i \in 1 .. readableBytes(d) : Content(d)[i] = d.bytes[d.readerIndex + i - 1]
    BY <2>3, ContentType
  <2>5. readableBytes(d) = readableBytes(b) - len
    BY <1>1, <2>3 DEF readableBytes
  <2>6. ASSUME NEW i \in 1 .. Len(t)
        PROVE  t[i] = Content(d)[i]
    <3>1. /\ i \in 1 .. readableBytes(d) /\ i \in 1 .. readableBytes(b) - len
          /\ len + i \in 1 .. readableBytes(b)
      BY <1>2, <1>4, <2>5
    <3>2. b.readerIndex + (len + i) - 1 = b.readerIndex + len + i - 1
      BY <1>1, <3>1
    <3>3. Content(d)[i] = b.bytes[b.readerIndex + len + i - 1]
      BY <2>3, <2>4, <3>1
    <3>4. Content(b)[len + i] = b.bytes[b.readerIndex + (len + i) - 1]
      BY <1>2, <3>1
    <3> QED
      BY <1>4, <3>1, <3>2, <3>3, <3>4
  <2>7. t = Content(d)
    BY <1>4, <2>4, <2>5, <2>6, SeqEqual
  <2> QED
    BY <1>4, <2>3, <2>7 DEF d
<1>6. CASE ~(len < readableBytes(b))
  <2>1. d = Indexed(b, kCheapPrepend, kCheapPrepend)
    BY <1>6 DEF retrieve, retrieveAll
  <2> HIDE DEF d
  <2>2. IsBuffer(d) /\ d.readerIndex = kCheapPrepend /\ d.writerIndex = kCheapPrepend
    BY <1>1, <2>1, IndicesAssigned
  <2>3. readableBytes(d) = 0 /\ readableBytes(b) - len = 0
    BY <1>1, <1>2, <1>6, <2>2 DEF readableBytes
  <2>4. Content(d) \in Seq(Byte) /\ Len(Content(d)) = readableBytes(d)
    BY <2>2, ContentType
  <2>5. Content(d) = <<>> /\ t = <<>>
    BY <1>4, <2>3, <2>4, EmptySeq
  <2> QED
    BY <1>4, <2>2, <2>5 DEF d
<1> QED
  BY <1>5, <1>6

\* shrink() keeps the content.
LEMMA ShrinkKeeps ==
  ASSUME NEW b, IsBuffer(b), NEW reserve \in Nat
  PROVE  IsBuffer(shrink(b, reserve)) /\ Content(shrink(b, reserve)) = Content(b)
<1>1. IsBuffer(NewBuffer) /\ Content(NewBuffer) = <<>>
  <2>1. NewBuffer.size = kCheapPrepend + kInitialSize /\ IsBuffer(NewBuffer)
    BY BufferAssumption DEF NewBuffer, IsBuffer
  <2>2. readableBytes(NewBuffer) = 0
    BY BufferAssumption DEF NewBuffer, readableBytes
  <2>3. Content(NewBuffer) \in Seq(Byte) /\ Len(Content(NewBuffer)) = 0
    BY <2>1, <2>2, ContentType
  <2> QED
    BY <2>1, <2>3, EmptySeq
<1>2. /\ readableBytes(b) + reserve \in Nat /\ Content(b) \in Seq(Byte)
  BY ContentType
<1> DEFINE e == ensureWritableBytes(NewBuffer, readableBytes(b) + reserve)
<1>3. IsBuffer(e) /\ Content(e) = <<>>
  BY <1>1, <1>2, EnsureMakesSpace
<1>4. shrink(b, reserve) = append(e, Content(b))
  BY DEF shrink
<1> HIDE DEF e
<1>5. /\ IsBuffer(append(e, Content(b)))
      /\ Content(append(e, Content(b))) = <<>> \o Content(b)
  BY <1>2, <1>3, AppendAppends
<1> QED
  BY <1>2, <1>4, <1>5, ConcatEmptySeq

\* readFd() appends what was read, although it comes in two pieces.
LEMMA ReadFdAppends ==
  ASSUME NEW b, IsBuffer(b), NEW data \in Seq(Byte)
  PROVE  /\ IsBuffer(readFd(b, data))
         /\ Content(readFd(b, data)) = Content(b) \o data
         /\ readFd(b, data).size > b.size
              => readableBytes(readFd(b, data)) + kCheapPrepend > b.size
<1>1. /\ writableBytes(b) \in Nat /\ Len(data) \in Nat /\ b.size \in Nat
      /\ Content(b) \in Seq(Byte)
  BY ContentType DEF IsBuffer
<1>2. CASE Len(data) <= writableBytes(b)
  <2>1. readFd(b, data) = Written(b, data)
    BY <1>2 DEF readFd
  <2>2. IsBuffer(Written(b, data)) /\ Content(Written(b, data)) = Content(b) \o data
        /\ Written(b, data).size = b.size
    BY <1>2, WrittenAppends
  <2> QED
    BY <1>1, <2>1, <2>2
<1>3. CASE ~(Len(data) <= writableBytes(b))
  <2> DEFINE x == FirstBytes(data, writableBytes(b))
             y == OtherBytes(data, writableBytes(b))
             c == Written(b, x)
             d == append(c, y)
  <2>1. writableBytes(b) \in 0 .. Len(data)
    BY <1>1, <1>3
  <2>2. /\ x \in Seq(Byte) /\ y \in Seq(Byte) /\ x \o y = data
        /\ Len(x) = writableBytes(b)
    BY <2>1, SplitBytes
  <2>3. readFd(b, data) = d
    BY <1>3 DEF readFd
  <2> HIDE DEF x, y
  <2>4. Len(x) <= writableBytes(b)
    BY <1>1, <2>2
  <2>5. IsBuffer(c) /\ Content(c) = Content(b) \o x /\ c.size = b.size
    BY <2>2, <2>4, WrittenAppends
  <2> HIDE DEF c
  <2>6. /\ IsBuffer(d) /\ Content(d) = Content(c) \o y
        /\ d.size > c.size => readableBytes(d) + kCheapPrepend > c.size
    BY <2>2, <2>5, AppendAppends
  <2> HIDE DEF d
  <2>7. (Content(b) \o x) \o y = Content(b) \o (x \o y)
    <3>1. \A s, t, u \in Seq(Byte) : (s \o t) \o u = s \o (t \o u)
      BY ConcatAssociative
    <3> QED
      BY <1>1, <2>2, <3>1, ZenonT(30)
  <2>8. Content(d) = Content(b) \o data
    BY <2>2, <2>5, <2>6, <2>7
  <2> QED
    BY <2>3, <2>5, <2>6, <2>8
<1> QED
  BY <1>2, <1>3

\* A new buffer is empty.
LEMMA InitIndexInv == Init => IndexInv /\ BQ!Init
<1> SUFFICES ASSUME Init PROVE IndexInv /\ BQ!Init
  OBVIOUS
<1>1. IsBuffer(buffer)
  BY BufferAssumption DEF Init, NewBuffer, IsBuffer
<1>2. readableBytes(buffer) = 0
  BY BufferAssumption DEF Init, NewBuffer, readableBytes
<1>3. Content(buffer) \in Seq(Byte) /\ Len(Content(buffer)) = 0
  BY <1>1, <1>2, ContentType
<1>4. Content(buffer) = <<>>
  BY <1>3, EmptySeq
<1>5. op \in {"none", "put", "putFront", "take"} \X Seq(Byte)
  BY EmptySeq DEF Init
<1>6. \A len \in 0 .. MaxLen : len \in Nat
  BY BufferAssumption
<1> QED
  BY <1>1, <1>4, <1>5, <1>6, EnsureMakesSpace DEF Init, IndexInv, BQ!Init

\* Every call leaves a buffer, does what the queue of bytes does, and grows the
\* vector for new bytes only when they do not fit.
LEMMA NextIndexInv ==
  ASSUME IndexInv, Next
  PROVE  /\ IndexInv'
         /\ BQ!Step
         /\ (buffer'.size > buffer.size /\ op'[1] = "put")
              => readableBytes(buffer') + kCheapPrepend > buffer.size
<1> DEFINE Grows == (buffer'.size > buffer.size /\ op'[1] = "put")
                      => readableBytes(buffer') + kCheapPrepend > buffer.size
           Ops == {"none", "put", "putFront", "take"} \X Seq(Byte)
<1>1. IsBuffer(buffer)
  BY DEF IndexInv
<1>2. ASSUME NEW data \in Data
      PROVE  data \in Seq(Byte)
  <2>1. PICK n \in 0 .. MaxLen : data \in [1 .. n -> Byte]
    BY DEF Data
  <2>2. n \in Nat
    BY BufferAssumption
  <2> QED
    BY <2>1, <2>2
<1>3. ASSUME NEW data \in Data, AppendData(data)
      PROVE  IsBuffer(buffer') /\ op' \in Ops /\ BQ!Step /\ Grows
  BY <1>1, <1>2, <1>3, AppendAppends DEF AppendData, BQ!Step
<1>4. ASSUME NEW data \in Data, ReadFd(data)
      PROVE  IsBuffer(buffer') /\ op' \in Ops /\ BQ!Step /\ Grows
  BY <1>1, <1>2, <1>4, ReadFdAppends DEF ReadFd, BQ!Step
<1>5. ASSUME NEW data \in Data, Prepend(data)
      PROVE  IsBuffer(buffer') /\ op' \in Ops /\ BQ!Step /\ Grows
  BY <1>1, <1>2, <1>5, PrependPrepends DEF Prepend, BQ!Step
<1>6. ASSUME NEW len \in 0 .. MaxReadable, Retrieve(len)
      PROVE  IsBuffer(buffer') /\ op' \in Ops /\ BQ!Step /\ Grows
  <2>1. len \in Nat /\ len <= readableBytes(buffer)
    BY <1>6, BufferAssumption DEF Retrieve
  <2> QED
    BY <1>1, <1>6, <2>1, RetrieveTakes DEF Retrieve, BQ!Step
<1>7. ASSUME NEW len \in 0 .. MaxLen, EnsureWritableBytes(len)
      PROVE  IsBuffer(buffer') /\ op' \in Ops /\ BQ!Step /\ Grows
  <2>1. len \in Nat
    BY BufferAssumption
  <2>2. IsBuffer(buffer') /\ Content(buffer') = Content(buffer)
    BY <1>1, <1>7, <2>1, EnsureMakesSpace DEF EnsureWritableBytes
  <2> QED
    BY <1>7, <2>2, EmptySeq DEF EnsureWritableBytes, BQ!Step
<1>8. ASSUME NEW len \in 0 .. MaxLen, Shrink(len)
      PROVE  IsBuffer(buffer') /\ op' \in Ops /\ BQ!Step /\ Grows
  <2>1. len \in Nat
    BY BufferAssumption
  <2>2. IsBuffer(buffer') /\ Content(buffer') = Content(buffer)
    BY <1>1, <1>8, <2>1, ShrinkKeeps DEF Shrink
  <2> QED
    BY <1>8, <2>2, EmptySeq DEF Shrink, BQ!Step
<1>9. IsBuffer(buffer') /\ op' \in Ops /\ BQ!Step /\ Grows
  BY <1>3, <1>4, <1>5, <1>6, <1>7, <1>8 DEF Next
<1>10. \A len \in 0 .. MaxLen : len \in Nat
  BY BufferAssumption
<1> QED
  BY <1>9, <1>10, EnsureMakesSpace DEF IndexInv

\* The picture in Buffer.h is right after any sequence of calls, and the
\* assertions of makeSpace() and ensureWritableBytes() hold.
THEOREM BufferInvariant == Spec => []IndexInv
<1>1. Init => IndexInv
  BY InitIndexInv
<1>2. IndexInv /\ [Next]_vars => IndexInv'
  <2>1. CASE Next
    BY <2>1, NextIndexInv
  <2>2. CASE UNCHANGED vars
    BY <2>2 DEF vars, IndexInv
  <2> QED
    BY <2>1, <2>2
<1> QED
  BY <1>1, <1>2, PTL DEF Spec

\* The buffer implements the queue of bytes: moving, growing and shrinking
\* never touch the content.
THEOREM BufferIsByteQueue == Spec => ImplementsByteQueue
<1>1. Init => BQ!Init
  BY InitIndexInv
<1>2. IndexInv /\ [Next]_vars => [BQ!Step]_<<Content(buffer), op>>
  <2>1. CASE UNCHANGED vars
    BY <2>1 DEF vars
  <2> QED
    BY <2>1, NextIndexInv
<1> QED
  BY <1>1, <1>2, BufferInvariant, PTL DEF Spec, ImplementsByteQueue, BQ!Spec

\* The vector does not grow while there is room in it: append() and readFd()
\* move the content first.
THEOREM BufferGrowth == Spec => GrowsOnlyWhenFull
<1>1. IndexInv /\ [Next]_vars =>
        [(buffer'.size > buffer.size /\ op'[1] = "put")
           => readableBytes(buffer') + kCheapPrepend > buffer.size]_vars
  BY NextIndexInv
<1> QED
  BY <1>1, BufferInvariant, PTL DEF Spec, GrowsOnlyWhenFull
=============================================================================
