------------------------- MODULE SocketSend_proofs -------------------------
(***************************************************************************)
(* What is sent reaches the client whole and in order, and bytes in the    *)
(* buffer never wait for nobody, for every number of senders and packets   *)
(* and every size of packets and buffers.                                  *)
(***************************************************************************)
EXTENDS SocketSend, SequenceTheorems, TLAPS

Byte == Packets \X Nat

Elements(q) == {q[i] : i \in 1..Len(q)}

\* Who has what: the mutex is held from the writes to the push; whoever
\* updates the queue is about to send its first packet, or has just done so.
Holders ==
    /\ \A s \in Senders : m_writeMutex = s <=> pc[s] = "push"
    /\ \A s \in Senders : pc[s] # "idle" => packet[s] \in Packets
    /\ \A s \in Senders :
          queueLock = s => /\ pc[s] \in {"out", "push"} /\ queue # <<>>
                           /\ packet[s] = queue[1]

\* m_writeLock says that EPOLLOUT is asked for, and it does so whenever nobody
\* is at work on the buffer and there is something in it, or somebody is about
\* to send it.
Registration ==
    /\ m_writeLock = 1 => armed = "out"
    /\ m_writeMutex = Null /\ (armed = "out" \/ worker = "post")
          => m_writeLock = 1
    /\ m_writeMutex = Null /\ Buffer!Contents(writeBuffer) # <<>>
          => m_writeLock = 1

Streams == kernel \in Seq(Byte) /\ received \in Seq(Byte)

BufferIInv == TypeOK /\ Streams /\ Holders /\ Registration

\* All bytes that have been put on the connection.
AllBytes == received \o InBuffers

\* The first packet of the queue has been sent and is still in it.
HeadSent == \E s \in Senders : queueLock = s /\ pc[s] = "push"

\* A packet is in one thread's hands or waits in the queue, or has been sent.
OnceEach ==
    /\ \A s \in Senders : pc[s] # "idle" => packet[s] \in handed
    /\ Elements(queue) \subseteq handed /\ Begun(AllBytes) \subseteq handed
    /\ \A i, j \in 1..Len(queue) : queue[i] = queue[j] => i = j
    /\ \A s \in Senders :
          pc[s] # "idle" /\ queueLock # s
             => Owner[packet[s]] = s /\ packet[s] \notin Elements(queue)
    /\ \A s \in Senders :
          pc[s] \in {"out", "full"} => packet[s] \notin Begun(AllBytes)
    /\ \A i \in 1..Len(queue) :
          queue[i] \in Begun(AllBytes) => i = 1 /\ HeadSent

-----------------------------------------------------------------------------
(* CircularBuffer.                                                         *)

USE SendAssumption DEF SendAssumption

LEMMA Associative ==
    \A s, t, u \in Seq(Byte) : (s \o t) \o u = s \o (t \o u)
  BY ConcatAssociative

LEMMA CutInTwo ==
    ASSUME NEW q \in Seq(Byte), NEW n \in 0..Len(q)
    PROVE  SubSeq(q, 1, n) \o SubSeq(q, n + 1, Len(q)) = q
  <1>1. /\ Len(q) \in Nat /\ 1 \in 1..(Len(q) + 1) /\ n \in (1 - 1)..Len(q)
        /\ Len(q) \in n..Len(q)
    BY LenProperties
  <1>2. SubSeq(q, 1, n) \o SubSeq(q, n + 1, Len(q)) = SubSeq(q, 1, Len(q))
    <2> DEFINE m == 1
               k == Len(q)
    <2>1. m \in 1..(Len(q) + 1) /\ n \in (m - 1)..Len(q) /\ k \in n..Len(q)
      BY <1>1
    <2> HIDE DEF m, k
    <2>2. SubSeq(q, m, n) \o SubSeq(q, n + 1, k) = SubSeq(q, m, k)
      BY <2>1, ConcatAdjacentSubSeq
    <2> QED BY <2>2 DEF m, k
  <1> QED BY <1>2, SubSeqFull

LEMMA ConsHeadTail ==
    ASSUME NEW h \in Byte, NEW t \in Seq(Byte)
    PROVE  <<h>> \o t # <<>> /\ Head(<<h>> \o t) = h /\ Tail(<<h>> \o t) = t
  <1> DEFINE c == <<h>> \o t
  <1>1. <<h>> \in Seq(Byte) /\ Len(<<h>>) = 1 /\ <<h>>[1] = h /\ Len(t) \in Nat
    BY LenProperties
  <1>2. /\ c \in Seq(Byte) /\ Len(c) = 1 + Len(t)
        /\ \A i \in 1..(1 + Len(t)) : c[i] = IF i <= 1 THEN h ELSE t[i - 1]
    BY <1>1, ConcatProperties
  <1> HIDE DEF c
  <1>3. c # <<>> /\ c[1] = h
    BY <1>1, <1>2, EmptySeq
  <1>4. /\ Tail(c) \in Seq(Byte) /\ Len(Tail(c)) = Len(t)
        /\ \A i \in 1..Len(t) : Tail(c)[i] = c[i + 1]
        /\ Head(c) = h
    BY <1>1, <1>2, <1>3, HeadTailProperties
  <1>5. \A i \in 1..Len(t) : Tail(c)[i] = t[i]
    <2> SUFFICES ASSUME NEW i \in 1..Len(t) PROVE Tail(c)[i] = t[i]
      OBVIOUS
    <2>1. i + 1 \in 1..(1 + Len(t)) /\ ~(i + 1 <= 1) /\ (i + 1) - 1 = i
      BY <1>1
    <2> QED BY <1>2, <1>4, <2>1
  <1>6. Tail(c) = t
    BY <1>4, <1>5, SeqEqual
  <1> QED BY <1>3, <1>4, <1>6 DEF c

LEMMA BufferTypes ==
    ASSUME NEW buf, Buffer!Valid(buf)
    PROVE  /\ buf = [start |-> buf.start, a |-> buf.a, b |-> buf.b,
                     hasB |-> buf.hasB]
           /\ buf.start \in Nat /\ buf.a \in Seq(Byte) /\ buf.b \in Seq(Byte)
           /\ buf.hasB \in BOOLEAN
           /\ Len(buf.a) \in Nat /\ Len(buf.b) \in Nat
           /\ buf.start + Len(buf.a) <= Capacity /\ Len(buf.b) <= buf.start
           /\ ~buf.hasB => buf.b = <<>>
           /\ buf.a = <<>> => buf.b = <<>> /\ buf.start = 0
           /\ Len(buf.a) = 0 => buf.a = <<>>
  <1>1. buf \in [start : Nat, a : Seq(Byte), b : Seq(Byte), hasB : BOOLEAN]
    BY DEF Buffer!Valid, Buffer!Buffers, Byte
  <1>2. buf.a \in Seq(Byte) /\ buf.b \in Seq(Byte)
    BY <1>1
  <1>3. Len(buf.a) \in Nat /\ Len(buf.b) \in Nat /\ (Len(buf.a) = 0 => buf.a = <<>>)
    BY <1>2, LenProperties, EmptySeq
  <1> QED BY <1>1, <1>2, <1>3 DEF Buffer!Valid

\* GetSpace changes no byte.
LEMMA PreparedKeeps ==
    ASSUME NEW buf, Buffer!Valid(buf)
    PROVE  /\ Buffer!Valid(Buffer!Prepared(buf))
           /\ Buffer!Contents(Buffer!Prepared(buf)) = Buffer!Contents(buf)
           /\ Buffer!Space(Buffer!Prepared(buf)) = Buffer!Space(buf)
  <1>1. buf \in [start : Nat, a : Seq(Byte), b : Seq(Byte), hasB : BOOLEAN]
    BY DEF Buffer!Valid, Buffer!Buffers, Byte
  <1>2. CASE Buffer!Prepared(buf) = buf
    BY <1>2
  <1>3. CASE Buffer!Prepared(buf) # buf
    <2>1. /\ Buffer!Prepared(buf) = [buf EXCEPT !.hasB = TRUE]
          /\ ~buf.hasB
      BY <1>3 DEF Buffer!Prepared
    <2> DEFINE r == [buf EXCEPT !.hasB = TRUE]
    <2>2. /\ r \in [start : Nat, a : Seq(Byte), b : Seq(Byte), hasB : BOOLEAN]
          /\ r.start = buf.start /\ r.a = buf.a /\ r.b = buf.b /\ r.hasB
      BY <1>1
    <2> HIDE DEF r
    <2>3. Buffer!Valid(r)
      BY <2>2, <2>1 DEF Buffer!Valid, Buffer!Buffers, Byte
    <2>4. Buffer!Contents(r) = Buffer!Contents(buf)
      BY <2>2 DEF Buffer!Contents
    <2>5. Buffer!Prepared(r) = r
      BY <2>2 DEF Buffer!Prepared
    <2>6. Buffer!Prepared(buf) = r
      BY <2>1 DEF r
    <2>7. Buffer!Space(r) = Buffer!Space(buf)
      BY <2>5, <2>6 DEF Buffer!Space
    <2> QED BY <2>3, <2>4, <2>6, <2>7
  <1> QED BY <1>2, <1>3

\* What GetSpace finds room for is written behind what is there, and leaves
\* as much less room, at least.
LEMMA WrittenFits ==
    ASSUME NEW buf, Buffer!Valid(buf), NEW bytes \in Seq(Byte),
           Len(bytes) <= Buffer!Space(buf)
    PROVE  /\ Buffer!Valid(Buffer!Written(buf, bytes))
           /\ Buffer!Contents(Buffer!Written(buf, bytes))
                = Buffer!Contents(buf) \o bytes
           /\ Buffer!Space(Buffer!Written(buf, bytes))
                >= Buffer!Space(buf) - Len(bytes)
  <1>1. /\ buf \in [start : Nat, a : Seq(Byte), b : Seq(Byte), hasB : BOOLEAN]
        /\ Capacity \in Nat /\ Len(bytes) \in Nat
    BY LenProperties DEF Buffer!Valid, Buffer!Buffers, Byte
  <1>2. /\ buf.start \in Nat /\ buf.a \in Seq(Byte) /\ buf.b \in Seq(Byte)
        /\ Len(buf.a) \in Nat /\ Len(buf.b) \in Nat
        /\ buf.start + Len(buf.a) <= Capacity /\ Len(buf.b) <= buf.start
        /\ ~buf.hasB => buf.b = <<>>
        /\ buf.a = <<>> => buf.b = <<>> /\ buf.start = 0
        /\ Len(buf.a) = 0 => buf.a = <<>>
    BY BufferTypes
  <1>3. CASE Buffer!Prepared(buf).hasB
    <2> DEFINE r == [buf EXCEPT !.b = buf.b \o bytes, !.hasB = TRUE]
    <2>1. Buffer!Written(buf, bytes) = r
      BY <1>3 DEF Buffer!Written
    <2>2. /\ buf.b \o bytes \in Seq(Byte)
          /\ Len(buf.b \o bytes) = Len(buf.b) + Len(bytes)
      BY <1>2, ConcatProperties
    <2>3. /\ r \in [start : Nat, a : Seq(Byte), b : Seq(Byte), hasB : BOOLEAN]
          /\ r.start = buf.start /\ r.a = buf.a /\ r.b = buf.b \o bytes /\ r.hasB
      BY <1>1, <2>2
    <2> HIDE DEF r
    <2>4. Buffer!Space(buf) = buf.start - Len(buf.b)
      <3> DEFINE p == Buffer!Prepared(buf)
      <3>1. p = buf \/ p = [buf EXCEPT !.hasB = TRUE]
        BY DEF Buffer!Prepared
      <3>2. p.start = buf.start /\ p.b = buf.b
        BY <1>1, <3>1
      <3>3. Buffer!Space(buf) = Buffer!BFreeSpace(p)
        BY <1>3 DEF Buffer!Space
      <3> HIDE DEF p
      <3>4. p.hasB
        BY <1>3 DEF p
      <3> QED BY <3>2, <3>3, <3>4 DEF Buffer!BFreeSpace
    <2>5. r.a = <<>> => r.b = <<>>
      <3>1. ASSUME buf.a = <<>> PROVE Len(bytes) = 0 /\ buf.b = <<>>
        BY <1>1, <1>2, <2>4, <3>1
      <3>2. Len(bytes) = 0 => bytes = <<>>
        BY EmptySeq
      <3> QED BY <2>3, <3>1, <3>2, EmptySeq, ConcatEmptySeq
    <2>6. Buffer!Valid(r)
      BY <1>1, <1>2, <2>2, <2>3, <2>4, <2>5 DEF Buffer!Valid, Buffer!Buffers, Byte
    <2>7. Buffer!Contents(r) = Buffer!Contents(buf) \o bytes
      <3>1. buf.a \o (buf.b \o bytes) = (buf.a \o buf.b) \o bytes
        BY <1>2, Associative
      <3> QED BY <2>3, <3>1 DEF Buffer!Contents
    <2>8. Buffer!Space(r) = r.start - Len(r.b)
      <3>1. Buffer!Prepared(r) = r
        BY <2>3 DEF Buffer!Prepared
      <3> QED BY <2>3, <3>1 DEF Buffer!Space, Buffer!BFreeSpace
    <2> QED BY <1>1, <1>2, <2>1, <2>2, <2>3, <2>4, <2>6, <2>7, <2>8
  <1>4. CASE ~Buffer!Prepared(buf).hasB
    <2> DEFINE r == [buf EXCEPT !.a = buf.a \o bytes]
    <2>1. Buffer!Written(buf, bytes) = r
      BY <1>4 DEF Buffer!Written
    <2>2. /\ buf.a \o bytes \in Seq(Byte)
          /\ Len(buf.a \o bytes) = Len(buf.a) + Len(bytes)
      BY <1>2, ConcatProperties
    <2>3. /\ r \in [start : Nat, a : Seq(Byte), b : Seq(Byte), hasB : BOOLEAN]
          /\ r.start = buf.start /\ r.a = buf.a \o bytes /\ r.b = buf.b
          /\ r.hasB = buf.hasB
      BY <1>1, <2>2
    <2> HIDE DEF r
    <2>4. /\ ~buf.hasB /\ buf.b = <<>>
          /\ Buffer!Space(buf) = Capacity - (buf.start + Len(buf.a))
          /\ Buffer!Space(buf) >= buf.start
      <3>1. ~buf.hasB /\ Buffer!Prepared(buf) = buf
            /\ ~(Buffer!AFreeSpace(buf) < Buffer!SpaceBeforeA(buf))
        BY <1>1, <1>4 DEF Buffer!Prepared
      <3> QED BY <1>1, <1>2, <1>4, <3>1
              DEF Buffer!Space, Buffer!AFreeSpace, Buffer!SpaceBeforeA
    <2>5. r.a = <<>> => buf.a = <<>>
      <3>1. r.a = <<>> => Len(buf.a) + Len(bytes) = 0
        BY <2>2, <2>3, EmptySeq
      <3> QED BY <1>1, <1>2, <3>1
    <2>6. Buffer!Valid(r)
      BY <1>1, <1>2, <2>2, <2>3, <2>4, <2>5 DEF Buffer!Valid, Buffer!Buffers, Byte
    <2>7. Buffer!Contents(r) = Buffer!Contents(buf) \o bytes
      BY <1>2, <2>2, <2>3, <2>4, ConcatEmptySeq DEF Buffer!Contents
    <2>8. Buffer!Space(r) >= Buffer!Space(buf) - Len(bytes)
      <3>1. /\ Buffer!AFreeSpace(r) = Buffer!Space(buf) - Len(bytes)
            /\ Buffer!SpaceBeforeA(r) = buf.start /\ Len(r.b) = 0
        BY <1>1, <1>2, <2>2, <2>3, <2>4, EmptySeq
           DEF Buffer!AFreeSpace, Buffer!SpaceBeforeA
      <3>2. CASE Buffer!AFreeSpace(r) < Buffer!SpaceBeforeA(r)
        <4>1. Buffer!Prepared(r) = [r EXCEPT !.hasB = TRUE]
          BY <2>3, <2>4, <3>2 DEF Buffer!Prepared
        <4> DEFINE q == [r EXCEPT !.hasB = TRUE]
        <4>2. q.hasB /\ q.start = buf.start /\ q.b = r.b
          BY <2>3
        <4> HIDE DEF q
        <4>3. Buffer!Prepared(r) = q
          BY <4>1 DEF q
        <4>4. Buffer!Space(r) = buf.start - Len(r.b)
          BY <4>2, <4>3 DEF Buffer!Space, Buffer!BFreeSpace
        <4> QED BY <1>1, <1>2, <2>4, <3>1, <3>2, <4>4
      <3>3. CASE ~(Buffer!AFreeSpace(r) < Buffer!SpaceBeforeA(r))
        <4>1. Buffer!Prepared(r) = r
          BY <2>3, <2>4, <3>3 DEF Buffer!Prepared
        <4> QED BY <1>1, <1>2, <2>3, <2>4, <3>1, <4>1 DEF Buffer!Space
      <3> QED BY <3>2, <3>3
    <2> QED BY <2>1, <2>6, <2>7, <2>8
  <1> QED BY <1>3, <1>4

\* What the worker has sent is cut off at the front.
LEMMA RemovedKeeps ==
    ASSUME NEW buf, Buffer!Valid(buf), NEW n \in Nat,
           n <= Len(Buffer!Contiguous(buf))
    PROVE  /\ Buffer!Contiguous(buf) \in Seq(Byte)
           /\ Buffer!Valid(Buffer!Removed(buf, n))
           /\ Buffer!Contents(Buffer!Removed(buf, n)) \in Seq(Byte)
           /\ SubSeq(Buffer!Contiguous(buf), 1, n)
                \o Buffer!Contents(Buffer!Removed(buf, n)) = Buffer!Contents(buf)
           /\ SubSeq(Buffer!Contiguous(buf), 1, n) \in Seq(Byte)
           /\ Len(SubSeq(Buffer!Contiguous(buf), 1, n)) = n
  <1>1. /\ buf \in [start : Nat, a : Seq(Byte), b : Seq(Byte), hasB : BOOLEAN]
        /\ Capacity \in Nat
    BY DEF Buffer!Valid, Buffer!Buffers, Byte
  <1>2. /\ buf.start \in Nat /\ buf.a \in Seq(Byte) /\ buf.b \in Seq(Byte)
        /\ Len(buf.a) \in Nat /\ Len(buf.b) \in Nat
        /\ buf.start + Len(buf.a) <= Capacity /\ Len(buf.b) <= buf.start
        /\ ~buf.hasB => buf.b = <<>>
        /\ buf.a = <<>> => buf.b = <<>> /\ buf.start = 0
        /\ Len(buf.a) = 0 => buf.a = <<>>
    BY BufferTypes
  <1>3. Buffer!Contiguous(buf) = buf.a
    BY <1>2 DEF Buffer!Contiguous
  <1>4. n \in 0..Len(buf.a)
    BY <1>2, <1>3
  <1>5. SubSeq(buf.a, 1, n) \in Seq(Byte) /\ Len(SubSeq(buf.a, 1, n)) = n
    <2>1. \A i \in 1..n : buf.a[i] \in Byte
      BY <1>2, <1>4, ElementOfSeq
    <2> QED BY <1>4, <2>1, SubSeqProperties
  <1>6. CASE n < Len(buf.a)
    <2> DEFINE rest == SubSeq(buf.a, n + 1, Len(buf.a))
               r == [start |-> buf.start + n, a |-> rest, b |-> buf.b,
                     hasB |-> buf.hasB]
    <2>1. Buffer!Removed(buf, n) = r
      BY <1>1, <1>6 DEF Buffer!Removed
    <2>2. rest \in Seq(Byte) /\ Len(rest) = Len(buf.a) - n
      <3>1. \A i \in (n + 1)..Len(buf.a) : buf.a[i] \in Byte
        BY <1>2, ElementOfSeq
      <3>2. Len(buf.a) - (n + 1) + 1 = Len(buf.a) - n
        BY <1>2
      <3> QED BY <1>2, <1>6, <3>1, <3>2, SubSeqProperties
    <2>3. SubSeq(buf.a, 1, n) \o rest = buf.a
      BY <1>2, <1>4, CutInTwo
    <2> HIDE DEF rest
    <2>4. /\ r \in [start : Nat, a : Seq(Byte), b : Seq(Byte), hasB : BOOLEAN]
          /\ r.start = buf.start + n /\ r.a = rest /\ r.b = buf.b /\ r.hasB = buf.hasB
      BY <1>1, <1>2, <2>2
    <2> HIDE DEF r
    <2>5. rest # <<>>
      BY <1>2, <1>6, <2>2, EmptySeq
    <2>6. Buffer!Valid(r)
      <3>1. /\ r.start + Len(r.a) <= Capacity /\ Len(r.b) <= r.start
        BY <1>1, <1>2, <1>6, <2>2, <2>4
      <3>2. (~r.hasB => r.b = <<>>) /\ r.a # <<>>
        BY <1>2, <2>4, <2>5
      <3> QED BY <2>4, <3>1, <3>2 DEF Buffer!Valid, Buffer!Buffers, Byte
    <2>7. Buffer!Contents(r) \in Seq(Byte)
      BY <1>2, <2>2, <2>4, ConcatProperties DEF Buffer!Contents
    <2>8. SubSeq(buf.a, 1, n) \o (rest \o buf.b)
            = (SubSeq(buf.a, 1, n) \o rest) \o buf.b
      BY <1>2, <1>5, <2>2, Associative
    <2>9. SubSeq(buf.a, 1, n) \o Buffer!Contents(r) = Buffer!Contents(buf)
      BY <2>3, <2>4, <2>8 DEF Buffer!Contents
    <2> QED BY <1>2, <1>3, <1>5, <2>1, <2>6, <2>7, <2>9
  <1>7. CASE ~(n < Len(buf.a))
    <2> DEFINE r == [start |-> 0, a |-> buf.b, b |-> <<>>, hasB |-> FALSE]
    <2>1. Buffer!Removed(buf, n) = r /\ n = Len(buf.a)
      BY <1>2, <1>4, <1>7 DEF Buffer!Removed
    <2>2. /\ r \in [start : Nat, a : Seq(Byte), b : Seq(Byte), hasB : BOOLEAN]
          /\ r.start = 0 /\ r.a = buf.b /\ r.b = <<>> /\ r.hasB = FALSE
      BY <1>2, EmptySeq
    <2> HIDE DEF r
    <2>3. Buffer!Valid(r)
      BY <1>1, <1>2, <2>2, EmptySeq DEF Buffer!Valid, Buffer!Buffers, Byte
    <2>4. Buffer!Contents(r) = buf.b
      BY <1>2, <2>2, ConcatEmptySeq DEF Buffer!Contents
    <2>5. SubSeq(buf.a, 1, n) = buf.a
      BY <1>2, <2>1, SubSeqFull
    <2> QED BY <1>2, <1>3, <1>5, <2>1, <2>3, <2>4, <2>5 DEF Buffer!Contents
  <1> QED BY <1>6, <1>7

LEMMA ContentsType ==
    ASSUME NEW buf, Buffer!Valid(buf)
    PROVE  Buffer!Contents(buf) \in Seq(Byte)
  BY BufferTypes, ConcatProperties DEF Buffer!Contents

LEMMA SpaceType ==
    ASSUME NEW buf, Buffer!Valid(buf)
    PROVE  Buffer!Space(buf) \in Int
  <1>1. /\ buf \in [start : Nat, a : Seq(Byte), b : Seq(Byte), hasB : BOOLEAN]
        /\ Capacity \in Nat
    BY DEF Buffer!Valid, Buffer!Buffers, Byte
  <1>2. \/ Buffer!Prepared(buf) = buf
        \/ Buffer!Prepared(buf) = [buf EXCEPT !.hasB = TRUE]
    BY DEF Buffer!Prepared
  <1> DEFINE after == Buffer!Prepared(buf)
  <1>3. after.start = buf.start /\ after.a = buf.a /\ after.b = buf.b
    BY <1>1, <1>2
  <1>4. /\ buf.start \in Nat /\ Len(buf.a) \in Nat /\ Len(buf.b) \in Nat
    BY BufferTypes
  <1> HIDE DEF after
  <1>5. Buffer!Space(buf)
          = IF after.hasB THEN Buffer!BFreeSpace(after) ELSE Buffer!AFreeSpace(after)
    BY DEF Buffer!Space, after
  <1>6. Buffer!BFreeSpace(after) \in Int /\ Buffer!AFreeSpace(after) \in Int
    BY <1>1, <1>3, <1>4 DEF Buffer!BFreeSpace, Buffer!AFreeSpace
  <1> QED BY <1>5, <1>6

\* A packet is a header and the rest.
LEMMA PacketBytes ==
    ASSUME NEW p \in Packets
    PROVE  /\ Size[p] \in Nat
           /\ BytesOf[p] \in Seq(Byte) /\ Len(BytesOf[p]) = Size[p] + 1
           /\ \A i \in 1..(Size[p] + 1) : BytesOf[p][i] = <<p, i>>
           /\ SubSeq(BytesOf[p], 1, 1) \in Seq(Byte)
           /\ SubSeq(BytesOf[p], 2, Size[p] + 1) \in Seq(Byte)
           /\ Len(SubSeq(BytesOf[p], 1, 1)) = 1
           /\ Len(SubSeq(BytesOf[p], 2, Size[p] + 1)) = Size[p]
           /\ SubSeq(BytesOf[p], 1, 1) \o SubSeq(BytesOf[p], 2, Size[p] + 1)
                = BytesOf[p]
  <1>1. Size[p] \in Nat
    <2>1. p \in 1..Len(Size)
      BY LenProperties DEF Packets
    <2> QED BY <2>1, ElementOfSeq
  <1> DEFINE n == Size[p] + 1
  <1>2. BytesOf[p] = [i \in 1..n |-> <<p, i>>]
    BY DEF BytesOf
  <1>3. \A i \in 1..n : <<p, i>> \in Byte
    BY <1>1 DEF Byte
  <1>4. n \in Nat /\ n >= 1
    BY <1>1
  <1> HIDE DEF n
  <1>5. BytesOf[p] \in [1..n -> Byte]
    BY <1>2, <1>3
  <1>6. BytesOf[p] \in Seq(Byte) /\ Len(BytesOf[p]) = n
    <2>1. BytesOf[p] \in Seq(Byte)
      BY <1>4, <1>5, SeqDef
    <2>2. DOMAIN BytesOf[p] = 1..n /\ DOMAIN BytesOf[p] = 1..Len(BytesOf[p])
          /\ Len(BytesOf[p]) \in Nat
      BY <1>5, <2>1, LenProperties
    <2> QED BY <1>4, <2>1, <2>2
  <1>7. \A i \in 1..n : BytesOf[p][i] = <<p, i>> /\ BytesOf[p][i] \in Byte
    BY <1>2, <1>3
  <1>8. SubSeq(BytesOf[p], 1, 1) \in Seq(Byte) /\ Len(SubSeq(BytesOf[p], 1, 1)) = 1
    <2>1. \A i \in 1..1 : BytesOf[p][i] \in Byte
      BY <1>4, <1>7
    <2> QED BY <2>1, SubSeqProperties
  <1>9. SubSeq(BytesOf[p], 2, n) \in Seq(Byte) /\ Len(SubSeq(BytesOf[p], 2, n)) = n - 1
    <2>1. \A i \in 2..n : BytesOf[p][i] \in Byte
      BY <1>4, <1>7
    <2>2. n - 2 + 1 = n - 1 /\ (2 <= n \/ n = 1)
      BY <1>4
    <2> QED BY <1>4, <2>1, <2>2, SubSeqProperties
  <1>10. SubSeq(BytesOf[p], 1, 1) \o SubSeq(BytesOf[p], 2, n) = BytesOf[p]
    <2>1. 1 \in 0..Len(BytesOf[p])
      BY <1>4, <1>6
    <2>2. SubSeq(BytesOf[p], 1, 1) \o SubSeq(BytesOf[p], 1 + 1, Len(BytesOf[p]))
            = BytesOf[p]
      BY <1>6, <2>1, CutInTwo
    <2> QED BY <1>6, <2>2
  <1>11. n = Size[p] + 1 /\ n - 1 = Size[p]
    BY <1>1 DEF n
  <1> QED BY <1>1, <1>6, <1>7, <1>8, <1>9, <1>10, <1>11

-----------------------------------------------------------------------------
(* The buffer is served.                                                   *)

LEMMA InitBuffer == Init => BufferIInv
  <1> SUFFICES ASSUME Init PROVE BufferIInv
    OBVIOUS
  <1>1. /\ <<>> \in Seq(Byte) /\ <<>> \in Seq(Packets) /\ Len(<<>>) = 0
        /\ Capacity \in Nat
    BY EmptySeq
  <1>2. Buffer!Empty.start = 0 /\ Buffer!Empty.a = <<>> /\ Buffer!Empty.b = <<>>
        /\ Buffer!Empty \in [start : Nat, a : Seq(Byte), b : Seq(Byte), hasB : BOOLEAN]
    BY <1>1 DEF Buffer!Empty
  <1>3. Buffer!Valid(writeBuffer)
    BY <1>1, <1>2 DEF Init, Buffer!Valid, Buffer!Buffers, Byte
  <1>4. Buffer!Contents(writeBuffer) = <<>>
    BY <1>1, <1>2, ConcatEmptySeq DEF Init, Buffer!Contents
  <1>5. TypeOK /\ Streams
    <2>1. Len(kernel) <= KernelSpace /\ queue \in Seq(Packets)
      BY <1>1 DEF Init
    <2>2. kernel \in Seq(Byte) /\ received \in Seq(Byte)
      BY <1>1 DEF Init
    <2>3. /\ handed = {} /\ pc = [t \in Senders |-> "idle"]
          /\ packet = [t \in Senders |-> Null]
          /\ queueLock = Null /\ m_writeMutex = Null /\ m_writeLock = 0
          /\ armed = "in" /\ ready = FALSE /\ nospace = FALSE /\ worker = "wait"
      BY DEF Init
    <2>4. TypeOK
      <3>1. handed \in SUBSET Packets /\ packet \in [Senders -> Packets \cup {Null}]
        BY <2>3
      <3>2. pc \in [Senders -> {"idle", "out", "push", "full"}]
        BY <2>3
      <3>3. ready \in BOOLEAN /\ nospace \in BOOLEAN
        BY <2>3
      <3> QED BY <1>3, <2>1, <2>3, <3>1, <3>2, <3>3 DEF TypeOK
    <2> QED BY <2>2, <2>4 DEF Streams
  <1>6. Holders
    BY DEF Init, Holders
  <1>7. Registration
    BY <1>4 DEF Init, Registration
  <1> QED BY <1>5, <1>6, <1>7 DEF BufferIInv

LEMMA OutPacketBuffer ==
    ASSUME BufferIInv, NEW s \in Senders, NEW p \in Packets, OutPacket(s, p)
    PROVE  BufferIInv'
  <1>1. TypeOK' /\ Streams'
    BY DEF BufferIInv, TypeOK, Streams, OutPacket, epollVars
  <1>2. Holders'
    BY DEF BufferIInv, TypeOK, Holders, OutPacket
  <1>3. Registration'
    BY DEF BufferIInv, Registration, OutPacket, epollVars
  <1> QED BY <1>1, <1>2, <1>3 DEF BufferIInv

LEMMA UpdateQueuedPacketsBuffer ==
    ASSUME BufferIInv, NEW s \in Senders, UpdateQueuedPackets(s)
    PROVE  BufferIInv'
  <1>1. Head(queue) \in Packets /\ Head(queue) = queue[1]
    BY HeadTailProperties DEF BufferIInv, TypeOK, UpdateQueuedPackets
  <1>2. TypeOK' /\ Streams'
    BY <1>1 DEF BufferIInv, TypeOK, Streams, UpdateQueuedPackets, epollVars
  <1>3. Holders'
    BY <1>1 DEF BufferIInv, TypeOK, Holders, UpdateQueuedPackets
  <1>4. Registration'
    BY DEF BufferIInv, Registration, UpdateQueuedPackets, epollVars
  <1> QED BY <1>2, <1>3, <1>4 DEF BufferIInv

\* A packet is written where there is room for the whole of it.
LEMMA PacketWritten ==
    ASSUME BufferIInv, NEW s \in Senders, BurstSend(s)
    PROVE  /\ packet[s] \in Packets
           /\ Buffer!Valid(writeBuffer')
           /\ Buffer!Contents(writeBuffer')
                = Buffer!Contents(writeBuffer) \o BytesOf[packet[s]]
  <1> DEFINE p == packet[s]
             header == SubSeq(BytesOf[p], 1, 1)
             rest == SubSeq(BytesOf[p], 2, Size[p] + 1)
             b0 == writeBuffer
             b1 == Buffer!Prepared(b0)
             b2 == Buffer!Written(b1, header)
             b3 == Buffer!Written(b2, rest)
  <1>1. p \in Packets /\ Buffer!Valid(b0)
    BY DEF BufferIInv, TypeOK, Holders, BurstSend
  <1>2. writeBuffer' = b3 /\ Buffer!Space(b0) >= Size[p] + 1
    BY DEF BurstSend, HasRoom
  <1>3. /\ Size[p] \in Nat /\ header \in Seq(Byte) /\ rest \in Seq(Byte)
        /\ Len(header) = 1 /\ Len(rest) = Size[p] /\ header \o rest = BytesOf[p]
    BY <1>1, PacketBytes
  <1>4. /\ Buffer!Space(b0) \in Int
        /\ Buffer!Contents(b0) \in Seq(Byte)
    BY <1>1, SpaceType, ContentsType
  <1> HIDE DEF p, header, rest, b0
  <1>5. /\ Buffer!Valid(b1) /\ Buffer!Contents(b1) = Buffer!Contents(b0)
        /\ Buffer!Space(b1) = Buffer!Space(b0)
    BY <1>1, PreparedKeeps
  <1> HIDE DEF b1
  <1>6. /\ Buffer!Valid(b2) /\ Buffer!Contents(b2) = Buffer!Contents(b1) \o header
        /\ Buffer!Space(b2) >= Buffer!Space(b1) - 1
    <2>1. Len(header) <= Buffer!Space(b1)
      BY <1>2, <1>3, <1>4, <1>5
    <2> QED BY <1>3, <1>5, <2>1, WrittenFits
  <1> HIDE DEF b2
  <1>7. Buffer!Valid(b3) /\ Buffer!Contents(b3) = Buffer!Contents(b2) \o rest
    <2>1. Buffer!Space(b2) \in Int
      BY <1>6, SpaceType
    <2>2. Len(rest) <= Buffer!Space(b2)
      BY <1>2, <1>3, <1>4, <1>5, <1>6, <2>1
    <2> QED BY <1>3, <1>6, <2>2, WrittenFits
  <1> HIDE DEF b3
  <1>8. (Buffer!Contents(b0) \o header) \o rest
          = Buffer!Contents(b0) \o (header \o rest)
    BY <1>3, <1>4, Associative
  <1>9. Buffer!Contents(b3) = Buffer!Contents(b0) \o BytesOf[p]
    BY <1>3, <1>5, <1>6, <1>7, <1>8
  <1> QED BY <1>1, <1>2, <1>7, <1>9 DEF p, b0

LEMMA BurstSendBuffer ==
    ASSUME BufferIInv, NEW s \in Senders, BurstSend(s) PROVE BufferIInv'
  <1>1. TypeOK' /\ Streams'
    BY PacketWritten DEF BufferIInv, TypeOK, Streams, BurstSend, epollVars
  <1>2. Holders'
    BY DEF BufferIInv, TypeOK, Holders, BurstSend
  <1>3. Registration'
    BY DEF BufferIInv, Registration, BurstSend, epollVars
  <1> QED BY <1>1, <1>2, <1>3 DEF BufferIInv

LEMMA NoRoomBuffer ==
    ASSUME BufferIInv, NEW s \in Senders, NoRoom(s) PROVE BufferIInv'
  <1>1. /\ Buffer!Valid(writeBuffer')
        /\ Buffer!Contents(writeBuffer') = Buffer!Contents(writeBuffer)
    BY PreparedKeeps DEF BufferIInv, TypeOK, NoRoom
  <1>2. TypeOK' /\ Streams'
    BY <1>1 DEF BufferIInv, TypeOK, Streams, NoRoom, epollVars
  <1>3. Holders'
    BY DEF BufferIInv, TypeOK, Holders, NoRoom
  <1>4. Registration'
    BY <1>1 DEF BufferIInv, Registration, NoRoom, epollVars
  <1> QED BY <1>2, <1>3, <1>4 DEF BufferIInv

LEMMA EnqueueBuffer ==
    ASSUME BufferIInv, NEW s \in Senders, Enqueue(s) PROVE BufferIInv'
  <1>1. queue' \in Seq(Packets)
    BY AppendProperties DEF BufferIInv, TypeOK, Holders, Enqueue
  <1>2. TypeOK' /\ Streams'
    BY <1>1 DEF BufferIInv, TypeOK, Streams, Enqueue, epollVars
  <1>3. Holders'
    BY DEF BufferIInv, TypeOK, Holders, Enqueue
  <1>4. Registration'
    BY DEF BufferIInv, Registration, Enqueue, epollVars
  <1> QED BY <1>2, <1>3, <1>4 DEF BufferIInv

LEMMA BurstPushBuffer ==
    ASSUME BufferIInv, NEW s \in Senders, BurstPush(s) PROVE BufferIInv'
  <1> DEFINE rest == IF queueLock = s THEN Tail(queue) ELSE queue
             more == queueLock = s /\ rest # <<>>
  <1>1. /\ rest \in Seq(Packets) /\ queue' = rest
        /\ more => Head(rest) \in Packets /\ Head(rest) = rest[1]
    <2>1. rest \in Seq(Packets)
      BY HeadTailProperties DEF BufferIInv, TypeOK, Holders
    <2>2. queue' = rest
      BY DEF BurstPush
    <2> HIDE DEF rest
    <2> QED BY <2>1, <2>2, HeadTailProperties
  <1>2. /\ pc[s] = "push"
        /\ pc' = [pc EXCEPT ![s] = IF more THEN "out" ELSE "idle"]
        /\ packet' = [packet EXCEPT ![s] = IF more THEN Head(rest) ELSE Null]
        /\ queueLock' = IF queueLock = s /\ ~more THEN Null ELSE queueLock
        /\ m_writeMutex' = Null /\ m_writeLock' = 1
        /\ UNCHANGED <<handed, writeBuffer, kernel, received, worker>>
    BY DEF BurstPush
  <1>3. /\ armed' = "out" /\ ready' \in BOOLEAN /\ nospace' \in BOOLEAN
    <2>1. CASE m_writeLock = 0
      BY <2>1 DEF BufferIInv, TypeOK, BurstPush, SendLock, PostEvent
    <2>2. CASE m_writeLock = 1
      BY <2>2 DEF BufferIInv, TypeOK, Registration, BurstPush, SendLock, epollVars
    <2> QED BY <2>1, <2>2 DEF BufferIInv, TypeOK
  <1>4. ~more /\ queueLock # s => queueLock' = queueLock /\ queue' = queue
    BY <1>1, <1>2
  <1>5. more => queue' # <<>> /\ queueLock' = s
    BY <1>1, <1>2
  <1> HIDE DEF rest
  <1>6. TypeOK' /\ Streams'
    BY <1>1, <1>2, <1>3 DEF BufferIInv, TypeOK, Streams
  <1>7. Holders'
    <2>1. m_writeMutex = s /\ Null \notin Senders
      BY <1>2 DEF BufferIInv, Holders
    <2>2. ASSUME NEW t \in Senders
          PROVE  (m_writeMutex' = t <=> pc'[t] = "push")
                 /\ (pc'[t] # "idle" => packet'[t] \in Packets)
      BY <1>1, <1>2, <2>1 DEF BufferIInv, TypeOK, Holders
    <2>3. ASSUME NEW t \in Senders, queueLock' = t
          PROVE  pc'[t] \in {"out", "push"} /\ queue' # <<>> /\ packet'[t] = queue'[1]
      <3>1. CASE more
        BY <1>1, <1>2, <1>5, <2>3, <3>1 DEF BufferIInv, TypeOK
      <3>2. CASE ~more
        <4>1. queueLock # s /\ t # s
          BY <1>2, <2>1, <2>3, <3>2 DEF BufferIInv, TypeOK
        <4> QED BY <1>2, <1>4, <2>3, <3>2, <4>1 DEF BufferIInv, TypeOK, Holders
      <3> QED BY <3>1, <3>2
    <2> QED BY <2>2, <2>3 DEF Holders
  <1>8. Registration'
    BY <1>2, <1>3 DEF Registration
  <1> QED BY <1>6, <1>7, <1>8 DEF BufferIInv

\* The worker takes bytes from the front of the buffer to the kernel's.
LEMMA BytesMoved ==
    ASSUME BufferIInv, WriteCallback
    PROVE  /\ Buffer!Valid(writeBuffer') /\ kernel' \in Seq(Byte)
           /\ Len(kernel') <= KernelSpace
           /\ Buffer!Contents(writeBuffer') \in Seq(Byte)
           /\ InBuffers' = InBuffers
  <1> DEFINE bytes == Buffer!Contiguous(writeBuffer)
             n == IF Len(bytes) < KernelSpace - Len(kernel) THEN Len(bytes)
                  ELSE KernelSpace - Len(kernel)
             sent == SubSeq(bytes, 1, n)
             left == Buffer!Removed(writeBuffer, n)
  <1>1. Buffer!Valid(writeBuffer) /\ kernel \in Seq(Byte) /\ Len(kernel) \in Nat
    BY LenProperties DEF BufferIInv, TypeOK, Streams
  <1>2. bytes \in Seq(Byte) /\ Len(bytes) \in Nat
    <2>1. 0 <= Len(bytes) /\ bytes \in Seq(Byte)
      <3>1. bytes \in Seq(Byte)
        BY <1>1, BufferTypes DEF Buffer!Contiguous
      <3> QED BY <3>1, LenProperties
    <2> QED BY <2>1, LenProperties
  <1>3. n \in Nat /\ n <= Len(bytes) /\ Len(kernel) + n <= KernelSpace
    BY <1>1, <1>2 DEF BufferIInv, TypeOK
  <1>4. kernel' = kernel \o sent /\ writeBuffer' = left
    BY DEF WriteCallback
  <1> HIDE DEF n
  <1>5. /\ Buffer!Valid(left) /\ Buffer!Contents(left) \in Seq(Byte)
        /\ sent \o Buffer!Contents(left) = Buffer!Contents(writeBuffer)
        /\ sent \in Seq(Byte) /\ Len(sent) = n
    BY <1>1, <1>3, RemovedKeeps
  <1> HIDE DEF bytes, sent, left
  <1>6. kernel \o sent \in Seq(Byte) /\ Len(kernel \o sent) = Len(kernel) + n
    BY <1>1, <1>5, ConcatProperties
  <1>7. (kernel \o sent) \o Buffer!Contents(left)
          = kernel \o (sent \o Buffer!Contents(left))
    BY <1>1, <1>5, Associative
  <1> QED BY <1>3, <1>4, <1>5, <1>6, <1>7 DEF InBuffers

LEMMA WriteCallbackBuffer == ASSUME BufferIInv, WriteCallback PROVE BufferIInv'
  <1>1. /\ m_writeLock = 1 /\ m_writeMutex = Null
        /\ worker = "wait" /\ armed = "out"
    BY DEF BufferIInv, Registration, WriteCallback
  <1>2. \/ /\ Buffer!Contents(writeBuffer') = <<>>
           /\ m_writeLock' = 0 /\ armed' = "in"
        \/ m_writeLock' = 1 /\ armed' = "out"
    <2>1. CASE Buffer!Contents(writeBuffer') = <<>>
      BY <1>1, <2>1 DEF WriteCallback, AllWritten
    <2>2. CASE Buffer!Contents(writeBuffer') # <<>>
      BY <1>1, <2>2 DEF WriteCallback, AllWritten
    <2> QED BY <2>1, <2>2
  <1>3. ready' = FALSE /\ UNCHANGED <<senderVars, received, worker>>
    BY DEF WriteCallback
  <1>4. TypeOK' /\ Streams'
    <2>1. nospace' \in BOOLEAN
      <3>1. CASE AllWritten(writeBuffer')
        BY <3>1 DEF WriteCallback
      <3>2. CASE ~AllWritten(writeBuffer')
        BY <3>2 DEF WriteCallback
      <3> QED BY <3>1, <3>2
    <2>2. m_writeLock' \in 0..1 /\ armed' \in {"in", "out"} /\ ready' \in BOOLEAN
      <3>1. ready' \in BOOLEAN
        BY <1>3
      <3> QED BY <1>2, <3>1
    <2>3. /\ UNCHANGED <<handed, pc, packet, queueLock, queue, m_writeMutex>>
          /\ UNCHANGED <<received, worker>>
      BY <1>3 DEF senderVars
    <2>4. Streams'
      BY <2>3, BytesMoved DEF BufferIInv, Streams
    <2>5. Buffer!Valid(writeBuffer') /\ Len(kernel') <= KernelSpace
      BY BytesMoved
    <2> QED BY <2>1, <2>2, <2>3, <2>4, <2>5 DEF BufferIInv, TypeOK
  <1>5. Holders'
    BY <1>3 DEF BufferIInv, Holders, senderVars
  <1>6. Registration'
    BY <1>1, <1>2, <1>3 DEF Registration, senderVars
  <1> QED BY <1>4, <1>5, <1>6 DEF BufferIInv

LEMMA ReadCallbackBuffer == ASSUME BufferIInv, ReadCallback PROVE BufferIInv'
  <1>1. TypeOK' /\ Streams' /\ Holders'
    BY DEF BufferIInv, TypeOK, Streams, Holders, ReadCallback, senderVars, epollVars
  <1>2. Registration'
    BY DEF BufferIInv, Registration, ReadCallback, senderVars, epollVars
  <1> QED BY <1>1, <1>2 DEF BufferIInv

LEMMA PostWriteBuffer == ASSUME BufferIInv, PostWrite PROVE BufferIInv'
  <1>1. armed' = "out" /\ ready' \in BOOLEAN /\ nospace' \in BOOLEAN
    BY DEF BufferIInv, TypeOK, PostWrite, PostEvent
  <1>2. TypeOK' /\ Streams' /\ Holders'
    BY <1>1 DEF BufferIInv, TypeOK, Streams, Holders, PostWrite, senderVars
  <1>3. Registration'
    BY <1>1 DEF BufferIInv, Registration, PostWrite, senderVars
  <1> QED BY <1>2, <1>3 DEF BufferIInv

\* The client takes a byte from the front of the kernel's buffer.
LEMMA ByteReceived ==
    ASSUME BufferIInv, Receive
    PROVE  /\ kernel' \in Seq(Byte) /\ received' \in Seq(Byte)
           /\ Len(kernel') <= KernelSpace
           /\ InBuffers # <<>> /\ InBuffers' = Tail(InBuffers)
           /\ received' = Append(received, Head(InBuffers))
           /\ AllBytes' = AllBytes
  <1> DEFINE x == Buffer!Contents(writeBuffer)
             h == Head(kernel)
             t == Tail(kernel)
  <1>1. /\ kernel \in Seq(Byte) /\ received \in Seq(Byte) /\ kernel # <<>>
        /\ Buffer!Valid(writeBuffer) /\ x \in Seq(Byte)
        /\ kernel' = t /\ received' = Append(received, h)
        /\ writeBuffer' = writeBuffer
    BY ContentsType DEF BufferIInv, TypeOK, Streams, Receive
  <1>2. /\ h \in Byte /\ t \in Seq(Byte) /\ Len(t) = Len(kernel) - 1
        /\ Len(kernel) \in Nat
    BY <1>1, HeadTailProperties, LenProperties
  <1>3. <<h>> \in Seq(Byte) /\ <<h>> \o t = kernel
    <2>1. <<h>> \in Seq(Byte) /\ Len(<<h>>) = 1 /\ <<h>>[1] = h
      BY <1>2
    <2> DEFINE c == <<h>> \o t
    <2>2. /\ c \in Seq(Byte) /\ Len(c) = Len(kernel)
          /\ \A i \in 1..Len(kernel) : c[i] = IF i <= 1 THEN h ELSE t[i - 1]
      BY <1>2, <2>1, ConcatProperties
    <2>3. h = kernel[1] /\ \A i \in 1..Len(t) : t[i] = kernel[i + 1]
      BY <1>1, HeadTailProperties
    <2>4. \A i \in 1..Len(kernel) : c[i] = kernel[i]
      <3> SUFFICES ASSUME NEW i \in 1..Len(kernel) PROVE c[i] = kernel[i]
        OBVIOUS
      <3>1. CASE i = 1
        BY <2>2, <2>3, <3>1
      <3>2. CASE i # 1
        <4>1. i - 1 \in 1..Len(t) /\ ~(i <= 1) /\ (i - 1) + 1 = i
          BY <1>2, <3>2
        <4> QED BY <2>2, <2>3, <4>1
      <3> QED BY <3>1, <3>2
    <2> HIDE DEF c
    <2>5. c = kernel
      BY <1>1, <2>2, <2>4, SeqEqual
    <2> QED BY <2>1, <2>5 DEF c
  <1> HIDE DEF x, h, t
  <1>4. kernel \o x = <<h>> \o (t \o x) /\ t \o x \in Seq(Byte)
    BY <1>1, <1>2, <1>3, Associative, ConcatProperties
  <1>5. kernel \o x # <<>> /\ Head(kernel \o x) = h /\ Tail(kernel \o x) = t \o x
    BY <1>2, <1>4, ConsHeadTail
  <1>6. InBuffers = kernel \o x /\ InBuffers' = t \o x
    BY <1>1 DEF InBuffers, x
  <1>7. received' \in Seq(Byte) /\ Append(received, h) = received \o <<h>>
    BY <1>1, <1>2, AppendProperties, AppendIsConcat
  <1>8. (received \o <<h>>) \o (t \o x) = received \o (<<h>> \o (t \o x))
    <2> DEFINE u == <<h>>
               v == t \o x
    <2>1. u \in Seq(Byte) /\ v \in Seq(Byte)
      BY <1>3, <1>4
    <2> HIDE DEF u, v
    <2>2. (received \o u) \o v = received \o (u \o v)
      BY SMTT(30), <1>1, <2>1, Associative
    <2> QED BY <2>2 DEF u, v
  <1>9. AllBytes' = AllBytes
    BY <1>1, <1>4, <1>6, <1>7, <1>8 DEF AllBytes
  <1>10. Len(kernel') <= KernelSpace
    BY <1>1, <1>2 DEF BufferIInv, TypeOK
  <1> QED BY <1>1, <1>2, <1>5, <1>6, <1>7, <1>9, <1>10

LEMMA ReceiveBuffer == ASSUME BufferIInv, Receive PROVE BufferIInv'
  <1>1. /\ ready' \in BOOLEAN /\ nospace' \in BOOLEAN
        /\ UNCHANGED <<senderVars, m_writeLock, writeBuffer, armed, worker>>
    BY DEF BufferIInv, TypeOK, Receive
  <1>2. TypeOK' /\ Streams'
    BY <1>1, ByteReceived DEF BufferIInv, TypeOK, Streams, senderVars
  <1>3. Holders' /\ Registration'
    BY <1>1 DEF BufferIInv, Holders, Registration, senderVars
  <1> QED BY <1>2, <1>3 DEF BufferIInv

LEMMA NextBuffer == BufferIInv /\ [Next]_vars => BufferIInv'
  <1> SUFFICES ASSUME BufferIInv, [Next]_vars PROVE BufferIInv'
    OBVIOUS
  <1>1. ASSUME NEW s \in Senders, NEW p \in Packets, OutPacket(s, p) PROVE BufferIInv'
    BY <1>1, OutPacketBuffer
  <1>2. ASSUME NEW s \in Senders, UpdateQueuedPackets(s) PROVE BufferIInv'
    BY <1>2, UpdateQueuedPacketsBuffer
  <1>3. ASSUME NEW s \in Senders, Send(s) PROVE BufferIInv'
    BY <1>3, BurstSendBuffer, NoRoomBuffer, BurstPushBuffer, EnqueueBuffer DEF Send
  <1>4. CASE UNCHANGED vars
    BY <1>4 DEF vars, senderVars, epollVars, BufferIInv, TypeOK, Streams, Holders,
                Registration
  <1> QED BY <1>1, <1>2, <1>3, <1>4, WriteCallbackBuffer, ReadCallbackBuffer,
             PostWriteBuffer, ReceiveBuffer DEF Next

\* Bytes in the buffer that nobody is at work on have a registration for
\* EPOLLOUT, and a packet is written only where the whole of it has room
\* (WorldSocket::_OutPacket, CircularBuffer::GetSpace, SocketWorkerThread::run).
THEOREM BufferSafety == Spec => []BufferServed
  <1>1. BufferIInv => BufferServed
    <2> SUFFICES ASSUME BufferIInv PROVE PendingIsRegistered
      BY DEF BufferServed, BufferIInv
    <2> QED BY DEF BufferIInv, Registration, PendingIsRegistered
  <1> QED BY <1>1, InitBuffer, NextBuffer, PTL DEF Spec

-----------------------------------------------------------------------------
(* Each packet is sent once.                                               *)

LEMMA BegunAfter ==
    ASSUME NEW x \in Seq(Byte), NEW p \in Packets
    PROVE  Begun(x \o BytesOf[p]) = Begun(x) \cup {p}
  <1> DEFINE b == BytesOf[p]
             c == x \o b
  <1>1. /\ Size[p] \in Nat /\ b \in Seq(Byte) /\ Len(b) = Size[p] + 1
        /\ \A i \in 1..(Size[p] + 1) : b[i] = <<p, i>>
    BY PacketBytes
  <1> HIDE DEF b
  <1> DEFINE m == Len(x)
             n == Size[p] + 1
  <1>2. /\ m \in Nat /\ n \in Nat /\ n >= 1 /\ Len(c) = m + n
        /\ \A i \in 1..(m + n) : c[i] = IF i <= m THEN x[i] ELSE b[i - m]
    <2>1. /\ Len(c) = Len(x) + Len(b)
          /\ \A i \in 1..(Len(x) + Len(b)) :
                c[i] = IF i <= Len(x) THEN x[i] ELSE b[i - Len(x)]
      BY <1>1, ConcatProperties
    <2>2. Len(b) = n /\ n \in Nat /\ n >= 1 /\ m \in Nat
      BY <1>1, LenProperties
    <2> QED BY <2>1, <2>2
  <1>3. \A i \in 1..n : b[i] = <<p, i>>
    BY <1>1
  <1> HIDE DEF c, m, n
  <1>4. ASSUME NEW q \in Begun(c) PROVE q \in Begun(x) \cup {p}
    <2>1. PICK i \in 1..Len(c) : c[i] = <<q, 1>>
      BY DEF Begun
    <2>2. CASE i <= m
      <3>1. i \in 1..m /\ i \in 1..(m + n)
        BY <1>2, <2>1, <2>2
      <3>2. c[i] = x[i]
        BY <1>2, <2>2, <3>1
      <3>3. x[i] = <<q, 1>>
        BY <2>1, <3>2
      <3> QED BY <3>1, <3>3 DEF Begun, m
    <2>3. CASE ~(i <= m)
      <3> DEFINE j == i - m
      <3>1. j \in 1..n /\ i \in 1..(m + n)
        BY <1>2, <2>1, <2>3
      <3>2. c[i] = b[j]
        BY <1>2, <2>3, <3>1
      <3> HIDE DEF j
      <3>3. b[j] = <<p, j>>
        BY <1>3, <3>1
      <3>4. <<p, j>> = <<q, 1>>
        BY <2>1, <3>2, <3>3
      <3> QED BY <3>4
    <2> QED BY <2>2, <2>3
  <1>5. ASSUME NEW q \in Begun(x) PROVE q \in Begun(c)
    <2>1. PICK i \in 1..m : x[i] = <<q, 1>>
      BY DEF Begun, m
    <2>2. i \in 1..(m + n) /\ i <= m
      BY <1>2, <2>1
    <2>3. c[i] = x[i]
      BY <1>2, <2>2
    <2>4. i \in 1..Len(c) /\ c[i] = <<q, 1>>
      BY <1>2, <2>1, <2>2, <2>3
    <2> QED BY <2>4 DEF Begun
  <1>6. p \in Begun(c)
    <2>1. m + 1 \in 1..(m + n) /\ ~(m + 1 <= m) /\ (m + 1) - m = 1 /\ 1 \in 1..n
      BY <1>2
    <2>2. m + 1 \in 1..Len(c) /\ c[m + 1] = b[1] /\ b[1] = <<p, 1>>
      BY <1>2, <1>3, <2>1
    <2> QED BY <2>2 DEF Begun
  <1> QED BY <1>4, <1>5, <1>6 DEF c, b

LEMMA BytesType ==
    ASSUME BufferIInv
    PROVE  /\ Buffer!Contents(writeBuffer) \in Seq(Byte)
           /\ InBuffers \in Seq(Byte) /\ AllBytes \in Seq(Byte)
  <1>1. Buffer!Contents(writeBuffer) \in Seq(Byte)
    BY ContentsType DEF BufferIInv, TypeOK
  <1>2. InBuffers \in Seq(Byte)
    BY <1>1, ConcatProperties DEF BufferIInv, Streams, InBuffers
  <1>3. AllBytes \in Seq(Byte)
    BY <1>2, ConcatProperties DEF BufferIInv, Streams, AllBytes
  <1> QED BY <1>1, <1>2, <1>3

LEMMA BurstSendBytes ==
    ASSUME BufferIInv, NEW s \in Senders, BurstSend(s)
    PROVE  /\ received' = received
           /\ InBuffers' = InBuffers \o BytesOf[packet[s]]
           /\ Begun(AllBytes') = Begun(AllBytes) \cup {packet[s]}
  <1> DEFINE p == packet[s]
             b == BytesOf[p]
             x == Buffer!Contents(writeBuffer)
  <1>1. /\ p \in Packets /\ Buffer!Contents(writeBuffer') = x \o b
        /\ received' = received /\ kernel' = kernel
    BY PacketWritten DEF BurstSend
  <1>2. /\ x \in Seq(Byte) /\ InBuffers \in Seq(Byte) /\ AllBytes \in Seq(Byte)
        /\ kernel \in Seq(Byte) /\ received \in Seq(Byte)
    BY BytesType DEF BufferIInv, Streams
  <1>3. b \in Seq(Byte)
    BY <1>1, PacketBytes
  <1> HIDE DEF b, x
  <1>4. InBuffers' = InBuffers \o b
    <2>1. (kernel \o x) \o b = kernel \o (x \o b)
      <3>1. kernel \in Seq(Byte) /\ x \in Seq(Byte)
        BY <1>2
      <3> QED BY <3>1, <1>3, Associative
    <2> QED BY <1>1, <2>1 DEF InBuffers, x
  <1>5. AllBytes' = AllBytes \o b
    <2>1. (received \o InBuffers) \o b = received \o (InBuffers \o b)
      <3>1. received \in Seq(Byte) /\ InBuffers \in Seq(Byte)
        BY <1>2
      <3> QED BY <3>1, <1>3, Associative
    <2> QED BY <1>1, <1>4, <2>1 DEF AllBytes
  <1> QED BY <1>1, <1>2, <1>4, <1>5, BegunAfter DEF b

\* No other step of a sender moves a byte, and the worker's only move them on.
LEMMA OtherBytes ==
    ASSUME BufferIInv,
           \/ \E s \in Senders : \/ \E p \in Packets : OutPacket(s, p)
                                 \/ UpdateQueuedPackets(s) \/ NoRoom(s)
                                 \/ BurstPush(s) \/ Enqueue(s)
           \/ WriteCallback \/ ReadCallback \/ PostWrite
    PROVE  received' = received /\ InBuffers' = InBuffers /\ AllBytes' = AllBytes
  <1>1. received' = received
    BY DEF OutPacket, UpdateQueuedPackets, NoRoom, BurstPush, Enqueue,
           WriteCallback, ReadCallback, PostWrite
  <1>2. InBuffers' = InBuffers
    <2>1. CASE \E s \in Senders : NoRoom(s)
      <3>1. /\ Buffer!Contents(writeBuffer') = Buffer!Contents(writeBuffer)
            /\ kernel' = kernel
        BY <2>1, PreparedKeeps DEF BufferIInv, TypeOK, NoRoom
      <3> QED BY <3>1 DEF InBuffers
    <2>2. CASE WriteCallback
      BY <2>2, BytesMoved
    <2>3. CASE ~WriteCallback /\ ~\E s \in Senders : NoRoom(s)
      <3>1. writeBuffer' = writeBuffer /\ kernel' = kernel
        BY <2>3 DEF OutPacket, UpdateQueuedPackets, BurstPush, Enqueue,
                    ReadCallback, PostWrite
      <3> QED BY <3>1 DEF InBuffers
    <2> QED BY <2>1, <2>2, <2>3
  <1> QED BY <1>1, <1>2 DEF AllBytes

LEMMA InitOnce == Init => OnceEach
  <1> SUFFICES ASSUME Init PROVE OnceEach
    OBVIOUS
  <1>1. <<>> \in Seq(Byte) /\ Len(<<>>) = 0 /\ 1..Len(<<>>) = {}
    BY EmptySeq
  <1>2. Buffer!Contents(writeBuffer) = <<>>
    <2>1. Buffer!Empty.a = <<>> /\ Buffer!Empty.b = <<>>
      BY DEF Buffer!Empty
    <2> QED BY <1>1, <2>1, ConcatEmptySeq DEF Init, Buffer!Contents
  <1>3. InBuffers = <<>>
    BY <1>1, <1>2, ConcatEmptySeq DEF Init, InBuffers
  <1>4. AllBytes = <<>>
    BY <1>1, <1>3, ConcatEmptySeq DEF Init, AllBytes
  <1>5. Begun(AllBytes) = {} /\ Elements(queue) = {} /\ 1..Len(queue) = {}
    BY <1>1, <1>4 DEF Init, Begun, Elements
  <1>6. \A s \in Senders : pc[s] = "idle"
    BY DEF Init
  <1> QED BY <1>5, <1>6 DEF OnceEach

LEMMA OutPacketOnce ==
    ASSUME BufferIInv, OnceEach, NEW s \in Senders, NEW p \in Packets, OutPacket(s, p)
    PROVE  OnceEach'
  <1>1. /\ AllBytes' = AllBytes /\ queue' = queue /\ queueLock' = queueLock
        /\ pc[s] = "idle" /\ queueLock # s /\ p \notin handed /\ Owner[p] = s
        /\ handed' = handed \cup {p} /\ pc' = [pc EXCEPT ![s] = "out"]
        /\ packet' = [packet EXCEPT ![s] = p]
    BY OtherBytes DEF OutPacket
  <1>2. Begun(AllBytes)' = Begun(AllBytes) /\ Elements(queue)' = Elements(queue)
    BY <1>1 DEF Elements, Begun
  <1>3. /\ pc \in [Senders -> {"idle", "out", "push", "full"}]
        /\ packet \in [Senders -> Packets \cup {Null}]
    BY DEF BufferIInv, TypeOK
  <1>4. HeadSent' = HeadSent
    BY <1>1, <1>3 DEF HeadSent
  <1> QED BY <1>1, <1>2, <1>3, <1>4 DEF OnceEach

LEMMA UpdateQueuedPacketsOnce ==
    ASSUME BufferIInv, OnceEach, NEW s \in Senders, UpdateQueuedPackets(s)
    PROVE  OnceEach'
  <1>1. /\ AllBytes' = AllBytes /\ queue' = queue /\ queueLock' = s
        /\ pc[s] = "idle" /\ queueLock = Null /\ Null \notin Senders
        /\ handed' = handed /\ pc' = [pc EXCEPT ![s] = "out"]
        /\ packet' = [packet EXCEPT ![s] = queue[1]]
        /\ Len(queue) \in Nat /\ 1 \in 1..Len(queue)
    <2>1. Len(queue) \in Nat /\ queue # <<>> /\ Len(queue) # 0
      BY LenProperties, EmptySeq DEF BufferIInv, TypeOK, UpdateQueuedPackets
    <2>2. Head(queue) = queue[1] /\ 1 \in 1..Len(queue)
      BY <2>1, HeadTailProperties DEF BufferIInv, TypeOK
    <2>3. AllBytes' = AllBytes
      BY OtherBytes
    <2> QED BY <2>1, <2>2, <2>3 DEF UpdateQueuedPackets
  <1>2. Begun(AllBytes)' = Begun(AllBytes) /\ Elements(queue)' = Elements(queue)
    BY <1>1 DEF Elements, Begun
  <1>3. /\ pc \in [Senders -> {"idle", "out", "push", "full"}]
        /\ packet \in [Senders -> Packets \cup {Null}]
    BY DEF BufferIInv, TypeOK
  <1>4. ~HeadSent /\ queue[1] \in Elements(queue)
    BY <1>1 DEF HeadSent, Elements
  <1>5. \A i \in 1..Len(queue) : queue[i] \notin Begun(AllBytes)
    BY <1>4 DEF OnceEach
  <1> QED BY <1>1, <1>2, <1>3, <1>4, <1>5 DEF OnceEach

LEMMA BurstSendOnce ==
    ASSUME BufferIInv, OnceEach, NEW s \in Senders, BurstSend(s)
    PROVE  OnceEach'
  <1> DEFINE p == packet[s]
  <1>1. /\ queue' = queue /\ queueLock' = queueLock /\ handed' = handed
        /\ packet' = packet /\ pc[s] = "out" /\ pc' = [pc EXCEPT ![s] = "push"]
        /\ m_writeMutex = Null /\ Null \notin Senders
    BY DEF BurstSend
  <1>2. /\ Begun(AllBytes)' = Begun(AllBytes) \cup {p}
        /\ Elements(queue)' = Elements(queue)
    BY <1>1, BurstSendBytes DEF Elements
  <1>3. /\ pc \in [Senders -> {"idle", "out", "push", "full"}]
        /\ \A t \in Senders : pc[t] # "push"
        /\ \A t \in Senders : queueLock = t => packet[t] = queue[1]
        /\ \A t \in Senders : queueLock = t => packet[t] \in Elements(queue)
    <2>1. ASSUME NEW t \in Senders, queueLock = t PROVE queue[1] \in Elements(queue)
      <3>1. queue # <<>> /\ queue \in Seq(Packets)
        BY <2>1 DEF BufferIInv, TypeOK, Holders
      <3>2. 1 \in 1..Len(queue)
        BY <3>1, EmptySeq
      <3> QED BY <3>2 DEF Elements
    <2> QED BY <1>1, <2>1 DEF BufferIInv, TypeOK, Holders
  <1>4. ~HeadSent
    BY <1>3 DEF HeadSent
  <1>5. p \in handed /\ p \notin Begun(AllBytes)
    BY <1>1 DEF OnceEach
  <1>6. ASSUME NEW t \in Senders, t # s, pc[t] # "idle" PROVE packet[t] # p
    BY <1>1, <1>3, <1>6 DEF OnceEach
  <1>7. ASSUME NEW i \in 1..Len(queue), queue[i] = p PROVE i = 1 /\ HeadSent'
    <2>1. p \in Elements(queue)
      BY <1>7 DEF Elements
    <2>2. queueLock = s
      BY <1>1, <2>1 DEF OnceEach
    <2>3. HeadSent'
      BY <1>1, <1>3, <2>2 DEF HeadSent
    <2>4. 1 \in 1..Len(queue) /\ queue[1] = p
      BY <1>3, <1>7, <2>2
    <2> QED BY <1>7, <2>3, <2>4 DEF OnceEach
  <1>8. \A i \in 1..Len(queue) : queue[i] \notin Begun(AllBytes)
    BY <1>4 DEF OnceEach
  <1> HIDE DEF p
  <1> QED BY <1>1, <1>2, <1>3, <1>5, <1>6, <1>7, <1>8 DEF OnceEach

LEMMA NoRoomOnce ==
    ASSUME BufferIInv, OnceEach, NEW s \in Senders, NoRoom(s)
    PROVE  OnceEach'
  <1>1. /\ AllBytes' = AllBytes /\ queue' = queue /\ handed' = handed
        /\ pc[s] = "out" /\ Null \notin Senders
        /\ pc' = [pc EXCEPT ![s] = IF queueLock = s THEN "idle" ELSE "full"]
        /\ queueLock' = IF queueLock = s THEN Null ELSE queueLock
        /\ packet' = IF queueLock = s THEN [packet EXCEPT ![s] = Null] ELSE packet
        /\ m_writeMutex = Null
    BY OtherBytes DEF NoRoom
  <1>2. Begun(AllBytes)' = Begun(AllBytes) /\ Elements(queue)' = Elements(queue)
    BY <1>1 DEF Elements, Begun
  <1>3. /\ pc \in [Senders -> {"idle", "out", "push", "full"}]
        /\ packet \in [Senders -> Packets \cup {Null}]
        /\ \A t \in Senders : pc[t] # "push"
    BY <1>1 DEF BufferIInv, TypeOK, Holders
  <1>4. ~HeadSent
    BY <1>3 DEF HeadSent
  <1>5. \A i \in 1..Len(queue) : queue[i] \notin Begun(AllBytes)
    BY <1>4 DEF OnceEach
  <1>6. CASE queueLock = s
    BY <1>1, <1>2, <1>3, <1>5, <1>6 DEF OnceEach
  <1>7. CASE queueLock # s
    BY <1>1, <1>2, <1>3, <1>5, <1>7 DEF OnceEach
  <1> QED BY <1>6, <1>7

LEMMA EnqueueOnce ==
    ASSUME BufferIInv, OnceEach, NEW s \in Senders, Enqueue(s)
    PROVE  OnceEach'
  <1> DEFINE p == packet[s]
  <1>1. /\ AllBytes' = AllBytes /\ queue' = Append(queue, p) /\ handed' = handed
        /\ pc[s] = "full" /\ queueLock = Null /\ Null \notin Senders
        /\ queueLock' = queueLock /\ p \in Packets /\ queue \in Seq(Packets)
        /\ pc' = [pc EXCEPT ![s] = "idle"] /\ packet' = [packet EXCEPT ![s] = Null]
    BY OtherBytes DEF Enqueue, BufferIInv, TypeOK, Holders
  <1>2. Begun(AllBytes)' = Begun(AllBytes)
    BY <1>1 DEF Begun
  <1>3. /\ pc \in [Senders -> {"idle", "out", "push", "full"}]
        /\ packet \in [Senders -> Packets \cup {Null}]
    BY DEF BufferIInv, TypeOK
  <1>4. ~HeadSent
    BY <1>1 DEF HeadSent
  <1>5. \A i \in 1..Len(queue) : queue[i] \notin Begun(AllBytes)
    BY <1>4 DEF OnceEach
  <1>6. p \in handed /\ p \notin Begun(AllBytes) /\ p \notin Elements(queue)
        /\ Owner[p] = s
    BY <1>1 DEF OnceEach
  <1>7. /\ Len(queue) \in Nat /\ Len(queue') = Len(queue) + 1
        /\ \A i \in 1..Len(queue) : queue'[i] = queue[i]
        /\ queue'[Len(queue) + 1] = p
    BY <1>1, AppendProperties, LenProperties
  <1>8. /\ Elements(queue)' = Elements(queue) \cup {p}
        /\ \A i \in 1..Len(queue') : i \in 1..Len(queue) \/ i = Len(queue) + 1
    BY <1>7, SMTT(30) DEF Elements
  <1>9. \A i, j \in 1..Len(queue') : queue'[i] = queue'[j] => i = j
    <2>1. \A i \in 1..Len(queue) : queue[i] # p
      BY <1>6 DEF Elements
    <2> QED BY <1>7, <1>8, <2>1 DEF OnceEach
  <1>10. \A i \in 1..Len(queue') : queue'[i] \notin Begun(AllBytes)
    BY <1>5, <1>6, <1>7, <1>8
  <1>11. ASSUME NEW t \in Senders, t # s, pc[t] # "idle"
         PROVE  /\ packet[t] # p /\ packet[t] \notin Elements(queue)
                /\ Owner[packet[t]] = t
    BY <1>1, <1>6, <1>11 DEF OnceEach
  <1> HIDE DEF p
  <1> QED BY <1>1, <1>2, <1>3, <1>6, <1>8, <1>9, <1>10, <1>11 DEF OnceEach

LEMMA BurstPushOnce ==
    ASSUME BufferIInv, OnceEach, NEW s \in Senders, BurstPush(s)
    PROVE  OnceEach'
  <1>1. /\ AllBytes' = AllBytes /\ handed' = handed /\ pc[s] = "push"
        /\ Null \notin Senders /\ queue \in Seq(Packets)
    BY OtherBytes DEF BurstPush, BufferIInv, TypeOK
  <1>2. Begun(AllBytes)' = Begun(AllBytes)
    BY <1>1 DEF Begun
  <1>3. /\ pc \in [Senders -> {"idle", "out", "push", "full"}]
        /\ packet \in [Senders -> Packets \cup {Null}]
    BY DEF BufferIInv, TypeOK
  <1>4. CASE queueLock # s
    <2>1. /\ queue' = queue /\ queueLock' = queueLock
          /\ pc' = [pc EXCEPT ![s] = "idle"] /\ packet' = [packet EXCEPT ![s] = Null]
      BY <1>4 DEF BurstPush
    <2>2. HeadSent' = HeadSent
      BY <1>3, <1>4, <2>1 DEF HeadSent
    <2>3. Elements(queue)' = Elements(queue)
      BY <2>1 DEF Elements
    <2> QED BY <1>1, <1>2, <1>3, <2>1, <2>2, <2>3 DEF OnceEach
  <1>5. CASE queueLock = s
    <2> DEFINE more == Tail(queue) # <<>>
    <2>1. /\ queue' = Tail(queue) /\ queueLock' = IF more THEN s ELSE Null
          /\ pc' = [pc EXCEPT ![s] = IF more THEN "out" ELSE "idle"]
          /\ packet' = [packet EXCEPT ![s] = IF more THEN Head(Tail(queue)) ELSE Null]
      BY <1>5 DEF BurstPush
    <2>2. queue # <<>>
      BY <1>5 DEF BufferIInv, Holders
    <2>3. /\ queue' \in Seq(Packets) /\ Len(queue) \in Nat
          /\ Len(queue') \in Nat /\ Len(queue') = Len(queue) - 1
          /\ \A i \in 1..Len(queue') : queue'[i] = queue[i + 1]
      BY <1>1, <2>1, <2>2, HeadTailProperties, LenProperties
    <2>4. \A i \in 1..Len(queue') : i + 1 \in 1..Len(queue) /\ i + 1 # 1
      BY <2>3
    <2>5. Elements(queue)' \subseteq Elements(queue)
      BY <2>3, <2>4 DEF Elements
    <2>6. \A i \in 1..Len(queue') : queue'[i] \notin Begun(AllBytes)
      BY <2>3, <2>4 DEF OnceEach
    <2>7. \A i, j \in 1..Len(queue') : queue'[i] = queue'[j] => i = j
      <3> SUFFICES ASSUME NEW i \in 1..Len(queue'), NEW j \in 1..Len(queue'),
                          queue'[i] = queue'[j]
                   PROVE  i = j
        OBVIOUS
      <3>1. /\ i + 1 \in 1..Len(queue) /\ j + 1 \in 1..Len(queue)
            /\ queue[i + 1] = queue[j + 1]
        BY <2>3, <2>4
      <3>2. i + 1 = j + 1
        BY <3>1 DEF OnceEach
      <3> QED BY <2>3, <3>2
    <2>8. more => /\ Head(Tail(queue)) \in Elements(queue)'
                  /\ Head(Tail(queue)) \notin Begun(AllBytes)
      <3> SUFFICES ASSUME more PROVE /\ Head(Tail(queue)) \in Elements(queue)'
                                     /\ Head(Tail(queue)) \notin Begun(AllBytes)
        OBVIOUS
      <3>1. Head(Tail(queue)) = queue'[1] /\ 1 \in 1..Len(queue')
        BY <2>1, <2>3, HeadTailProperties, EmptySeq
      <3>2. queue'[1] \in Elements(queue)'
        BY <3>1 DEF Elements
      <3> QED BY <2>6, <3>1, <3>2
    <2>9. Elements(queue) \subseteq handed
      BY DEF OnceEach
    <2> HIDE DEF more
    <2>10. \A t \in Senders :
              /\ pc'[t] # "idle" => packet'[t] \in handed'
              /\ pc'[t] # "idle" /\ queueLock' # t
                   => Owner[packet'[t]] = t /\ packet'[t] \notin Elements(queue)'
              /\ pc'[t] \in {"out", "full"} => packet'[t] \notin Begun(AllBytes)'
      <3> SUFFICES ASSUME NEW t \in Senders
                   PROVE  /\ pc'[t] # "idle" => packet'[t] \in handed'
                          /\ pc'[t] # "idle" /\ queueLock' # t
                               => /\ Owner[packet'[t]] = t
                                  /\ packet'[t] \notin Elements(queue)'
                          /\ pc'[t] \in {"out", "full"}
                               => packet'[t] \notin Begun(AllBytes)'
        OBVIOUS
      <3>1. CASE t = s /\ more
        <4>1. /\ pc'[t] = "out" /\ queueLock' = t
              /\ packet'[t] = Head(Tail(queue))
          BY <1>3, <2>1, <3>1
        <4>2. packet'[t] \in handed' /\ packet'[t] \notin Begun(AllBytes)'
          BY <1>1, <1>2, <2>5, <2>8, <2>9, <3>1, <4>1
        <4> QED BY <4>1, <4>2
      <3>2. CASE t = s /\ ~more
        BY <1>3, <2>1, <3>2
      <3>3. CASE t # s
        <4>1. pc'[t] = pc[t] /\ packet'[t] = packet[t] /\ queueLock # t
          BY <1>3, <1>5, <2>1, <3>3
        <4> QED BY <1>1, <1>2, <2>5, <4>1 DEF OnceEach
      <3> QED BY <3>1, <3>2, <3>3
    <2> QED BY <1>1, <1>2, <2>5, <2>6, <2>7, <2>9, <2>10 DEF OnceEach
  <1> QED BY <1>4, <1>5

LEMMA WorkerOnce ==
    ASSUME BufferIInv, OnceEach,
           WriteCallback \/ ReadCallback \/ PostWrite \/ Receive
    PROVE  OnceEach'
  <1>1. AllBytes' = AllBytes /\ UNCHANGED senderVars
    BY OtherBytes, ByteReceived
       DEF WriteCallback, ReadCallback, PostWrite, Receive
  <1>2. /\ Begun(AllBytes)' = Begun(AllBytes) /\ Elements(queue)' = Elements(queue)
        /\ HeadSent' = HeadSent
    BY <1>1 DEF senderVars, Begun, Elements, HeadSent
  <1> QED BY <1>1, <1>2 DEF senderVars, OnceEach

THEOREM SendInvariance == Spec => [](BufferIInv /\ OnceEach)
  <1>1. BufferIInv /\ OnceEach /\ [Next]_vars => OnceEach'
    <2> SUFFICES ASSUME BufferIInv, OnceEach, [Next]_vars PROVE OnceEach'
      OBVIOUS
    <2>1. ASSUME NEW s \in Senders, NEW p \in Packets, OutPacket(s, p) PROVE OnceEach'
      BY <2>1, OutPacketOnce
    <2>2. ASSUME NEW s \in Senders, UpdateQueuedPackets(s) PROVE OnceEach'
      BY <2>2, UpdateQueuedPacketsOnce
    <2>3. ASSUME NEW s \in Senders, Send(s) PROVE OnceEach'
      BY <2>3, BurstSendOnce, NoRoomOnce, BurstPushOnce, EnqueueOnce DEF Send
    <2>4. CASE UNCHANGED vars
      <3>1. /\ UNCHANGED <<handed, pc, packet, queueLock, queue>>
            /\ AllBytes' = AllBytes
        BY <2>4 DEF vars, senderVars, AllBytes, InBuffers
      <3>2. /\ Begun(AllBytes)' = Begun(AllBytes)
            /\ Elements(queue)' = Elements(queue) /\ HeadSent' = HeadSent
        BY <3>1 DEF Begun, Elements, HeadSent
      <3> QED BY <3>1, <3>2 DEF OnceEach
    <2> QED BY <2>1, <2>2, <2>3, <2>4, WorkerOnce DEF Next
  <1> QED BY <1>1, InitBuffer, InitOnce, NextBuffer, PTL DEF Spec

\* Whatever threads send at once and however sends are cut, the client receives
\* whole packets, each in one piece and once, in the order in which they were
\* put in the buffer (WorldSocket::_OutPacket, Socket::BurstSend, CircularBuffer,
\* Socket::WriteCallback).
THEOREM StreamKept == Spec => StreamSpec
  <1>1. Init => Stream!Init
    <2> SUFFICES ASSUME Init PROVE Stream!Init
      OBVIOUS
    <2>1. <<>> \in Seq(Byte) /\ 1..Len(<<>>) = {}
      BY EmptySeq
    <2>2. Buffer!Empty.a = <<>> /\ Buffer!Empty.b = <<>>
      BY DEF Buffer!Empty
    <2>3. InBuffers = <<>>
      BY <2>1, <2>2, ConcatEmptySeq DEF Init, InBuffers, Buffer!Contents
    <2>4. received = <<>> /\ received \o InBuffers = <<>>
      BY <2>1, <2>3, ConcatEmptySeq DEF Init
    <2>5. Begun(received \o InBuffers) = {}
      BY <2>1, <2>4 DEF Begun
    <2> QED BY <2>3, <2>4, <2>5 DEF Stream!Init
  <1>2. BufferIInv /\ OnceEach /\ [Next]_vars
          => [Stream!Next]_<<InBuffers, received, Begun(received \o InBuffers)>>
    <2> SUFFICES ASSUME BufferIInv, OnceEach, [Next]_vars
                 PROVE  \/ Stream!Next
                        \/ UNCHANGED <<InBuffers, received, Begun(AllBytes)>>
      BY DEF AllBytes
    <2>1. ASSUME NEW s \in Senders, BurstSend(s) PROVE Stream!Next
      <3> DEFINE p == packet[s]
      <3>1. /\ p \in Packets /\ p \notin Begun(AllBytes) /\ received' = received
            /\ InBuffers' = InBuffers \o BytesOf[p]
            /\ Begun(AllBytes') = Begun(AllBytes) \cup {p}
        BY <2>1, PacketWritten, BurstSendBytes DEF BurstSend, OnceEach
      <3>2. Stream!Put(p)
        BY <3>1 DEF Stream!Put, AllBytes
      <3>3. p \in DOMAIN BytesOf
        BY <3>1 DEF BytesOf
      <3> QED BY <3>2, <3>3 DEF Stream!Next
    <2>2. CASE Receive
      <3>1. /\ InBuffers # <<>> /\ InBuffers' = Tail(InBuffers)
            /\ received' = Append(received, Head(InBuffers)) /\ AllBytes' = AllBytes
        BY <2>2, ByteReceived
      <3>2. Begun(received \o InBuffers)' = Begun(received \o InBuffers)
        BY <3>1 DEF AllBytes
      <3> QED BY <3>1, <3>2 DEF Stream!Next, Stream!Receive
    <2>3. CASE UNCHANGED vars
      BY <2>3 DEF vars, senderVars, epollVars, InBuffers, AllBytes
    <2>4. ASSUME \/ \E s \in Senders : \/ \E p \in Packets : OutPacket(s, p)
                                       \/ UpdateQueuedPackets(s) \/ NoRoom(s)
                                       \/ BurstPush(s) \/ Enqueue(s)
                 \/ WriteCallback \/ ReadCallback \/ PostWrite
          PROVE  UNCHANGED <<InBuffers, received, Begun(AllBytes)>>
      BY <2>4, OtherBytes
    <2> QED BY <2>1, <2>2, <2>3, <2>4 DEF Next, Send
  <1> QED BY <1>1, <1>2, SendInvariance, PTL DEF Spec, StreamSpec, Stream!Spec, Stream!vars
=============================================================================
