----------------------------- MODULE SocketSend -----------------------------
(***************************************************************************)
(* Sending on a world socket (WorldSocket::OutPacket and                   *)
(* UpdateQueuedPackets, shared/Network Socket, SocketLinux, SocketMgrLinux *)
(* and CircularBuffer).                                                    *)
(*                                                                         *)
(* Any thread sends: it writes a packet to the buffer with m_writeMutex    *)
(* held and asks for EPOLLOUT, unless m_writeLock says that somebody has;  *)
(* a packet the buffer has no room for waits in a queue that the session's *)
(* thread empties.  The worker sends what lies in one piece at each edge   *)
(* of EPOLLOUT.  The connection stays up; the kernel keeps its promises    *)
(* for a stream socket and for an edge-triggered epoll.                    *)
(***************************************************************************)
EXTENDS Naturals, Sequences, FiniteSets

CONSTANTS
    Senders,       \* threads that send to this client
    Owner,         \* packet -> the thread that sends it; packets are 1..n
    Size,          \* packet -> its bytes after the header's
    Capacity,      \* of the write buffer
    KernelSpace,   \* of the kernel's
    Null

ASSUME SendAssumption ==
    /\ Owner \in Seq(Senders) /\ Size \in Seq(Nat) /\ DOMAIN Owner = DOMAIN Size
    /\ Capacity \in Nat /\ KernelSpace \in Nat \ {0}
    /\ Null \notin Senders

Packets == DOMAIN Owner

\* The bytes of a packet; the first one stands for the header.
BytesOf == [p \in Packets |-> [i \in 1..Size[p] + 1 |-> <<p, i>>]]

Buffer == INSTANCE CircularBuffer WITH Bytes <- Packets \X Nat

VARIABLES
    handed,       \* packets the threads have sent so far
    pc,           \* sender -> "idle", "out" (in _OutPacket), "push" (before
                  \* BurstPush), "full" (no room in the buffer)
    packet,       \* sender -> the packet it sends
    queueLock,    \* the sender in UpdateQueuedPackets, or Null
    queue,        \* the packets that wait
    m_writeMutex, \* the sender that holds it, or Null
    m_writeLock,
    writeBuffer,
    armed,        \* the event the socket is registered for, "in" or "out"
    ready,        \* the event is due
    nospace,      \* a send has found the kernel's buffer full
    kernel,       \* the bytes in it
    received,
    worker        \* "wait", or "post" (has found bytes after a read)

senderVars == <<handed, pc, packet, queueLock, queue, m_writeMutex>>
epollVars == <<armed, ready, nospace>>
vars == <<senderVars, m_writeLock, writeBuffer, epollVars, kernel, received, worker>>

Init ==
    /\ handed = {} /\ pc = [s \in Senders |-> "idle"]
    /\ packet = [s \in Senders |-> Null]
    /\ queueLock = Null /\ queue = <<>>
    /\ m_writeMutex = Null /\ m_writeLock = 0
    /\ writeBuffer = Buffer!Empty
    /\ armed = "in" /\ ready = FALSE /\ nospace = FALSE
    /\ kernel = <<>> /\ received = <<>>
    /\ worker = "wait"

\* Operators named ..._bug are the mistakes the properties are tested
\* against; no specification uses them.

HasRoom_bug(p) == Buffer!Space(writeBuffer) >= Size[p]
HasRoom(p) == Buffer!Space(writeBuffer) >= Size[p] + 1

\* What BurstPush finds: 0 when it is the first to ask for EPOLLOUT.
SendLock == m_writeLock

\* EPOLL_CTL_MOD reports an event whose condition holds; a writable event
\* that does not comes when the kernel's buffer has room again.
PostEvent(e) ==
    /\ armed' = e
    /\ ready' = (e = "out" /\ Len(kernel) < KernelSpace)
    /\ nospace' = (nospace \/ (e = "out" /\ Len(kernel) = KernelSpace))

-------------------------------------------------------------------------------
(* A thread sends its next packet ...                                      *)

OutPacket(s, p) ==
    /\ pc[s] = "idle" /\ queueLock # s
    /\ p \notin handed /\ Owner[p] = s
    /\ \A q \in Packets : Owner[q] = s /\ q < p => q \in handed
    /\ handed' = handed \cup {p}
    /\ pc' = [pc EXCEPT ![s] = "out"]
    /\ packet' = [packet EXCEPT ![s] = p]
    /\ UNCHANGED <<queueLock, queue, m_writeMutex, m_writeLock, writeBuffer,
                   epollVars, kernel, received, worker>>

\* ... or the session's update sends those that wait, with queueLock held.
UpdateQueuedPackets(s) ==
    /\ pc[s] = "idle" /\ queueLock = Null /\ queue # <<>>
    /\ queueLock' = s
    /\ pc' = [pc EXCEPT ![s] = "out"]
    /\ packet' = [packet EXCEPT ![s] = Head(queue)]
    /\ UNCHANGED <<handed, queue, m_writeMutex, m_writeLock, writeBuffer,
                   epollVars, kernel, received, worker>>

\* The header and the rest, in two writes.
BurstSend(s) ==
    LET p == packet[s]
        header == SubSeq(BytesOf[p], 1, 1)
        rest == SubSeq(BytesOf[p], 2, Size[p] + 1) IN
    /\ pc[s] = "out" /\ m_writeMutex = Null /\ HasRoom(p)
    /\ m_writeMutex' = s
    /\ writeBuffer' = Buffer!Written(Buffer!Written(Buffer!Prepared(writeBuffer),
                                                    header), rest)
    /\ pc' = [pc EXCEPT ![s] = "push"]
    /\ UNCHANGED <<handed, packet, queueLock, queue, m_writeLock, epollVars,
                   kernel, received, worker>>

\* OUTPACKET_RESULT_NO_ROOM_IN_BUFFER; the packets that wait go on waiting.
NoRoom(s) ==
    /\ pc[s] = "out" /\ m_writeMutex = Null /\ ~HasRoom(packet[s])
    /\ writeBuffer' = Buffer!Prepared(writeBuffer)
    /\ pc' = [pc EXCEPT ![s] = IF queueLock = s THEN "idle" ELSE "full"]
    /\ queueLock' = IF queueLock = s THEN Null ELSE queueLock
    /\ packet' = IF queueLock = s THEN [packet EXCEPT ![s] = Null] ELSE packet
    /\ UNCHANGED <<handed, queue, m_writeMutex, m_writeLock, epollVars, kernel,
                   received, worker>>

\* BurstPush and BurstEnd.  A packet from the queue is followed by the next.
BurstPush(s) ==
    LET rest == IF queueLock = s THEN Tail(queue) ELSE queue
        more == queueLock = s /\ rest # <<>> IN
    /\ pc[s] = "push"
    /\ IF SendLock = 0 THEN PostEvent("out") ELSE UNCHANGED epollVars
    /\ m_writeLock' = 1
    /\ m_writeMutex' = Null
    /\ queue' = rest
    /\ pc' = [pc EXCEPT ![s] = IF more THEN "out" ELSE "idle"]
    /\ packet' = [packet EXCEPT ![s] = IF more THEN Head(rest) ELSE Null]
    /\ queueLock' = IF queueLock = s /\ ~more THEN Null ELSE queueLock
    /\ UNCHANGED <<handed, writeBuffer, kernel, received, worker>>

\* "queue the packet"
Enqueue(s) ==
    /\ pc[s] = "full" /\ queueLock = Null
    /\ queue' = Append(queue, packet[s])
    /\ pc' = [pc EXCEPT ![s] = "idle"]
    /\ packet' = [packet EXCEPT ![s] = Null]
    /\ UNCHANGED <<handed, queueLock, m_writeMutex, m_writeLock, writeBuffer,
                   epollVars, kernel, received, worker>>

-------------------------------------------------------------------------------
(* SocketWorkerThread::run                                                 *)

\* Whether the worker has sent everything and waits for input again.
AllWritten_bug(buf) == buf.b = <<>>
AllWritten(buf) == Buffer!Contents(buf) = <<>>

\* EPOLLOUT: WriteCallback sends what lies in one piece, as far as the kernel
\* has room.  "we don't have to do anything here. no more oneshots"
WriteCallback ==
    LET bytes == Buffer!Contiguous(writeBuffer)
        n == IF Len(bytes) < KernelSpace - Len(kernel) THEN Len(bytes)
             ELSE KernelSpace - Len(kernel) IN
    /\ worker = "wait" /\ armed = "out" /\ ready /\ m_writeMutex = Null
    /\ kernel' = kernel \o SubSeq(bytes, 1, n)
    /\ writeBuffer' = Buffer!Removed(writeBuffer, n)
    /\ IF AllWritten(writeBuffer')
       THEN m_writeLock' = m_writeLock - 1 /\ armed' = "in" /\ nospace' = FALSE
       ELSE UNCHANGED <<m_writeLock, armed>> /\ nospace' = (n < Len(bytes))
    /\ ready' = FALSE
    /\ UNCHANGED <<senderVars, received, worker>>

\* EPOLLIN: after a read it looks, without the mutex, whether there is
\* something to be written that nobody has asked EPOLLOUT for ...
ReadCallback ==
    /\ worker = "wait" /\ armed = "in"
    /\ Buffer!Contents(writeBuffer) # <<>> /\ m_writeLock = 0
    /\ worker' = "post"
    /\ UNCHANGED <<senderVars, m_writeLock, writeBuffer, epollVars, kernel, received>>

\* ... and asks for it.
PostWrite ==
    /\ worker = "post"
    /\ PostEvent("out")
    /\ worker' = "wait"
    /\ UNCHANGED <<senderVars, m_writeLock, writeBuffer, kernel, received>>

\* The client reads.  The socket becomes writable, which is an edge only if
\* it had been found full.
Receive ==
    /\ kernel # <<>>
    /\ received' = Append(received, Head(kernel))
    /\ kernel' = Tail(kernel)
    /\ ready' = (ready \/ (nospace /\ armed = "out"))
    /\ nospace' = FALSE
    /\ UNCHANGED <<senderVars, m_writeLock, writeBuffer, armed, worker>>

-------------------------------------------------------------------------------
Send(s) ==
    BurstSend(s) \/ NoRoom(s) \/ BurstPush(s) \/ Enqueue(s)

Next ==
    \/ \E s \in Senders :
          \/ \E p \in Packets : OutPacket(s, p)
          \/ UpdateQueuedPackets(s) \/ Send(s)
    \/ WriteCallback \/ ReadCallback \/ PostWrite \/ Receive

Spec == Init /\ [][Next]_vars

\* Sessions are updated for ever; locks are held for a few instructions.
FairSpec ==
    /\ Spec
    /\ \A s \in Senders : SF_vars(Send(s))
    /\ WF_vars(\E s \in Senders : UpdateQueuedPackets(s))
    /\ SF_vars(WriteCallback) /\ WF_vars(PostWrite) /\ WF_vars(Receive)

-------------------------------------------------------------------------------
(* Properties.                                                             *)

\* Types; the write buffer is as CircularBuffer::Write and Remove assume it:
\* the regions never overlap, because a packet is written only where GetSpace
\* has found room for its header and the rest together.
TypeOK ==
    /\ handed \in SUBSET Packets
    /\ pc \in [Senders -> {"idle", "out", "push", "full"}]
    /\ packet \in [Senders -> Packets \cup {Null}]
    /\ queueLock \in Senders \cup {Null} /\ m_writeMutex \in Senders \cup {Null}
    /\ queue \in Seq(Packets)
    /\ m_writeLock \in 0..1
    /\ Buffer!Valid(writeBuffer)
    /\ armed \in {"in", "out"} /\ ready \in BOOLEAN /\ nospace \in BOOLEAN
    /\ Len(kernel) <= KernelSpace
    /\ worker \in {"wait", "post"}

\* Bytes that wait in the buffer with nobody at work on it have a registration
\* for EPOLLOUT: m_writeLock never says so without one (BurstPush, the worker's
\* DecSendLock and the worker's own look at the buffer after a read, which takes
\* no lock).
PendingIsRegistered ==
    Buffer!Contents(writeBuffer) # <<>> /\ m_writeMutex = Null
        => m_writeLock = 1 /\ armed = "out"

\* What waits to be sent is whole, and waits for something.
BufferServed == TypeOK /\ PendingIsRegistered

InBuffers == kernel \o Buffer!Contents(writeBuffer)

\* The packets whose header is in a sequence of bytes.
Begun(bytes) == {p \in Packets : \E i \in 1..Len(bytes) : bytes[i] = <<p, 1>>}

\* The client receives whole packets, each in one piece and with none of its
\* bytes lost, doubled or out of order, whatever threads send at once and
\* however the two regions and partial sends cut them (ByteStream).
Stream == INSTANCE ByteStream WITH
    Packets <- BytesOf, pending <- InBuffers, put <- Begun(received \o InBuffers)

StreamSpec == Stream!Spec

Arrives(p) == \E i \in 1..Len(received) : received[i] = <<p, Size[p] + 1>>

\* What is sent arrives, also over a full kernel buffer and a full write
\* buffer, as long as no bytes are put in region B.
Flows ==
    [](writeBuffer.b = <<>>) =>
        \A p \in Packets : p \in handed ~> Arrives(p)
===============================================================================
