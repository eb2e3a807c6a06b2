----------------------------- MODULE ByteStream -----------------------------
(***************************************************************************)
(* What a socket promises its senders: the client receives a prefix of     *)
(* what they put on the connection, packet after packet.                   *)
(***************************************************************************)
EXTENDS Sequences

CONSTANT Packets    \* packet -> its bytes

VARIABLES
    pending,   \* the bytes that have been put and not received
    received,
    put        \* the packets that have been put

vars == <<pending, received, put>>

Init == pending = <<>> /\ received = <<>> /\ put = {}

Put(p) ==
    /\ p \notin put
    /\ pending' = pending \o Packets[p]
    /\ put' = put \cup {p}
    /\ UNCHANGED received

Receive ==
    /\ pending # <<>>
    /\ received' = Append(received, Head(pending))
    /\ pending' = Tail(pending)
    /\ UNCHANGED put

Next == Receive \/ \E p \in DOMAIN Packets : Put(p)

Spec == Init /\ [][Next]_vars
=============================================================================
