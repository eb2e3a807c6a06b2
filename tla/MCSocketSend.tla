---------------------------- MODULE MCSocketSend ----------------------------
(***************************************************************************)
(* Instances of SocketSend: which thread sends which packets, and how long *)
(* they are.                                                               *)
(***************************************************************************)
EXTENDS SocketSend

CONSTANTS s1, s2

TwoSenders == {s1, s2}

\* Packets that fill the buffer of 5 bytes, alone or together; the first
\* sender's third may find room where the second had none.
Owners == <<s1, s2, s1, s2, s1>>
Sizes == <<3, 2, 1, 0, 3>>
=============================================================================
