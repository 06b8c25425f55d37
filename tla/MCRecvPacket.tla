---------------------------- MODULE MCRecvPacket ----------------------------
(* Three packets at most, of every mixture of empty, short and longest      *)
(* bodies, and one that is too long.                                        *)
EXTENDS RecvPacket
MCStreams == {<<2, 5, 9>>, <<4, 6, 9>>, <<3, 7>>, <<3, 8, 10>>}
=============================================================================
