------------------------------ MODULE RecvPacket ------------------------------
(***************************************************************************)
(* gg_recv_packet(): packets are cut out of the byte stream of the server. *)
(* A read returns as few bytes as it likes, or none (EAGAIN); what was     *)
(* read of a header or of a body is then kept in the session until         *)
(* gg_watch_fd() is called again.  The loop calls gg_read() again after    *)
(* EINTR: that changes nothing, and is no step here.                       *)
(*                                                                         *)
(* A byte is its position in the stream, so that a buffer tells where what *)
(* it holds came from.  One call of gg_read() is one step, for data arrive *)
(* between two of them.                                                    *)
(***************************************************************************)
EXTENDS Naturals, Sequences

CONSTANTS
  HeaderSize,  \* sizeof(struct gg_header)
  Limit,       \* the longest body gg_recv_packet() accepts, 65535
  Streams,     \* what servers send: the positions at which the packets end
  Tls          \* gg_read() reads from sess->ssl

Before(s, k) == IF k = 1 THEN 0 ELSE s[k - 1]
LengthOf(s, k) == s[k] - Before(s, k) - HeaderSize

ASSUME SizesAssumption == HeaderSize \in Nat \ {0} /\ Limit \in Nat
\* Each packet ends behind its own header.
ASSUME StreamsAssumption ==
  \A s \in Streams :
    /\ s \in Seq(Nat)
    /\ \A k \in 1..Len(s) : s[k] >= Before(s, k) + HeaderSize
ASSUME TlsAssumption == Tls \in BOOLEAN

VARIABLES
  stream,     \* the packets of this connection
  arrived,    \* bytes that have come to the socket
  taken,      \* of these, the bytes read from it
  given,      \* of these, the bytes gg_read() has returned
  closed,     \* nothing more comes
  phase,      \* "open", "broken" once gg_watch_fd() returned NULL, or "freed"
  pc,         \* where gg_recv_packet() is: "idle", "header" or "body"
  header,     \* h, as far as it was read
  headerBuf,  \* sess->header_buf, header_done bytes long
  buf,        \* the packet being filled: buf and sess->recv_buf
  owner,      \* who is to free it: "nobody", "call", "session" or "lost"
  offset,     \* bytes of its body that are there
  size,       \* bytes of its body that are missing
  recvLeft,   \* sess->recv_left
  recvDone,   \* sess->recv_done
  delivered   \* the packets gg_recv_packet() has returned

network == <<stream, arrived, closed>>
call == <<header, offset, size>>
session == <<headerBuf, recvLeft, recvDone>>
vars == <<network, taken, given, phase, pc, call, session, buf, owner,
          delivered>>

Total == IF stream = <<>> THEN 0 ELSE stream[Len(stream)]
Bytes(from, n) == [i \in 1..n |-> from + i]
NoPacket == [header |-> <<>>, body |-> <<>>]

TypeOK ==
  /\ stream \in Streams
  /\ arrived \in Nat /\ taken \in Nat /\ given \in Nat
  /\ given <= taken /\ taken <= arrived
  /\ closed \in BOOLEAN
  /\ phase \in {"open", "broken", "freed"}
  /\ pc \in {"idle", "header", "body"}
  /\ header \in Seq(Nat) /\ headerBuf \in Seq(Nat)
  /\ buf \in [header : Seq(Nat), body : Seq(Nat)]
  /\ owner \in {"nobody", "call", "session", "lost"}
  /\ offset \in Nat /\ size \in Nat /\ recvLeft \in Nat /\ recvDone \in Nat
  /\ delivered \in Seq([header : Seq(Nat), body : Seq(Nat)])

Init ==
  /\ stream \in Streams
  /\ arrived = 0 /\ taken = 0 /\ given = 0 /\ closed = FALSE
  /\ phase = "open" /\ pc = "idle"
  /\ header = <<>> /\ headerBuf = <<>>
  /\ buf = NoPacket /\ owner = "nobody"
  /\ offset = 0 /\ size = 0 /\ recvLeft = 0 /\ recvDone = 0
  /\ delivered = <<>>

-----------------------------------------------------------------------------
(***************************************************************************)
(* The server and the network.                                             *)
(***************************************************************************)
Arrive ==
  /\ ~closed /\ arrived < Total
  /\ arrived' \in (arrived + 1)..Total
  /\ UNCHANGED <<stream, closed, taken, given, phase, pc, call, session, buf,
                 owner, delivered>>

Close ==
  /\ ~closed /\ closed' = TRUE
  /\ UNCHANGED <<stream, arrived, taken, given, phase, pc, call, session, buf,
                 owner, delivered>>

-----------------------------------------------------------------------------
(***************************************************************************)
(* gg_read(): n of the bytes that are there, at most want.  SSL_read()     *)
(* takes a whole record from the socket, whatever it is asked for, and     *)
(* keeps what it does not return.                                          *)
(***************************************************************************)
Drained == given = arrived

Read(n, want) ==
  /\ n \in 1..want
  /\ given' = given + n
  /\ taken' \in IF taken > given THEN {taken}
                ELSE IF Tls THEN (taken + 1)..arrived
                ELSE {taken + n}
  /\ given' <= taken' /\ taken' <= arrived

\* The length field of a header; h is anything if it is not a packet's header.
LengthsIn(h) ==
  LET packets == {k \in 1..Len(stream) :
                    h = Bytes(Before(stream, k), HeaderSize)}
  IN IF packets = {} THEN 0..Limit
     ELSE {LengthOf(stream, k) : k \in packets}

\* Fault: a resumed packet is filled from its beginning once more.
BeginAtStart ==
  /\ phase = "open" /\ pc = "idle"
  /\ IF recvLeft < 1
     THEN /\ pc' = "header"
          /\ header' = headerBuf
          /\ headerBuf' = <<>>
          /\ UNCHANGED <<offset, size>>
     ELSE /\ pc' = "body"
          /\ header' = buf.header
          /\ size' = recvLeft
          /\ offset' = 0
          /\ UNCHANGED headerBuf
  /\ UNCHANGED <<network, taken, given, phase, recvLeft, recvDone, buf, owner,
                 delivered>>

\* gg_watch_fd() is called and calls gg_recv_packet(), which resumes.
Begin ==
  /\ phase = "open" /\ pc = "idle"
  /\ IF recvLeft < 1
     THEN /\ pc' = "header"
          /\ header' = headerBuf
          /\ headerBuf' = <<>>
          /\ UNCHANGED <<offset, size>>
     ELSE /\ pc' = "body"
          /\ header' = buf.header
          /\ size' = recvLeft
          /\ offset' = recvDone
          /\ UNCHANGED headerBuf
  /\ UNCHANGED <<network, taken, given, phase, recvLeft, recvDone, buf, owner,
                 delivered>>

\* Fault: recv_left still says that a packet is to be resumed.
DeliverUnreset(packet) ==
  /\ delivered' = Append(delivered, packet)
  /\ pc' = "idle"
  /\ buf' = NoPacket /\ owner' = "nobody"
  /\ UNCHANGED recvLeft

\* The caller gets the packet, and frees it.
Deliver(packet) ==
  /\ delivered' = Append(delivered, packet)
  /\ pc' = "idle"
  /\ buf' = NoPacket /\ owner' = "nobody"
  /\ recvLeft' = 0

ReadHeaderPart ==
  /\ phase = "open" /\ pc = "header"
  /\ \E n \in 1..HeaderSize :
     /\ n < HeaderSize - Len(header)
     /\ Read(n, HeaderSize - Len(header))
     /\ header' = header \o Bytes(given, n)
  /\ UNCHANGED <<network, phase, pc, offset, size, session, buf, owner,
                 delivered>>

\* The last bytes of a header: the packet is allocated, if it is not too long.
ReadHeader ==
  /\ phase = "open" /\ pc = "header"
  /\ Read(HeaderSize - Len(header), HeaderSize - Len(header))
  /\ header' = header \o Bytes(given, HeaderSize - Len(header))
  /\ \E length \in LengthsIn(header') :
       LET packet == [header |-> header', body |-> [i \in 1..length |-> 0]]
       IN \/ /\ length > Limit
             /\ phase' = "broken" /\ pc' = "idle"
             /\ UNCHANGED <<offset, size, recvLeft, buf, owner, delivered>>
          \/ /\ length = 0
             /\ Deliver(packet)
             /\ offset' = 0 /\ size' = 0
             /\ UNCHANGED phase
          \/ /\ length \in 1..Limit
             /\ pc' = "body"
             /\ buf' = packet /\ owner' = "call"
             /\ offset' = 0 /\ size' = length
             /\ UNCHANGED <<phase, recvLeft, delivered>>
  /\ UNCHANGED <<network, headerBuf, recvDone>>

\* n bytes are stored in the packet behind the ones that are there.
Filled(n) ==
  [buf EXCEPT !.body = [i \in DOMAIN buf.body |->
     IF i \in (offset + 1)..(offset + n) THEN given + i - offset
     ELSE buf.body[i]]]

\* Fault: the read is not limited to what is missing of the packet.
ReadBodyUnlimited ==
  /\ phase = "open" /\ pc = "body"
  /\ \E n \in 1..(size + 1) :
     /\ Read(n, size + 1)
     /\ offset' = offset + n
     /\ size' = size - n
     /\ buf' = Filled(n)
  /\ UNCHANGED <<network, phase, pc, header, session, owner, delivered>>

ReadBody ==
  /\ phase = "open" /\ pc = "body"
  /\ \E n \in 1..size :
     /\ Read(n, size)
     /\ offset' = offset + n
     /\ size' = size - n
     /\ IF n = size
        THEN Deliver(Filled(n))
        ELSE buf' = Filled(n) /\ UNCHANGED <<pc, owner, recvLeft, delivered>>
  /\ UNCHANGED <<network, phase, header, headerBuf, recvDone>>

\* Fault: the beginning of a header is dropped when the rest is not there.
HeaderDropped ==
  /\ phase = "open" /\ pc = "header" /\ Drained
  /\ pc' = "idle"
  /\ UNCHANGED <<network, taken, given, phase, call, session, buf, owner,
                 delivered>>

\* EAGAIN: what there is of the header is kept for the next call.
HeaderAgain ==
  /\ phase = "open" /\ pc = "header" /\ Drained
  /\ headerBuf' = header
  /\ pc' = "idle"
  /\ UNCHANGED <<network, taken, given, phase, call, recvLeft, recvDone, buf,
                 owner, delivered>>

BodyAgain ==
  /\ phase = "open" /\ pc = "body" /\ Drained
  /\ recvLeft' = size /\ recvDone' = offset
  /\ owner' = "session"
  /\ pc' = "idle"
  /\ UNCHANGED <<network, taken, given, phase, call, headerBuf, buf, delivered>>

\* The end of the stream: buf is not freed, and nobody may know it any more.
EndOfStream ==
  /\ phase = "open" /\ pc # "idle" /\ Drained /\ closed
  /\ phase' = "broken" /\ pc' = "idle"
  /\ owner' = IF owner = "call" THEN "lost" ELSE owner
  /\ UNCHANGED <<network, taken, given, call, session, buf, delivered>>

\* Any other error: buf is freed, also the one that sess->recv_buf points to.
ReadFails ==
  /\ phase = "open" /\ pc # "idle"
  /\ phase' = "broken" /\ pc' = "idle"
  /\ owner' = IF pc = "body" THEN "nobody" ELSE owner
  /\ buf' = IF pc = "body" THEN NoPacket ELSE buf
  /\ UNCHANGED <<network, taken, given, call, session, delivered>>

\* gg_free_session() frees header_buf and nothing else of what is kept here.
Free ==
  /\ phase # "freed" /\ pc = "idle"
  /\ phase' = "freed"
  /\ headerBuf' = <<>>
  /\ UNCHANGED <<network, taken, given, pc, call, recvLeft, recvDone, buf,
                 owner, delivered>>

Reading == ReadHeaderPart \/ ReadHeader \/ ReadBody \/ HeaderAgain \/ BodyAgain
             \/ EndOfStream \/ ReadFails

Over == phase = "freed" /\ UNCHANGED vars

Next == Arrive \/ Close \/ Begin \/ Reading \/ Free \/ Over

Spec == Init /\ [][Next]_vars

(***************************************************************************)
(* The client calls gg_watch_fd() when select() says that there is         *)
(* something on the socket, "gdy cos sie stanie z obserwowanym             *)
(* deskryptorem"; it may call it at other times too.  A call that has      *)
(* begun goes on as far as the data there are let it.                      *)
(***************************************************************************)
Notified == arrived > taken \/ closed
Fairness == WF_vars(Notified /\ Begin) /\ WF_vars(Reading)
FairSpec == Spec /\ Fairness

-----------------------------------------------------------------------------
Packet(k) ==
  [header |-> Bytes(Before(stream, k), HeaderSize),
   body |-> Bytes(Before(stream, k) + HeaderSize, LengthOf(stream, k))]

(***************************************************************************)
(* However the stream is cut into reads and calls, gg_recv_packet()        *)
(* returns the packets of the server, whole, in order and each once: the   *)
(* saved halves of headers and bodies are put together again.              *)
(***************************************************************************)
Intact ==
  /\ Len(delivered) <= Len(stream)
  /\ \A k \in 1..Len(delivered) : delivered[k] = Packet(k)

(***************************************************************************)
(* Between two calls recv_left says whether recv_buf is a packet to be     *)
(* resumed: it is positive exactly when the session owns one, so no freed  *)
(* buffer is filled and none is forgotten, while the connection lasts.     *)
(***************************************************************************)
BufferOwned ==
  phase = "open" /\ pc = "idle" =>
    owner = (IF recvLeft > 0 THEN "session" ELSE "nobody")

(***************************************************************************)
(* A packet that has come, with no oversized one before it, is returned,   *)
(* or the client is told that the connection is broken.                    *)
(***************************************************************************)
PacketsDelivered ==
  \A s \in Streams : \A k \in 1..Len(s) :
    (stream = s /\ arrived >= s[k])
      ~> (Len(delivered) >= k \/ phase # "open")

\* gg_free_session() "zwalnia pamiec zajmowana przez sesje": also recv_buf.
FreeReleasesPacket == phase = "freed" => owner # "session"
=============================================================================
