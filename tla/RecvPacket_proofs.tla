-------------------------- MODULE RecvPacket_proofs --------------------------
(***************************************************************************)
(* Packets are returned whole, in order and each once, for streams of any  *)
(* length and packets of any size.  The inductive invariant says which     *)
(* positions of the stream the session holds between any two steps: they   *)
(* begin where the last packet returned ended, and end where gg_read()     *)
(* will go on.                                                             *)
(***************************************************************************)
EXTENDS RecvPacket, SequenceTheorems, WellFoundedInduction, TLAPS

\* Where the packet that is being read begins.
Start == Before(stream, Len(delivered) + 1)

\* h is the beginning of its header.
HeaderHeld(h) ==
  /\ Len(h) < HeaderSize
  /\ h = Bytes(Start, Len(h))
  /\ given = Start + Len(h)

\* buf has its header and done bytes of its body; left bytes are missing.
Filling(done, left) ==
  /\ Len(delivered) < Len(stream)
  /\ left > 0
  /\ done + left = LengthOf(stream, Len(delivered) + 1)
  /\ buf.header = Bytes(Start, HeaderSize)
  /\ Len(buf.body) = done + left
  /\ \A i \in 1..done : buf.body[i] = Start + HeaderSize + i
  /\ given = Start + HeaderSize + done

WaitsForHeader ==
  phase = "open" /\ pc = "idle" /\ recvLeft = 0 =>
    HeaderHeld(headerBuf) /\ owner = "nobody"

WaitsForBody ==
  phase = "open" /\ pc = "idle" /\ recvLeft > 0 =>
    Filling(recvDone, recvLeft) /\ headerBuf = <<>> /\ owner = "session"

ReadsHeader ==
  phase = "open" /\ pc = "header" =>
    HeaderHeld(header) /\ headerBuf = <<>> /\ recvLeft = 0 /\ owner = "nobody"

ReadsBody ==
  phase = "open" /\ pc = "body" =>
    Filling(offset, size) /\ headerBuf = <<>>

RecvInv ==
  /\ TypeOK
  /\ arrived <= Total
  /\ Intact
  /\ WaitsForHeader /\ WaitsForBody /\ ReadsHeader /\ ReadsBody

-----------------------------------------------------------------------------
(***************************************************************************)
(* The positions of a stream.                                              *)
(***************************************************************************)
\* n bytes from a position on are a sequence of n positions.
LEMMA BytesAre ==
  ASSUME NEW from \in Nat, NEW n \in Nat
  PROVE  /\ Bytes(from, n) \in Seq(Nat)
         /\ Len(Bytes(from, n)) = n
         /\ \A i \in 1..n : Bytes(from, n)[i] = from + i
<1>1. \A i \in 1..n : from + i \in Nat
  OBVIOUS
<1> QED
  BY <1>1 DEF Bytes

\* Two runs of bytes that meet are one run.
LEMMA BytesJoin ==
  ASSUME NEW from \in Nat, NEW m \in Nat, NEW n \in Nat
  PROVE  Bytes(from, m) \o Bytes(from + m, n) = Bytes(from, m + n)
<1> DEFINE a == Bytes(from, m)
           b == Bytes(from + m, n)
           c == Bytes(from, m + n)
<1>1. a \in Seq(Nat) /\ Len(a) = m /\ \A i \in 1..m : a[i] = from + i
  BY BytesAre
<1>2. b \in Seq(Nat) /\ Len(b) = n /\ \A i \in 1..n : b[i] = from + m + i
  BY BytesAre, from + m \in Nat
<1>3. c \in Seq(Nat) /\ Len(c) = m + n /\ \A i \in 1..(m + n) : c[i] = from + i
  BY BytesAre, m + n \in Nat
<1> HIDE DEF a, b, c
<1>4. a \o b \in Seq(Nat) /\ Len(a \o b) = m + n
  BY <1>1, <1>2, ConcatProperties
<1>5. ASSUME NEW i \in 1..(m + n)
      PROVE  (a \o b)[i] = c[i]
  <2>1. CASE i <= m
    BY <2>1, <1>1, <1>2, <1>3, ConcatProperties
  <2>2. CASE i > m
    <3>1. (a \o b)[i] = b[i - m] /\ i - m \in 1..n
      BY <2>2, <1>1, <1>2, ConcatProperties
    <3>2. b[i - m] = from + m + (i - m)
      BY <3>1, <1>2
    <3> QED
      BY <3>1, <3>2, <1>3
  <2>3. i <= m \/ i > m
    OBVIOUS
  <2> QED
    BY <2>1, <2>2, <2>3, Zenon
<1>6. a \o b = c
  BY <1>3, <1>4, <1>5, SeqEqual
<1> QED
  BY <1>6 DEF a, b, c

\* Each packet ends behind the headers of all packets before it: the first one of
\* which that were wrong would end before the packet in front of it.
LEMMA EndsGrow ==
  ASSUME stream \in Streams, NEW j \in 1..Len(stream), NEW k \in j..Len(stream)
  PROVE  stream[k] >= Before(stream, j) + HeaderSize
<1>1. /\ stream \in Seq(Nat) /\ HeaderSize \in Nat \ {0} /\ Len(stream) \in Nat
      /\ \A i \in 1..Len(stream) : stream[i] >= Before(stream, i) + HeaderSize
  BY StreamsAssumption, SizesAssumption
<1>2. \A i \in 1..Len(stream) : stream[i] \in Nat /\ Before(stream, i) \in Nat
  BY <1>1 DEF Before
<1> DEFINE bound == Before(stream, j) + HeaderSize
           Wrong == {i \in j..Len(stream) : stream[i] < bound}
<1>3. bound \in Nat
  BY <1>1, <1>2
<1> HIDE DEF bound
<1>4. ASSUME Wrong # {} PROVE FALSE
  <2> DEFINE R == OpToRel(<, Nat)
  <2>1. IsWellFoundedOn(R, Nat)
    BY NatLessThanWellFounded
  <2> HIDE DEF R
  <2>2. \A x, y \in Nat : <<y, x>> \in R <=> y < x
    BY DEF R, OpToRel
  <2>3. Wrong \subseteq Nat
    BY <1>1
  <2> HIDE DEF Wrong
  <2>4. PICK m \in Wrong : \A y \in Wrong : ~ (<<y, m>> \in R)
    BY <1>4, <2>1, <2>3, WFMin
  <2>5. m \in j..Len(stream) /\ m \in 1..Len(stream) /\ stream[m] < bound
    BY <1>1 DEF Wrong
  <2>6. m # j
    BY <1>1, <1>2, <2>5 DEF bound
  <2> DEFINE n == m - 1
  <2>7. n \in j..Len(stream) /\ n \in 1..Len(stream) /\ n < m /\ m # 1
    BY <1>1, <2>5, <2>6
  <2>8. Before(stream, m) = stream[n]
    BY <2>7 DEF Before
  <2> HIDE DEF n
  <2>9. stream[n] < bound
    <3>1. stream[m] >= stream[n] + HeaderSize
      BY <1>1, <2>5, <2>8
    <3>2. stream[n] \in Nat /\ stream[m] \in Nat
      BY <1>2, <2>5, <2>7
    <3> QED
      BY <1>1, <1>3, <2>5, <3>1, <3>2
  <2>10. n \in Wrong
    BY <2>7, <2>9 DEF Wrong
  <2>11. n \in Nat /\ m \in Nat
    BY <2>3, <2>10
  <2> QED
    BY <2>2, <2>4, <2>7, <2>10, <2>11
<1>5. ~(stream[k] < bound)
  BY <1>4
<1>6. k \in 1..Len(stream)
  BY <1>1
<1> QED
  BY <1>2, <1>3, <1>5, <1>6 DEF bound

\* A header tells which packet of the stream it begins.
LEMMA LengthKnown ==
  ASSUME stream \in Streams, NEW k \in 1..Len(stream)
  PROVE  LengthsIn(Bytes(Before(stream, k), HeaderSize))
           = {LengthOf(stream, k)}
<1>1. stream \in Seq(Nat) /\ HeaderSize \in Nat \ {0}
  BY StreamsAssumption, SizesAssumption
<1>2. \A j \in 1..Len(stream) : Before(stream, j) \in Nat
  BY <1>1 DEF Before
<1>3. ASSUME NEW i \in 1..Len(stream), NEW j \in 1..Len(stream), i < j
      PROVE  Before(stream, i) < Before(stream, j)
  <2>1. j - 1 \in 1..Len(stream) /\ i \in 1..(j - 1) /\ j # 1
    BY <1>1, <1>3
  <2>2. stream[j - 1] >= Before(stream, i) + HeaderSize
    <3>1. j - 1 \in i..Len(stream)
      BY <1>1, <1>3
    <3> QED
      BY <3>1, EndsGrow
  <2>3. Before(stream, j) = stream[j - 1]
    BY <2>1 DEF Before
  <2> QED
    BY <2>2, <2>3, <1>1, <1>2
<1>4. ASSUME NEW j \in 1..Len(stream),
             Bytes(Before(stream, k), HeaderSize)
               = Bytes(Before(stream, j), HeaderSize)
      PROVE  j = k
  <2>1. 1 \in 1..HeaderSize
    BY <1>1
  <2>2. Before(stream, k) + 1 = Before(stream, j) + 1
    <3>1. Bytes(Before(stream, k), HeaderSize)[1] = Before(stream, k) + 1
      BY <2>1, <1>1, <1>2, BytesAre
    <3>2. Bytes(Before(stream, j), HeaderSize)[1] = Before(stream, j) + 1
      BY <2>1, <1>1, <1>2, BytesAre
    <3> QED
      BY <3>1, <3>2, <1>4
  <2>3. Before(stream, k) = Before(stream, j)
    BY <2>2, <1>2
  <2> QED
    BY <2>3, <1>1, <1>2, <1>3
<1> DEFINE packets ==
      {j \in 1..Len(stream) : Bytes(Before(stream, k), HeaderSize)
                                = Bytes(Before(stream, j), HeaderSize)}
<1>5. packets = {k}
  BY <1>4
<1>6. {LengthOf(stream, j) : j \in packets} = {LengthOf(stream, k)}
  BY <1>5
<1> QED
  BY <1>5, <1>6 DEF LengthsIn

\* A packet of a stream has a header and a body of some length.
LEMMA StreamPositions ==
  ASSUME stream \in Streams
  PROVE  /\ stream \in Seq(Nat)
         /\ Total \in Nat
         /\ \A k \in 1..(Len(stream) + 1) : Before(stream, k) \in Nat
         /\ \A k \in 1..Len(stream) :
              /\ LengthOf(stream, k) \in Nat
              /\ stream[k] = Before(stream, k) + HeaderSize
                                                + LengthOf(stream, k)
<1>1. stream \in Seq(Nat) /\ HeaderSize \in Nat \ {0}
  BY StreamsAssumption, SizesAssumption
<1>2. Total \in Nat
  <2>1. CASE stream = <<>>
    BY <2>1 DEF Total
  <2>2. CASE stream # <<>>
    <3>1. Len(stream) \in 1..Len(stream)
      BY <1>1, <2>2, EmptySeq
    <3>2. stream[Len(stream)] \in Nat
      BY <1>1, <3>1, ElementOfSeq
    <3> QED
      BY <3>2, <2>2 DEF Total
  <2> QED
    BY <2>1, <2>2
<1>3. ASSUME NEW k \in 1..(Len(stream) + 1)
      PROVE  Before(stream, k) \in Nat
  <2>1. k = 1 \/ k - 1 \in 1..Len(stream)
    BY <1>1
  <2> QED
    BY <2>1, <1>1, ElementOfSeq DEF Before
<1>4. ASSUME NEW k \in 1..Len(stream)
      PROVE  /\ LengthOf(stream, k) \in Nat
             /\ stream[k] = Before(stream, k) + HeaderSize
                                               + LengthOf(stream, k)
  <2>1. stream[k] \in Nat /\ Before(stream, k) \in Nat
    BY <1>1, <1>3, ElementOfSeq
  <2>2. stream[k] >= Before(stream, k) + HeaderSize
    BY StreamsAssumption
  <2> QED
    BY <2>1, <2>2, <1>1 DEF LengthOf
<1> QED
  BY <1>1, <1>2, <1>3, <1>4

-----------------------------------------------------------------------------
(***************************************************************************)
(* Types.                                                                  *)
(***************************************************************************)
Packets == [header : Seq(Nat), body : Seq(Nat)]

\* A read returns bytes that are there, and not more than it was asked for.
LEMMA ReadTypes ==
  ASSUME TypeOK, NEW want \in Nat, NEW n, Read(n, want)
  PROVE  /\ n \in Nat /\ n \in 1..want
         /\ given' \in Nat /\ taken' \in Nat
         /\ given' = given + n
         /\ given' <= taken' /\ taken' <= arrived
  BY DEF TypeOK, Read

\* The length field of a header is a number.
LEMMA LengthTypes ==
  ASSUME stream \in Streams, NEW h, NEW length \in LengthsIn(h)
  PROVE  length \in Nat
<1>1. \A k \in 1..Len(stream) : LengthOf(stream, k) \in Nat
  BY StreamPositions
<1> DEFINE packets ==
      {k \in 1..Len(stream) : h = Bytes(Before(stream, k), HeaderSize)}
<1>2. CASE packets = {}
  BY <1>2, SizesAssumption DEF LengthsIn
<1>3. CASE packets # {}
  <2>1. length \in {LengthOf(stream, k) : k \in packets}
    BY <1>3 DEF LengthsIn
  <2> QED
    BY <2>1, <1>1
<1> QED
  BY <1>2, <1>3

\* A buffer some of whose bytes are stored is a packet still.
LEMMA FilledTypes ==
  ASSUME TypeOK, NEW n \in Nat
  PROVE  /\ Filled(n) \in Packets
         /\ Filled(n).header = buf.header
         /\ Len(Filled(n).body) = Len(buf.body)
         /\ \A i \in 1..Len(buf.body) :
              Filled(n).body[i] =
                IF i \in (offset + 1)..(offset + n) THEN given + i - offset
                ELSE buf.body[i]
<1>1. /\ buf \in Packets
      /\ buf.body \in Seq(Nat) /\ buf.header \in Seq(Nat)
      /\ offset \in Nat /\ given \in Nat
  BY DEF TypeOK, Packets
<1> DEFINE e(i) == IF i \in (offset + 1)..(offset + n)
                   THEN given + i - offset ELSE buf.body[i]
           body == [i \in 1..Len(buf.body) |-> e(i)]
<1>2. ASSUME NEW i \in 1..Len(buf.body)
      PROVE  e(i) \in Nat
  <2>1. buf.body[i] \in Nat
    BY <1>1, ElementOfSeq
  <2> QED
    BY <2>1, <1>1
<1>3. body \in Seq(Nat) /\ Len(body) = Len(buf.body)
  <2>1. Len(buf.body) \in Nat
    BY <1>1
  <2> HIDE DEF e
  <2> QED
    BY <2>1, <1>2
<1>4. DOMAIN buf.body = 1..Len(buf.body)
  BY <1>1
<1>5. Filled(n) = [buf EXCEPT !.body = body]
  BY <1>4 DEF Filled
<1>6. Filled(n) \in Packets /\ Filled(n).header = buf.header
                            /\ Filled(n).body = body
  <2> HIDE DEF body
  <2> QED
    BY <1>1, <1>3, <1>5 DEF Packets
<1> QED
  BY <1>3, <1>6

LEMMA InitTypes == Init => TypeOK
<1> SUFFICES ASSUME Init PROVE TypeOK
  OBVIOUS
<1>1. <<>> \in Seq(Nat) /\ <<>> \in Seq(Packets)
  BY EmptySeq
<1>2. NoPacket \in Packets
  BY <1>1 DEF NoPacket, Packets
<1>3. /\ buf \in Packets /\ delivered \in Seq(Packets)
      /\ header \in Seq(Nat) /\ headerBuf \in Seq(Nat)
  BY <1>1, <1>2 DEF Init
<1>4. /\ arrived = 0 /\ taken = 0 /\ given = 0
      /\ offset = 0 /\ size = 0 /\ recvLeft = 0 /\ recvDone = 0
      /\ phase = "open" /\ pc = "idle" /\ owner = "nobody"
      /\ stream \in Streams
  BY DEF Init
<1>5. closed \in BOOLEAN
  BY Zenon DEF Init
<1> QED
  BY <1>3, <1>4, <1>5 DEF TypeOK, Packets

\* A packet that is returned is added to those returned before.
LEMMA DeliverTypes ==
  ASSUME TypeOK, NEW packet \in Packets, Deliver(packet)
  PROVE  /\ delivered' \in Seq(Packets)
         /\ pc' = "idle" /\ buf' \in Packets /\ owner' = "nobody"
         /\ recvLeft' = 0
<1>1. delivered \in Seq(Packets)
  BY DEF TypeOK, Packets
<1>2. Append(delivered, packet) \in Seq(Packets)
  BY <1>1, AppendProperties
<1>3. NoPacket \in Packets
  BY EmptySeq DEF NoPacket, Packets
<1> QED
  BY <1>2, <1>3 DEF Deliver

LEMMA TypesKept == TypeOK /\ [Next]_vars => TypeOK'
<1> SUFFICES ASSUME TypeOK, [Next]_vars PROVE TypeOK'
  OBVIOUS
<1> USE DEF Packets
<1>0. stream \in Streams /\ Total \in Nat
  BY StreamPositions DEF TypeOK
<1>1. CASE Arrive
  BY <1>0, <1>1 DEF Arrive, TypeOK, call, session
<1>2. CASE Close
  BY <1>2 DEF Close, TypeOK, call, session
<1>3. CASE Begin
  BY <1>3, EmptySeq DEF Begin, TypeOK, network
<1>4. CASE ReadHeaderPart
  <2>1. PICK n \in 1..HeaderSize :
          /\ n < HeaderSize - Len(header)
          /\ Read(n, HeaderSize - Len(header))
          /\ header' = header \o Bytes(given, n)
    BY <1>4 DEF ReadHeaderPart
  <2>2. HeaderSize - Len(header) \in Nat
    BY <2>1, SizesAssumption DEF TypeOK
  <2>3. given' \in Nat /\ taken' \in Nat /\ given' <= taken' /\ taken' <= arrived
    BY <2>1, <2>2, ReadTypes
  <2>4. header' \in Seq(Nat)
    BY <2>1, BytesAre, ConcatProperties DEF TypeOK
  <2> QED
    BY <1>4, <2>3, <2>4 DEF ReadHeaderPart, TypeOK, network, session
<1>5. CASE ReadHeader
  <2> DEFINE want == HeaderSize - Len(header)
  <2>1. want \in Nat
    BY <1>5, SizesAssumption DEF ReadHeader, Read, TypeOK
  <2>2. given' \in Nat /\ taken' \in Nat /\ given' <= taken' /\ taken' <= arrived
    BY <1>5, <2>1, ReadTypes DEF ReadHeader
  <2>3. header' \in Seq(Nat)
    BY <1>5, <2>1, BytesAre, ConcatProperties DEF ReadHeader, TypeOK
  <2>4. PICK length \in LengthsIn(header') :
          LET packet == [header |-> header', body |-> [i \in 1..length |-> 0]]
          IN \/ /\ length > Limit
                /\ phase' = "broken" /\ pc' = "idle"
                /\ UNCHANGED <<offset, size, recvLeft, buf, owner, delivered>>
             \/ /\ length = 0
                /\ Deliver(packet)
                /\ offset' = 0 /\ size' = 0
                /\ UNCHANGED phase
             \/ /\ length \in 1..Limit
                /\ pc' = "body"
                /\ buf' = packet /\ owner' = "call"
                /\ offset' = 0 /\ size' = length
                /\ UNCHANGED <<phase, recvLeft, delivered>>
    BY <1>5 DEF ReadHeader
  <2>5. length \in Nat
    BY <1>0, LengthTypes
  <2> DEFINE packet == [header |-> header', body |-> [i \in 1..length |-> 0]]
  <2>6. packet \in Packets
    <3>1. [i \in 1..length |-> 0] \in Seq(Nat)
      BY <2>5
    <3> QED
      BY <2>3, <3>1
  <2> HIDE DEF packet, want
  <2>7. /\ phase' \in {"open", "broken", "freed"}
        /\ pc' \in {"idle", "header", "body"}
        /\ offset' \in Nat /\ size' \in Nat /\ recvLeft' \in Nat
        /\ buf' \in Packets
        /\ owner' \in {"nobody", "call", "session", "lost"}
        /\ delivered' \in Seq(Packets)
    <3>1. CASE length > Limit /\ phase' = "broken" /\ pc' = "idle"
               /\ UNCHANGED <<offset, size, recvLeft, buf, owner, delivered>>
      BY <3>1 DEF TypeOK
    <3>2. CASE Deliver(packet) /\ offset' = 0 /\ size' = 0 /\ UNCHANGED phase
      BY <3>2, <2>6, DeliverTypes DEF TypeOK
    <3>3. CASE /\ pc' = "body" /\ buf' = packet /\ owner' = "call"
               /\ offset' = 0 /\ size' = length
               /\ UNCHANGED <<phase, recvLeft, delivered>>
      BY <3>3, <2>5, <2>6 DEF TypeOK
    <3> QED
      BY <2>4, <3>1, <3>2, <3>3 DEF packet
  <2> QED
    BY <1>5, <2>2, <2>3, <2>7 DEF ReadHeader, TypeOK, network
<1>6. CASE ReadBody
  <2>1. PICK n \in 1..size :
          /\ Read(n, size)
          /\ offset' = offset + n
          /\ size' = size - n
          /\ IF n = size
             THEN Deliver(Filled(n))
             ELSE buf' = Filled(n) /\ UNCHANGED <<pc, owner, recvLeft, delivered>>
    BY <1>6 DEF ReadBody
  <2>2. given' \in Nat /\ taken' \in Nat /\ given' <= taken' /\ taken' <= arrived
    BY <2>1, ReadTypes DEF TypeOK
  <2>3. n \in Nat /\ offset' \in Nat /\ size' \in Nat
    BY <2>1 DEF TypeOK
  <2>4. Filled(n) \in Packets
    BY <2>3, FilledTypes
  <2>5. /\ pc' \in {"idle", "header", "body"} /\ recvLeft' \in Nat
        /\ buf' \in Packets
        /\ owner' \in {"nobody", "call", "session", "lost"}
        /\ delivered' \in Seq(Packets)
    <3>1. CASE n = size
      BY <2>1, <2>4, <3>1, DeliverTypes
    <3>2. CASE n # size
      BY <2>1, <2>4, <3>2 DEF TypeOK
    <3> QED
      BY <3>1, <3>2
  <2> QED
    BY <1>6, <2>2, <2>3, <2>5 DEF ReadBody, TypeOK, network
<1>7. CASE HeaderAgain
  BY <1>7 DEF HeaderAgain, TypeOK, network, call
<1>8. CASE BodyAgain
  BY <1>8 DEF BodyAgain, TypeOK, network, call
<1>9. CASE EndOfStream
  BY <1>9 DEF EndOfStream, TypeOK, network, call, session
<1>10. CASE ReadFails
  <2>1. NoPacket \in Packets
    BY EmptySeq DEF NoPacket
  <2> QED
    BY <1>10, <2>1 DEF ReadFails, TypeOK, network, call, session
<1>11. CASE Free
  BY <1>11, EmptySeq DEF Free, TypeOK, network, call
<1>12. CASE UNCHANGED vars
  BY <1>12 DEF vars, TypeOK, network, call, session
<1> QED
  BY <1>1, <1>2, <1>3, <1>4, <1>5, <1>6, <1>7, <1>8, <1>9, <1>10, <1>11,
     <1>12 DEF Next, Reading, Over

-----------------------------------------------------------------------------
(***************************************************************************)
(* What the session holds.                                                 *)
(***************************************************************************)
\* The packet that is being read begins where the last one returned ended.
LEMMA StartIs ==
  ASSUME RecvInv
  PROVE  /\ HeaderSize \in Nat \ {0}
         /\ stream \in Streams /\ stream \in Seq(Nat) /\ Total \in Nat
         /\ Len(stream) \in Nat
         /\ delivered \in Seq(Packets)
         /\ Len(delivered) \in Nat /\ Len(delivered) <= Len(stream)
         /\ Start \in Nat
         /\ given \in Nat /\ given <= Total
         /\ Len(delivered) = Len(stream) => Start = Total
<1>1. HeaderSize \in Nat \ {0}
  BY SizesAssumption
<1>2. stream \in Streams /\ delivered \in Seq(Packets)
  BY DEF RecvInv, TypeOK, Packets
<1>3. stream \in Seq(Nat) /\ Total \in Nat
  BY <1>2, StreamPositions
<1>4. Len(stream) \in Nat /\ Len(delivered) \in Nat
  BY <1>2, <1>3
<1>5. Len(delivered) <= Len(stream)
  BY DEF RecvInv, Intact
<1>6. Start \in Nat
  <2>1. Len(delivered) + 1 \in 1..(Len(stream) + 1)
    BY <1>4, <1>5
  <2> QED
    BY <2>1, <1>2, StreamPositions DEF Start
<1>7. given \in Nat /\ given <= Total
  BY <1>3 DEF RecvInv, TypeOK
<1>8. ASSUME Len(delivered) = Len(stream)
      PROVE  Start = Total
  <2>1. CASE stream = <<>>
    BY <1>8, <2>1, EmptySeq DEF Start, Before, Total
  <2>2. CASE stream # <<>>
    <3>1. Len(stream) # 0
      BY <2>2, <1>3, EmptySeq
    <3> QED
      BY <3>1, <2>2, <1>4, <1>8 DEF Start, Before, Total
  <2> QED
    BY <2>1, <2>2
<1> QED
  BY <1>1, <1>2, <1>3, <1>4, <1>5, <1>6, <1>7, <1>8

\* As long as something is missing of a header or a body there is a packet.
LEMMA PacketGoesOn ==
  ASSUME RecvInv, Len(delivered) < Len(stream)
  PROVE  LET k == Len(delivered) + 1
         IN  /\ k \in 1..Len(stream)
             /\ Start = Before(stream, k)
             /\ LengthOf(stream, k) \in Nat
             /\ stream[k] = Start + HeaderSize + LengthOf(stream, k)
             /\ Before(stream, k + 1) = stream[k]
<1> DEFINE k == Len(delivered) + 1
<1>1. k \in 1..Len(stream)
  BY StartIs
<1>2. Before(stream, k + 1) = stream[k]
  BY <1>1 DEF Before
<1> QED
  BY <1>1, <1>2, StartIs, StreamPositions DEF Start

(***************************************************************************)
(* Steps that change neither the packets nor what is held of them.         *)
(***************************************************************************)
LEMMA NothingRead ==
  ASSUME RecvInv, TypeOK',
         UNCHANGED <<stream, given, phase, pc, call, session, buf, owner,
                     delivered>>,
         arrived' <= Total
  PROVE  RecvInv'
  BY DEF RecvInv, Intact, Packet, Total, WaitsForHeader, WaitsForBody,
         ReadsHeader, ReadsBody, HeaderHeld, Filling, Start, call, session

\* A connection that is broken or freed has nothing to keep.
LEMMA GoneInv ==
  ASSUME RecvInv, TypeOK', phase' # "open",
         UNCHANGED <<stream, arrived, delivered>>
  PROVE  RecvInv'
  BY DEF RecvInv, Intact, Packet, Total, WaitsForHeader, WaitsForBody,
         ReadsHeader, ReadsBody

LEMMA InitInv == Init => RecvInv
<1> SUFFICES ASSUME Init PROVE RecvInv
  OBVIOUS
<1>1. TypeOK
  BY InitTypes
<1>2. HeaderSize \in Nat \ {0} /\ Total \in Nat /\ Len(stream) \in Nat
  BY <1>1, SizesAssumption, StreamPositions DEF TypeOK
<1>3. Start = 0 /\ Len(delivered) = 0
  BY DEF Init, Start, Before
<1>4. Bytes(0, 0) = <<>>
  BY DEF Bytes
<1> QED
  BY <1>1, <1>2, <1>3, <1>4
     DEF Init, RecvInv, Intact, WaitsForHeader, WaitsForBody, ReadsHeader,
         ReadsBody, HeaderHeld

LEMMA BeginInv == RecvInv /\ TypeOK' /\ Begin => RecvInv'
<1> SUFFICES ASSUME RecvInv, TypeOK', Begin PROVE RecvInv'
  OBVIOUS
<1>1. /\ UNCHANGED <<stream, arrived, given, phase, recvLeft, recvDone, buf,
                     owner, delivered>>
      /\ phase = "open" /\ pc = "idle"
  BY DEF Begin, network
<1>2. Start' = Start /\ Intact' /\ arrived' <= Total'
  BY <1>1 DEF RecvInv, Intact, Packet, Start, Total
<1>3. recvLeft \in Nat
  BY DEF RecvInv, TypeOK
<1>4. CASE recvLeft < 1
  <2>1. pc' = "header" /\ header' = headerBuf /\ headerBuf' = <<>>
    BY <1>4 DEF Begin
  <2>2. HeaderHeld(headerBuf) /\ owner = "nobody" /\ recvLeft = 0
    BY <1>1, <1>3, <1>4 DEF RecvInv, WaitsForHeader
  <2> QED
    BY <1>1, <1>2, <2>1, <2>2
       DEF RecvInv, WaitsForHeader, WaitsForBody, ReadsHeader, ReadsBody,
           HeaderHeld
<1>5. CASE ~(recvLeft < 1)
  <2>1. pc' = "body" /\ size' = recvLeft /\ offset' = recvDone
                     /\ headerBuf' = headerBuf
    BY <1>5 DEF Begin
  <2>2. Filling(recvDone, recvLeft) /\ headerBuf = <<>>
    BY <1>1, <1>3, <1>5 DEF RecvInv, WaitsForBody
  <2>3. Filling(offset, size)'
    BY <1>1, <1>2, <2>1, <2>2 DEF Filling
  <2> QED
    BY <1>1, <1>2, <2>1, <2>2, <2>3
       DEF RecvInv, WaitsForHeader, WaitsForBody, ReadsHeader, ReadsBody
<1> QED
  BY <1>4, <1>5

\* gg_recv_packet() gives up for now and keeps what there is of a header.
LEMMA HeaderAgainInv == RecvInv /\ TypeOK' /\ HeaderAgain => RecvInv'
<1> SUFFICES ASSUME RecvInv, TypeOK', HeaderAgain PROVE RecvInv'
  OBVIOUS
<1>1. /\ UNCHANGED <<stream, arrived, given, phase, recvLeft, buf, owner,
                     delivered>>
      /\ phase = "open" /\ pc = "header" /\ pc' = "idle" /\ headerBuf' = header
  BY DEF HeaderAgain, network
<1>2. Start' = Start /\ Intact' /\ arrived' <= Total'
  BY <1>1 DEF RecvInv, Intact, Packet, Start, Total
<1>3. HeaderHeld(header) /\ recvLeft = 0 /\ owner = "nobody"
  BY <1>1 DEF RecvInv, ReadsHeader
<1> QED
  BY <1>1, <1>2, <1>3
     DEF RecvInv, WaitsForHeader, WaitsForBody, ReadsHeader, ReadsBody,
         HeaderHeld

\* The same, in the middle of a body.
LEMMA BodyAgainInv == RecvInv /\ TypeOK' /\ BodyAgain => RecvInv'
<1> SUFFICES ASSUME RecvInv, TypeOK', BodyAgain PROVE RecvInv'
  OBVIOUS
<1>1. /\ UNCHANGED <<stream, arrived, given, phase, headerBuf, buf, delivered>>
      /\ phase = "open" /\ pc = "body" /\ pc' = "idle"
      /\ recvLeft' = size /\ recvDone' = offset /\ owner' = "session"
  BY DEF BodyAgain, network
<1>2. Start' = Start /\ Intact' /\ arrived' <= Total'
  BY <1>1 DEF RecvInv, Intact, Packet, Start, Total
<1>3. Filling(offset, size) /\ headerBuf = <<>>
  BY <1>1 DEF RecvInv, ReadsBody
<1>4. Filling(recvDone, recvLeft)'
  BY <1>1, <1>2, <1>3 DEF Filling
<1>5. recvLeft' > 0 /\ recvLeft' # 0
  BY <1>1, <1>3 DEF Filling, RecvInv, TypeOK
<1> QED
  BY <1>1, <1>2, <1>3, <1>4, <1>5
     DEF RecvInv, WaitsForHeader, WaitsForBody, ReadsHeader, ReadsBody

\* More of a header is read, and not yet all of it.
LEMMA ReadHeaderPartInv == RecvInv /\ TypeOK' /\ ReadHeaderPart => RecvInv'
<1> SUFFICES ASSUME RecvInv, TypeOK', ReadHeaderPart PROVE RecvInv'
  OBVIOUS
<1>1. PICK n \in 1..HeaderSize :
        /\ n < HeaderSize - Len(header)
        /\ Read(n, HeaderSize - Len(header))
        /\ header' = header \o Bytes(given, n)
  BY DEF ReadHeaderPart
<1>2. /\ UNCHANGED <<stream, arrived, phase, pc, headerBuf, recvLeft, buf,
                     owner, delivered>>
      /\ phase = "open" /\ pc = "header"
  BY DEF ReadHeaderPart, network, session
<1>3. Start' = Start /\ Intact' /\ arrived' <= Total'
  BY <1>2 DEF RecvInv, Intact, Packet, Start, Total
<1>4. /\ HeaderHeld(header) /\ headerBuf = <<>> /\ recvLeft = 0
      /\ owner = "nobody"
  BY <1>2 DEF RecvInv, ReadsHeader
<1>5. /\ HeaderSize \in Nat /\ n \in Nat /\ Start \in Nat
      /\ Len(header) \in Nat /\ given' = given + n
  <2>1. HeaderSize \in Nat /\ Start \in Nat
    BY StartIs
  <2>2. Len(header) \in Nat
    BY DEF RecvInv, TypeOK
  <2>3. given' = given + n
    BY <1>1 DEF Read
  <2> QED
    BY <2>1, <2>2, <2>3
<1>6. header' = Bytes(Start, Len(header) + n)
  <2>1. Bytes(Start, Len(header)) \o Bytes(Start + Len(header), n)
          = Bytes(Start, Len(header) + n)
    BY <1>5, BytesJoin
  <2>2. header = Bytes(Start, Len(header)) /\ given = Start + Len(header)
    BY <1>4 DEF HeaderHeld
  <2> QED
    BY <1>1, <2>1, <2>2, Zenon
<1>7. Len(header') = Len(header) + n
  <2>1. Len(header) + n \in Nat
    BY <1>5
  <2> QED
    BY <1>5, <1>6, <2>1, BytesAre
<1>8. HeaderHeld(header)'
  <2>1. Len(header') < HeaderSize
    BY <1>1, <1>5, <1>7
  <2>2. header' = Bytes(Start', Len(header'))
    BY <1>3, <1>6, <1>7, Zenon
  <2>3. given' = Start' + Len(header')
    BY <1>3, <1>4, <1>5, <1>7 DEF HeaderHeld
  <2> QED
    BY <2>1, <2>2, <2>3, Zenon DEF HeaderHeld
<1> QED
  BY <1>2, <1>3, <1>4, <1>8
     DEF RecvInv, WaitsForHeader, WaitsForBody, ReadsHeader, ReadsBody

\* The packet that is returned is the next one of the stream.
LEMMA DeliverInv ==
  ASSUME RecvInv, TypeOK', NEW packet,
         Len(delivered) < Len(stream), packet = Packet(Len(delivered) + 1),
         Deliver(packet),
         UNCHANGED <<stream, arrived, headerBuf>>, headerBuf = <<>>,
         given' = stream[Len(delivered) + 1]
  PROVE  RecvInv'
<1> DEFINE k == Len(delivered) + 1
<1>1. /\ delivered' = Append(delivered, packet) /\ pc' = "idle"
      /\ owner' = "nobody" /\ recvLeft' = 0
  BY DEF Deliver
<1>2. /\ k \in 1..Len(stream) /\ Before(stream, k + 1) = stream[k]
      /\ stream[k] \in Nat
  BY PacketGoesOn, StartIs, ElementOfSeq
<1>3. delivered \in Seq(Packets) /\ packet \in Packets
  <2>1. /\ Before(stream, k) \in Nat /\ HeaderSize \in Nat
        /\ LengthOf(stream, k) \in Nat
    BY StartIs, PacketGoesOn
  <2>2. Bytes(Before(stream, k), HeaderSize) \in Seq(Nat)
    BY <2>1, BytesAre
  <2>3. Before(stream, k) + HeaderSize \in Nat
    BY <2>1
  <2>4. Bytes(Before(stream, k) + HeaderSize, LengthOf(stream, k)) \in Seq(Nat)
    BY <2>1, <2>3, BytesAre
  <2> QED
    BY <2>2, <2>4, StartIs DEF Packet, Packets
<1>4. /\ Len(delivered') = k
      /\ \A i \in 1..Len(delivered) : delivered'[i] = delivered[i]
      /\ delivered'[k] = packet
  BY <1>1, <1>3, AppendProperties
<1>5. Intact'
  <2>1. Len(delivered') <= Len(stream')
    BY <1>2, <1>4
  <2>2. ASSUME NEW i \in 1..Len(delivered')
        PROVE  delivered'[i] = Packet(i)'
    <3>1. Packet(i)' = Packet(i)
      BY DEF Packet
    <3>2. CASE i = k
      BY <1>4, <3>1, <3>2
    <3>3. CASE i # k
      <4>1. i \in 1..Len(delivered)
        BY <1>4, <3>3, StartIs
      <4> QED
        BY <1>4, <3>1, <4>1 DEF RecvInv, Intact
    <3> QED
      BY <3>2, <3>3
  <2> QED
    BY <2>1, <2>2 DEF Intact
<1>6. Start' = given' /\ given' \in Nat
  BY <1>2, <1>4 DEF Start
<1>7. HeaderHeld(headerBuf)'
  <2>1. headerBuf' = <<>> /\ Len(headerBuf') = 0
    BY EmptySeq
  <2>2. Bytes(Start', 0) = <<>>
    BY <1>6 DEF Bytes
  <2> QED
    BY <1>6, <2>1, <2>2, StartIs DEF HeaderHeld
<1>8. arrived' <= Total'
  BY DEF RecvInv, Total
<1> QED
  BY <1>1, <1>5, <1>7, <1>8
     DEF RecvInv, WaitsForHeader, WaitsForBody, ReadsHeader, ReadsBody

\* The rest of a header is read: it is the next packet's, and says its length.
LEMMA ReadHeaderInv == RecvInv /\ TypeOK' /\ ReadHeader => RecvInv'
<1> SUFFICES ASSUME RecvInv, TypeOK', ReadHeader PROVE RecvInv'
  OBVIOUS
<1> DEFINE k == Len(delivered) + 1
           want == HeaderSize - Len(header)
<1>1. /\ UNCHANGED <<stream, arrived, headerBuf>>
      /\ phase = "open" /\ pc = "header"
      /\ Read(want, want)
      /\ header' = header \o Bytes(given, want)
  BY DEF ReadHeader, network
<1>2. /\ HeaderHeld(header) /\ headerBuf = <<>> /\ recvLeft = 0
      /\ owner = "nobody"
  BY <1>1 DEF RecvInv, ReadsHeader
<1>3. /\ HeaderSize \in Nat \ {0} /\ Start \in Nat /\ stream \in Streams
      /\ Len(header) \in Nat /\ want \in Nat /\ Len(header) + want = HeaderSize
  <2>1. HeaderSize \in Nat \ {0} /\ Start \in Nat /\ stream \in Streams
    BY StartIs
  <2>2. Len(header) \in Nat
    BY DEF RecvInv, TypeOK
  <2>3. Len(header) < HeaderSize
    BY <1>2 DEF HeaderHeld
  <2> QED
    BY <2>1, <2>2, <2>3
<1>4. header' = Bytes(Start, HeaderSize)
  <2>1. Bytes(Start, Len(header)) \o Bytes(Start + Len(header), want)
          = Bytes(Start, Len(header) + want)
    BY <1>3, BytesJoin
  <2>2. header = Bytes(Start, Len(header)) /\ given = Start + Len(header)
    BY <1>2 DEF HeaderHeld
  <2> HIDE DEF want
  <2> QED
    BY <1>1, <1>3, <2>1, <2>2, Zenon
<1>5. given' = Start + HeaderSize
  <2>1. given' = given + want
    BY <1>1 DEF Read
  <2> QED
    BY <2>1, <1>2, <1>3 DEF HeaderHeld
<1>6. Len(delivered) < Len(stream)
  <2>1. given' <= Total
    <3>1. /\ given' <= taken' /\ taken' <= arrived /\ taken' \in Nat
          /\ given' \in Nat /\ arrived \in Nat /\ arrived <= Total
      BY <1>1 DEF Read, RecvInv, TypeOK
    <3> QED
      BY <3>1, StartIs
  <2>2. Len(delivered) # Len(stream)
    BY <2>1, <1>3, <1>5, StartIs
  <2> QED
    BY <2>2, StartIs
<1>7. /\ k \in 1..Len(stream) /\ Start = Before(stream, k)
      /\ LengthOf(stream, k) \in Nat
      /\ stream[k] = Start + HeaderSize + LengthOf(stream, k)
  BY <1>6, PacketGoesOn
<1>8. LengthsIn(header') = {LengthOf(stream, k)}
  BY <1>3, <1>4, <1>7, LengthKnown
<1> DEFINE length == LengthOf(stream, k)
           packet == [header |-> header', body |-> [i \in 1..length |-> 0]]
<1>9. \/ /\ length > Limit
         /\ phase' = "broken"
         /\ UNCHANGED delivered
      \/ /\ length = 0
         /\ Deliver(packet)
      \/ /\ length \in 1..Limit
         /\ pc' = "body"
         /\ buf' = packet
         /\ offset' = 0 /\ size' = length
         /\ UNCHANGED <<phase, recvLeft, delivered>>
  BY <1>8 DEF ReadHeader
<1>10. CASE length > Limit /\ phase' = "broken" /\ UNCHANGED delivered
  BY <1>1, <1>10, GoneInv
<1>11. CASE length = 0 /\ Deliver(packet)
  <2>1. packet = Packet(k)
    <3>1. [i \in 1..length |-> 0] = Bytes(Before(stream, k) + HeaderSize, length)
      BY <1>11 DEF Bytes
    <3> QED
      BY <1>4, <1>7, <3>1 DEF Packet
  <2>2. given' = stream[k]
    BY <1>3, <1>5, <1>7, <1>11
  <2> QED
    BY <1>1, <1>2, <1>6, <1>11, <2>1, <2>2, DeliverInv
<1>12. CASE /\ length \in 1..Limit
            /\ pc' = "body"
            /\ buf' = packet
            /\ offset' = 0 /\ size' = length
            /\ UNCHANGED <<phase, recvLeft, delivered>>
  <2>1. Start' = Start /\ Intact' /\ arrived' <= Total'
    BY <1>1, <1>12 DEF RecvInv, Intact, Packet, Start, Total
  <2>2. Filling(offset, size)'
    <3>1. /\ Len(delivered') < Len(stream') /\ size' > 0
          /\ offset' + size' = LengthOf(stream', Len(delivered') + 1)
      BY <1>1, <1>6, <1>7, <1>12
    <3>2. buf'.header = Bytes(Start', HeaderSize)
      BY <1>4, <1>12, <2>1
    <3>3. Len(buf'.body) = offset' + size'
      BY <1>7, <1>12
    <3>4. \A i \in 1..offset' : buf'.body[i] = Start' + HeaderSize + i
      BY <1>12
    <3>5. given' = Start' + HeaderSize + offset'
      BY <1>3, <1>5, <1>12, <2>1
    <3> QED
      BY <3>1, <3>2, <3>3, <3>4, <3>5 DEF Filling
  <2> QED
    BY <1>1, <1>2, <1>12, <2>1, <2>2
       DEF RecvInv, WaitsForHeader, WaitsForBody, ReadsHeader, ReadsBody
<1> QED
  BY <1>9, <1>10, <1>11, <1>12

\* Bytes of a body are stored where they belong.
LEMMA ReadBodyInv == RecvInv /\ TypeOK' /\ ReadBody => RecvInv'
<1> SUFFICES ASSUME RecvInv, TypeOK', ReadBody PROVE RecvInv'
  OBVIOUS
<1> DEFINE k == Len(delivered) + 1
           base == Start + HeaderSize
<1>1. PICK n \in 1..size :
        /\ Read(n, size)
        /\ offset' = offset + n
        /\ size' = size - n
        /\ IF n = size
           THEN Deliver(Filled(n))
           ELSE buf' = Filled(n) /\ UNCHANGED <<pc, owner, recvLeft, delivered>>
  BY DEF ReadBody
<1>2. /\ UNCHANGED <<stream, arrived, phase, headerBuf>>
      /\ phase = "open" /\ pc = "body"
  BY DEF ReadBody, network
<1>3. Filling(offset, size) /\ headerBuf = <<>>
  BY <1>2 DEF RecvInv, ReadsBody
<1>4. /\ n \in Nat /\ offset \in Nat /\ size \in Nat /\ base \in Nat
      /\ n <= size /\ given = base + offset /\ given' = base + offset + n
  <2>1. offset \in Nat /\ size \in Nat
    BY DEF RecvInv, TypeOK
  <2>2. HeaderSize \in Nat /\ Start \in Nat
    BY StartIs
  <2>3. given' = given + n
    BY <1>1 DEF Read
  <2> QED
    BY <1>1, <1>3, <2>1, <2>2, <2>3 DEF Filling
<1>5. /\ k \in 1..Len(stream) /\ Start = Before(stream, k)
      /\ LengthOf(stream, k) \in Nat
      /\ stream[k] = base + LengthOf(stream, k)
      /\ Len(delivered) < Len(stream)
  BY <1>3, PacketGoesOn DEF Filling
<1>6. /\ Filled(n) \in Packets
      /\ Filled(n).header = Bytes(Start, HeaderSize)
      /\ Len(Filled(n).body) = offset + size
      /\ \A i \in 1..(offset + n) : Filled(n).body[i] = base + i
  <2>1. /\ Filled(n) \in Packets
        /\ Filled(n).header = buf.header
        /\ Len(Filled(n).body) = Len(buf.body)
        /\ \A i \in 1..Len(buf.body) :
             Filled(n).body[i] =
               IF i \in (offset + 1)..(offset + n) THEN given + i - offset
               ELSE buf.body[i]
    BY <1>4, FilledTypes DEF RecvInv
  <2>2. Len(buf.body) = offset + size /\ buf.header = Bytes(Start, HeaderSize)
    BY <1>3 DEF Filling
  <2>3. ASSUME NEW i \in 1..(offset + n)
        PROVE  Filled(n).body[i] = base + i
    <3>1. i \in 1..Len(buf.body)
      BY <1>4, <2>2
    <3>2. CASE i \in (offset + 1)..(offset + n)
      <4>1. Filled(n).body[i] = given + i - offset
        BY <2>1, <3>1, <3>2
      <4> QED
        BY <1>4, <4>1
    <3>3. CASE i \notin (offset + 1)..(offset + n)
      <4>1. Filled(n).body[i] = buf.body[i]
        BY <2>1, <3>1, <3>3
      <4>2. i \in 1..offset
        BY <1>4, <3>3
      <4> QED
        BY <1>3, <4>1, <4>2 DEF Filling
    <3> QED
      BY <3>2, <3>3
  <2> QED
    BY <2>1, <2>2, <2>3
<1>7. CASE n = size
  <2>1. offset + n = LengthOf(stream, k)
    BY <1>3, <1>7 DEF Filling
  <2>2. Filled(n) = Packet(k)
    <3>1. Filled(n).body = Bytes(base, LengthOf(stream, k))
      <4>1. /\ Bytes(base, LengthOf(stream, k)) \in Seq(Nat)
            /\ Len(Bytes(base, LengthOf(stream, k))) = LengthOf(stream, k)
            /\ \A i \in 1..LengthOf(stream, k) :
                 Bytes(base, LengthOf(stream, k))[i] = base + i
        BY <1>4, <1>5, BytesAre
      <4>2. Filled(n).body \in Seq(Nat)
        BY <1>6 DEF Packets
      <4>3. Len(Filled(n).body) = LengthOf(stream, k)
        BY <1>6, <1>7, <2>1
      <4>4. \A i \in 1..LengthOf(stream, k) : Filled(n).body[i] = base + i
        BY <1>6, <2>1
      <4> HIDE DEF base
      <4> QED
        BY <4>1, <4>2, <4>3, <4>4, SeqEqual
    <3> QED
      BY <1>5, <1>6, <3>1 DEF Packet, Packets
  <2>3. given' = stream[k]
    BY <1>4, <1>5, <2>1
  <2> QED
    BY <1>1, <1>2, <1>3, <1>5, <1>7, <2>2, <2>3, DeliverInv
<1>8. CASE n # size
  <2>1. buf' = Filled(n) /\ UNCHANGED <<pc, owner, recvLeft, delivered>>
    BY <1>1, <1>8
  <2>2. Start' = Start /\ Intact' /\ arrived' <= Total'
    BY <1>2, <2>1 DEF RecvInv, Intact, Packet, Start, Total
  <2>3. Filling(offset, size)'
    <3>1. /\ Len(delivered') < Len(stream') /\ size' > 0
          /\ offset' + size' = LengthOf(stream', Len(delivered') + 1)
      BY <1>1, <1>2, <1>3, <1>4, <1>8, <2>1 DEF Filling
    <3>2. buf'.header = Bytes(Start', HeaderSize)
      BY <1>6, <2>1, <2>2
    <3>3. Len(buf'.body) = offset' + size'
      <4>1. offset' + size' = offset + size
        BY <1>1, <1>4
      <4>2. Len(buf'.body) = offset + size
        BY <1>6, <2>1
      <4> QED
        BY <4>1, <4>2
    <3>4. \A i \in 1..offset' : buf'.body[i] = Start' + HeaderSize + i
      BY <1>1, <1>6, <2>1, <2>2
    <3>5. given' = Start' + HeaderSize + offset'
      BY <1>1, <1>4, <2>2
    <3> QED
      BY <3>1, <3>2, <3>3, <3>4, <3>5 DEF Filling
  <2> QED
    BY <1>2, <1>3, <2>1, <2>2, <2>3
       DEF RecvInv, WaitsForHeader, WaitsForBody, ReadsHeader, ReadsBody
<1> QED
  BY <1>7, <1>8

LEMMA InvKept == RecvInv /\ [Next]_vars => RecvInv'
<1> SUFFICES ASSUME RecvInv, [Next]_vars PROVE RecvInv'
  OBVIOUS
<1>0. TypeOK'
  BY TypesKept DEF RecvInv
<1>1. CASE Arrive
  <2>1. arrived' <= Total
    BY <1>1, StartIs DEF Arrive, RecvInv, TypeOK
  <2> QED
    BY <1>0, <1>1, <2>1, NothingRead DEF Arrive
<1>2. CASE Close
  BY <1>0, <1>2, NothingRead DEF Close, RecvInv
<1>3. CASE Begin
  BY <1>0, <1>3, BeginInv
<1>4. CASE ReadHeaderPart
  BY <1>0, <1>4, ReadHeaderPartInv
<1>5. CASE ReadHeader
  BY <1>0, <1>5, ReadHeaderInv
<1>6. CASE ReadBody
  BY <1>0, <1>6, ReadBodyInv
<1>7. CASE HeaderAgain
  BY <1>0, <1>7, HeaderAgainInv
<1>8. CASE BodyAgain
  BY <1>0, <1>8, BodyAgainInv
<1>9. CASE EndOfStream
  BY <1>0, <1>9, GoneInv DEF EndOfStream, network
<1>10. CASE ReadFails
  BY <1>0, <1>10, GoneInv DEF ReadFails, network
<1>11. CASE Free
  BY <1>0, <1>11, GoneInv DEF Free, network
<1>12. CASE UNCHANGED vars
  BY <1>0, <1>12, NothingRead DEF vars, network, RecvInv
<1> QED
  BY <1>1, <1>2, <1>3, <1>4, <1>5, <1>6, <1>7, <1>8, <1>9, <1>10, <1>11,
     <1>12 DEF Next, Reading, Over

-----------------------------------------------------------------------------
\* The variables of gg_recv_packet() keep their types, and no byte is returned
\* before it has arrived.
THEOREM TypeCorrect == Spec => []TypeOK
<1> QED
  BY InitTypes, TypesKept, PTL DEF Spec

LEMMA RecvInvariant == Spec => []RecvInv
<1> QED
  BY InitInv, InvKept, PTL DEF Spec

\* gg_recv_packet() returns the packets of the server whole, in order and each
\* once, however the stream is cut into reads and calls.
THEOREM PacketsIntact == Spec => []Intact
<1>1. RecvInv => Intact
  BY DEF RecvInv
<1> QED
  BY <1>1, RecvInvariant, PTL

\* recv_left is positive exactly when the session owns a packet to resume.
THEOREM BufferKept == Spec => []BufferOwned
<1>1. RecvInv => BufferOwned
  BY DEF RecvInv, BufferOwned, WaitsForHeader, WaitsForBody, TypeOK
<1> QED
  BY <1>1, RecvInvariant, PTL
=============================================================================
