----------------------------- MODULE Dcc_proofs -----------------------------
(***************************************************************************)
(* What is proved of a direct connection, for every length of chunks,      *)
(* buffers and frames and every set of files and offsets to resume at.     *)
(***************************************************************************)
EXTENDS Dcc, SequenceTheorems, TLAPS

Structs == [type : Types, state : States, check : {"READ", "WRITE"},
            fileFd : BOOLEAN, size : Nat, offset : Nat, chunkSize : Nat,
            chunkOffset : Nat, buf : Seq(Items)]

-----------------------------------------------------------------------------
(***************************************************************************)
(* What the operators return.                                              *)
(***************************************************************************)
LEMMA LeastOf ==
  ASSUME NEW a \in Int, NEW b \in Int
  PROVE  /\ Least({a, b}) \in {a, b}
         /\ Least({a, b}) <= a /\ Least({a, b}) <= b
<1>1. \E n \in {a, b} : \A k \in {a, b} : n <= k
  BY a <= b \/ b <= a
<1> QED
  BY <1>1 DEF Least

LEMMA OtherClient ==
  ASSUME NEW c \in Clients
  PROVE  Other(c) \in Clients /\ Other(c) # c /\ Other(Other(c)) = c
         /\ Clients = {c, Other(c)}
BY DEF Clients, Other

LEMMA NumberedItems ==
  ASSUME NEW q \in Seq(Items)
  PROVE  /\ Numbered(q) \in Seq(Nat) /\ Len(Numbered(q)) = Len(q)
         /\ \A i \in 1..Len(q) : Numbered(q)[i] = q[i].val
<1>1. DOMAIN q = 1..Len(q) /\ Len(q) \in Nat /\ \A i \in 1..Len(q) : q[i] \in Items
  BY LenProperties, ElementOfSeq
<1>2. Numbered(q) \in [1..Len(q) -> Nat] /\ \A i \in 1..Len(q) : Numbered(q)[i] = q[i].val
  BY <1>1 DEF Numbered, Items
<1>3. Numbered(q) \in Seq(Nat) /\ Len(Numbered(q)) = Len(q)
  BY <1>1, <1>2
<1> QED
  BY <1>2, <1>3

LEMMA ItemType ==
  ASSUME NEW kind \in {"uin", "ack", "small", "tiny", "info", "bigType",
                       "bigSize", "data", "voice"}, NEW val \in Nat
  PROVE  Item(kind, val) \in Items /\ Item(kind, val).kind = kind
         /\ Item(kind, val).val = val
BY DEF Item, Items

LEMMA NumbersType ==
  ASSUME NEW item \in Items, NEW kind
  PROVE  Numbers(item, kind) \subseteq Nat
<1>1. Garbage \subseteq Nat
  BY FramesAssumption, SizesAssumption DEF Lengths
<1> QED
  BY <1>1 DEF Numbers, Items

LEMMA TakenType ==
  ASSUME wire \in [Clients -> Seq(Items)], NEW c \in Clients,
         NEW n \in 0..Len(wire[c])
  PROVE  /\ Taken(c, n) \in [Clients -> Seq(Items)]
         /\ SubSeq(wire[c], 1, n) \in Seq(Items)
         /\ Len(SubSeq(wire[c], 1, n)) = n
         /\ \A i \in 1..n : SubSeq(wire[c], 1, n)[i] = wire[c][i]
         /\ Taken(c, n)[c] = SubSeq(wire[c], n + 1, Len(wire[c]))
         /\ Taken(c, n)[Other(c)] = wire[Other(c)]
BY OtherClient, SubSeqProperties DEF Taken

LEMMA SentType ==
  ASSUME wire \in [Clients -> Seq(Items)], NEW c \in Clients,
         NEW q \in Seq(Items)
  PROVE  /\ Sent(c, q) \in [Clients -> Seq(Items)]
         /\ Sent(c, q)[c] = wire[c]
         /\ Sent(c, q)[Other(c)] =
              IF life[Other(c)] = "freed" THEN wire[Other(c)]
                                          ELSE wire[Other(c)] \o q
BY OtherClient, ConcatProperties DEF Sent

LEMMA FileDataItems ==
  ASSUME NEW from \in Nat, NEW n \in Nat
  PROVE  /\ FileData(from, n) \in Seq(Items) /\ Len(FileData(from, n)) = n
         /\ \A i \in 1..n : FileData(from, n)[i] = Item("data", from + i)
<1>1. \A i \in 1..n : Item("data", from + i) \in Items
  BY ItemType
<1> QED
  BY <1>1 DEF FileData

LEMMA VoiceFrameItems ==
  ASSUME NEW k \in Nat, NEW n \in Nat
  PROVE  /\ VoiceFrame(k, n) \in Seq(Items) /\ Len(VoiceFrame(k, n)) = n + 2
         /\ VoiceFrame(k, n)[1] = Item("tiny", 3)
         /\ VoiceFrame(k, n)[2] = Item("small", n)
         /\ \A i \in 1..n : VoiceFrame(k, n)[i + 2] = Item("voice", k)
<1> DEFINE head == <<Item("tiny", 3), Item("small", n)>>
           units == [i \in 1..n |-> Item("voice", k)]
<1>1. /\ Item("tiny", 3) \in Items /\ Item("small", n) \in Items
      /\ Item("voice", k) \in Items
  BY ItemType
<1>2. head \in Seq(Items) /\ Len(head) = 2
      /\ head[1] = Item("tiny", 3) /\ head[2] = Item("small", n)
  BY <1>1
<1>3. units \in Seq(Items) /\ Len(units) = n
      /\ \A i \in 1..n : units[i] = Item("voice", k)
  BY <1>1
<1>4. VoiceFrame(k, n) = head \o units
  BY DEF VoiceFrame
<1> HIDE DEF head, units
<1>5. /\ head \o units \in Seq(Items)
      /\ Len(head \o units) = 2 + n
      /\ \A i \in 1 .. 2 + n :
           (head \o units)[i] = IF i <= 2 THEN head[i] ELSE units[i - 2]
  <2>1. head \o units \in Seq(Items)
        /\ Len(head \o units) = Len(head) + Len(units)
        /\ \A i \in 1 .. Len(head) + Len(units) :
             (head \o units)[i] =
               IF i <= Len(head) THEN head[i] ELSE units[i - Len(head)]
    BY <1>2, <1>3, ConcatProperties
  <2> QED
    BY <1>2, <1>3, <2>1
<1> QED
  BY <1>2, <1>3, <1>4, <1>5

LEMMA ChunkToSendType ==
  ASSUME NEW c \in Clients, h \in [Clients -> Structs]
  PROVE  ChunkToSend(c) \in Nat /\ ChunkToSend(c) <= MaxChunk
<1>1. h[c].size - h[c].offset \in Int /\ Word \in Nat \ {0} /\ MaxChunk \in Nat
  BY SizesAssumption DEF Structs
<1>2. (h[c].size - h[c].offset) % Word \in Nat
  BY <1>1
<1> DEFINE left == (h[c].size - h[c].offset) % Word
<1>3. ChunkToSend(c) = Least({left, MaxChunk})
  BY DEF ChunkToSend
<1> HIDE DEF left
<1>4. left \in Int /\ MaxChunk \in Int /\ left >= 0
  BY <1>1, <1>2 DEF left
<1>5. Least({left, MaxChunk}) \in {left, MaxChunk}
      /\ Least({left, MaxChunk}) <= MaxChunk
  BY <1>4, LeastOf
<1> QED
  BY <1>1, <1>3, <1>4, <1>5

LEMMA PacketType ==
  ASSUME NEW c \in Clients, h \in [Clients -> Structs], h[c].state \in Writing
  PROVE  Packet(c) \in Seq(Items)
<1>1. h[c].size \in Nat /\ h[c].offset \in Nat
  BY DEF Structs
<1>2. /\ Item("uin", 1) \in Items /\ Item("uin", 2) \in Items
      /\ Item("ack", 0) \in Items /\ Item("tiny", 1) \in Items
      /\ \A n \in Nat : /\ Item("small", n) \in Items
                        /\ Item("info", n) \in Items
                        /\ Item("bigType", n) \in Items
                        /\ Item("bigSize", n) \in Items
  BY ItemType
<1>3. ChunkToSend(c) \in Nat
  BY ChunkToSendType
<1>4. CASE h[c].state \in {"CONNECTING", "SENDING_ACK"}
  BY <1>2, <1>4 DEF Packet
<1>5. CASE h[c].state \in {"SENDING_REQUEST", "SENDING_VOICE_REQUEST",
                           "SENDING_VOICE_ACK"}
  BY <1>2, <1>5 DEF Packet
<1>6. CASE h[c].state \in {"SENDING_FILE_INFO", "SENDING_FILE_ACK"}
  BY <1>1, <1>2, <1>6 DEF Packet, Big
<1>7. CASE h[c].state = "SENDING_FILE_HEADER"
  BY <1>2, <1>3, <1>7 DEF Packet, Big
<1> QED
  BY <1>4, <1>5, <1>6, <1>7 DEF Writing

LEMMA ExpectedLengths ==
  ASSUME NEW state \in DOMAIN Expected
  PROVE  /\ Len(Expected[state]) = IF state = "READING_FILE_ACK" THEN 2 ELSE 1
         /\ state # "READING_FILE_ACK" =>
              Expected[state] = <<Expected[state][1]>>
         /\ state = "READING_FILE_ACK" =>
              Expected[state][1] = "bigType" /\ Expected[state][2] = "bigSize"
         /\ state \in States
<1>1. DOMAIN Expected =
        {"READING_UIN_1", "READING_UIN_2", "READING_ACK", "READING_TYPE",
         "READING_REQUEST", "READING_FILE_INFO", "READING_FILE_ACK",
         "READING_VOICE_ACK", "READING_VOICE_HEADER", "READING_VOICE_SIZE"}
  BY DEF Expected
<1>2. state = "READING_FILE_ACK" => Expected[state] = <<"bigType", "bigSize">>
  BY DEF Expected
<1>3. state # "READING_FILE_ACK" => Expected[state] = <<Expected[state][1]>>
  BY <1>1 DEF Expected
<1>4. state \in States
  BY <1>1 DEF States
<1>5. CASE state = "READING_FILE_ACK"
  <2>1. Len(<<"bigType", "bigSize">>) = 2
    OBVIOUS
  <2> QED
    BY <1>2, <1>4, <1>5, <2>1
<1>6. CASE state # "READING_FILE_ACK"
  <2> DEFINE kind == Expected[state][1]
  <2>1. Len(<<kind>>) = 1
    OBVIOUS
  <2>2. Expected[state] = <<kind>>
    BY <1>3, <1>6
  <2> QED
    BY <1>4, <1>6, <2>1, <2>2
<1> QED
  BY <1>5, <1>6

-----------------------------------------------------------------------------
(***************************************************************************)
(* What the actions do to the structure of a client.                       *)
(***************************************************************************)
Checks == {"READ", "WRITE"}
Verdicts == {"running", "DONE"} \cup Errors

\* c's structure becomes x, the other's stays.
Becoming(c, x) ==
  /\ x \in Structs /\ h' \in [Clients -> Structs]
  /\ h'[c] = x /\ h'[Other(c)] = h[Other(c)]

LEMMA BecomingOf ==
  ASSUME h \in [Clients -> Structs], NEW c \in Clients, NEW x \in Structs,
         h' = [h EXCEPT ![c] = x]
  PROVE  Becoming(c, x)
BY OtherClient DEF Becoming

LEMMA UnchangedBecomes ==
  ASSUME h \in [Clients -> Structs], NEW c \in Clients, UNCHANGED h
  PROVE  Becoming(c, h[c])
BY OtherClient DEF Becoming

LEMMA MovesBecomes ==
  ASSUME h \in [Clients -> Structs], NEW c \in Clients, NEW state \in States,
         NEW check \in Checks, Moves(c, state, check)
  PROVE  Becoming(c, [h[c] EXCEPT !.state = state, !.check = check])
<1>1. [h[c] EXCEPT !.state = state, !.check = check] \in Structs
  BY DEF Structs, Checks
<1>2. h' = [h EXCEPT ![c] = [h[c] EXCEPT !.state = state, !.check = check]]
  BY DEF Moves
<1> QED
  BY <1>1, <1>2, BecomingOf

LEMMA TypeBecomes ==
  ASSUME h \in [Clients -> Structs], NEW c \in Clients, NEW type \in Types,
         NEW state \in States, NEW check \in Checks,
         Becomes(c, type, state, check)
  PROVE  Becoming(c, [h[c] EXCEPT !.type = type, !.state = state,
                                  !.check = check])
<1>1. [h[c] EXCEPT !.type = type, !.state = state, !.check = check] \in Structs
  BY DEF Structs, Checks
<1>2. h' = [h EXCEPT ![c] = [h[c] EXCEPT !.type = type, !.state = state,
                                         !.check = check]]
  BY DEF Becomes
<1> QED
  BY <1>1, <1>2, BecomingOf

LEMMA SetVoiceBecomes ==
  ASSUME h \in [Clients -> Structs], NEW c \in Clients, SetVoice(c)
  PROVE  Becoming(c, [h[c] EXCEPT !.type = "VOICE",
                                  !.state = "SENDING_VOICE_REQUEST"])
<1> DEFINE x == [h[c] EXCEPT !.type = "VOICE",
                             !.state = "SENDING_VOICE_REQUEST"]
<1>1. x \in Structs
  <2>1. "SENDING_VOICE_REQUEST" \in States /\ "VOICE" \in Types
    BY DEF States, Types
  <2> QED
    BY <2>1 DEF Structs
<1>2. h' = [h EXCEPT ![c] = x]
  BY DEF SetVoice
<1> QED
  BY <1>1, <1>2, BecomingOf

LEMMA FillFileInfoBecomes ==
  ASSUME h \in [Clients -> Structs], NEW c \in Clients, FillFileInfo(c)
  PROVE  /\ file' \in [stat : 0..(Word - 1), actual : 0..(Word - 1)]
         /\ file' \in [stat : Nat, actual : Nat]
         /\ Becoming(c, [h[c] EXCEPT !.fileFd = TRUE, !.size = file'.stat])
<1>1. PICK f \in Files :
        file' = f /\ h' = [h EXCEPT ![c].fileFd = TRUE, ![c].size = f.stat]
  BY DEF FillFileInfo
<1>2. f \in [stat : 0..(Word - 1), actual : 0..(Word - 1)]
  BY FilesAssumption DEF Lengths
<1>3. f.stat \in Nat /\ f \in [stat : Nat, actual : Nat]
  BY <1>2, SizesAssumption
<1> DEFINE x == [h[c] EXCEPT !.fileFd = TRUE, !.size = f.stat]
<1>4. x \in Structs
  BY <1>3 DEF Structs
<1>5. h' = [h EXCEPT ![c] = x]
  BY <1>1
<1>6. Becoming(c, x)
  BY <1>4, <1>5, BecomingOf
<1> QED
  BY <1>1, <1>2, <1>3, <1>6

LEMMA ReadingFileInfoBecomes ==
  ASSUME h \in [Clients -> Structs], NEW c \in Clients, wire[c][1] \in Items,
         WatchReadingFileInfo(c)
  PROVE  \E n \in Numbers(wire[c][1], "info") :
           Becoming(c, [h[c] EXCEPT !.size = n, !.check = "WRITE",
                                    !.state = "SENDING_FILE_ACK"])
<1>1. PICK n \in Numbers(wire[c][1], "info") :
        h' = [h EXCEPT ![c].size = n, ![c].check = "WRITE",
                       ![c].state = "SENDING_FILE_ACK"]
  BY DEF WatchReadingFileInfo
<1> DEFINE x == [h[c] EXCEPT !.size = n, !.check = "WRITE",
                             !.state = "SENDING_FILE_ACK"]
<1>2. n \in Nat
  BY NumbersType
<1>3. x \in Structs
  <2>1. "SENDING_FILE_ACK" \in States
    BY DEF States
  <2> QED
    BY <2>1, <1>2 DEF Structs
<1>4. h' = [h EXCEPT ![c] = x]
  BY <1>1
<1> QED
  BY <1>3, <1>4, BecomingOf

LEMMA AnswerFileBecomes ==
  ASSUME h \in [Clients -> Structs], NEW c \in Clients, AnswerFile(c)
  PROVE  /\ resume' \in 0..(Word - 1) /\ resume' \in Nat
         /\ Becoming(c, [h[c] EXCEPT !.fileFd = TRUE, !.offset = resume'])
<1>1. PICK n \in Resumes :
        resume' = n /\ h' = [h EXCEPT ![c].fileFd = TRUE, ![c].offset = n]
  BY DEF AnswerFile
<1>2. n \in 0..(Word - 1) /\ n \in Nat
  BY FilesAssumption, SizesAssumption DEF Lengths
<1> DEFINE x == [h[c] EXCEPT !.fileFd = TRUE, !.offset = n]
<1>3. x \in Structs
  BY <1>2 DEF Structs
<1>4. h' = [h EXCEPT ![c] = x]
  BY <1>1
<1>5. Becoming(c, x)
  BY <1>3, <1>4, BecomingOf
<1> QED
  BY <1>1, <1>2, <1>5

LEMMA SendingFileAckBecomes ==
  ASSUME h \in [Clients -> Structs], NEW c \in Clients, WatchSendingFileAck(c)
  PROVE  Becoming(c, [h[c] EXCEPT !.state = "READING_FILE_HEADER",
                        !.check = "READ", !.chunkSize = 2, !.chunkOffset = 0,
                        !.buf = <<>>])
<1> DEFINE x == [h[c] EXCEPT !.state = "READING_FILE_HEADER",
                   !.check = "READ", !.chunkSize = 2, !.chunkOffset = 0,
                   !.buf = <<>>]
<1>1. x \in Structs
  <2>1. <<>> \in Seq(Items) /\ "READING_FILE_HEADER" \in States /\ h[c] \in Structs
    BY EmptySeq DEF States
  <2> QED
    BY <2>1 DEF Structs
<1>2. h' = [h EXCEPT ![c] = x]
  BY DEF WatchSendingFileAck
<1> QED
  BY <1>1, <1>2, BecomingOf

LEMMA ReadingFileAckBecomes ==
  ASSUME h \in [Clients -> Structs], NEW c \in Clients, wire[c][2] \in Items,
         WatchReadingFileAck(c)
  PROVE  \E n \in Numbers(wire[c][2], "bigSize") :
           Becoming(c, [h[c] EXCEPT !.offset = n, !.check = "WRITE",
                                    !.state = "SENDING_FILE_HEADER"])
<1>1. PICK n \in Numbers(wire[c][2], "bigSize") :
        h' = [h EXCEPT ![c].offset = n, ![c].check = "WRITE",
                       ![c].state = "SENDING_FILE_HEADER"]
  BY DEF WatchReadingFileAck
<1> DEFINE x == [h[c] EXCEPT !.offset = n, !.check = "WRITE",
                             !.state = "SENDING_FILE_HEADER"]
<1>2. n \in Nat
  BY NumbersType
<1>3. x \in Structs
  <2>1. "SENDING_FILE_HEADER" \in States
    BY DEF States
  <2> QED
    BY <2>1, <1>2 DEF Structs
<1>4. h' = [h EXCEPT ![c] = x]
  BY <1>1
<1> QED
  BY <1>3, <1>4, BecomingOf

LEMMA SendingFileHeaderBecomes ==
  ASSUME h \in [Clients -> Structs], NEW c \in Clients,
         WatchSendingFileHeader(c)
  PROVE  Becoming(c, [h[c] EXCEPT !.chunkOffset = 0,
                        !.chunkSize = ChunkToSend(c), !.state = "SENDING_FILE",
                        !.check = "WRITE"])
<1> DEFINE n == ChunkToSend(c)
<1>1. n \in Nat
  BY ChunkToSendType
<1>2. h' = [h EXCEPT ![c].chunkOffset = 0, ![c].chunkSize = n,
                     ![c].state = "SENDING_FILE", ![c].check = "WRITE"]
  BY DEF WatchSendingFileHeader
<1> HIDE DEF n
<1> DEFINE x == [h[c] EXCEPT !.chunkOffset = 0, !.chunkSize = n,
                   !.state = "SENDING_FILE", !.check = "WRITE"]
<1>3. x \in Structs
  <2>1. "SENDING_FILE" \in States
    BY DEF States
  <2> QED
    BY <2>1, <1>1 DEF Structs
<1>4. h' = [h EXCEPT ![c] = x]
  BY <1>2
<1>5. Becoming(c, x)
  BY <1>3, <1>4, BecomingOf
<1> QED
  BY <1>5 DEF n

LEMMA BehindType ==
  ASSUME h \in [Clients -> Structs], NEW c \in Clients, NEW n \in Nat
  PROVE  Behind(c, n) \in Nat /\ Behind(c, n) < Word
BY SizesAssumption DEF Behind, Structs

LEMMA AdvanceBecomes ==
  ASSUME h \in [Clients -> Structs], NEW c \in Clients, NEW n \in Nat,
         NEW next \in {"SENDING_FILE_HEADER", "READING_FILE_HEADER"},
         Advance(c, n, next)
  PROVE
    \/ /\ Behind(c, n) >= h[c].size /\ Ends(c, "DONE")
       /\ Becoming(c, [h[c] EXCEPT !.offset = Behind(c, n)])
    \/ /\ Behind(c, n) < h[c].size /\ UNCHANGED verdict /\ ~ChunkDone(c, n)
       /\ Becoming(c, [h[c] EXCEPT !.offset = Behind(c, n),
                                   !.chunkOffset = h[c].chunkOffset + n])
    \/ /\ Behind(c, n) < h[c].size /\ UNCHANGED verdict /\ ChunkDone(c, n)
       /\ next = "SENDING_FILE_HEADER"
       /\ Becoming(c, [h[c] EXCEPT !.offset = Behind(c, n), !.state = next,
                                   !.chunkOffset = h[c].chunkOffset + n])
    \/ /\ Behind(c, n) < h[c].size /\ UNCHANGED verdict /\ ChunkDone(c, n)
       /\ next = "READING_FILE_HEADER"
       /\ Becoming(c, [h[c] EXCEPT !.offset = Behind(c, n), !.state = next,
                          !.chunkOffset = 0, !.chunkSize = 2, !.buf = <<>>])
<1> DEFINE m == Behind(c, n)
           k == h[c].chunkOffset + n
<1>1. m \in Nat /\ k \in Nat /\ next \in States
  <2>1. h[c].chunkOffset \in Nat
    BY DEF Structs
  <2> QED
    BY <2>1, BehindType DEF States
<1>2. \/ /\ m >= h[c].size /\ Ends(c, "DONE")
         /\ h' = [h EXCEPT ![c].offset = m]
      \/ /\ m < h[c].size /\ UNCHANGED verdict /\ ~ChunkDone(c, n)
         /\ h' = [h EXCEPT ![c].offset = m, ![c].chunkOffset = k]
      \/ /\ m < h[c].size /\ UNCHANGED verdict /\ ChunkDone(c, n)
         /\ next = "SENDING_FILE_HEADER"
         /\ h' = [h EXCEPT ![c].offset = m, ![c].state = next,
                           ![c].chunkOffset = k]
      \/ /\ m < h[c].size /\ UNCHANGED verdict /\ ChunkDone(c, n)
         /\ next = "READING_FILE_HEADER"
         /\ h' = [h EXCEPT ![c].offset = m, ![c].state = next,
                           ![c].chunkOffset = 0, ![c].chunkSize = 2,
                           ![c].buf = <<>>]
  BY DEF Advance, ChunkBegins
<1> HIDE DEF m, k
<1> DEFINE x1 == [h[c] EXCEPT !.offset = m]
           x2 == [h[c] EXCEPT !.offset = m, !.chunkOffset = k]
           x3 == [h[c] EXCEPT !.offset = m, !.state = next, !.chunkOffset = k]
           x4 == [h[c] EXCEPT !.offset = m, !.state = next,
                              !.chunkOffset = 0, !.chunkSize = 2,
                              !.buf = <<>>]
<1>3. x1 \in Structs /\ x2 \in Structs /\ x3 \in Structs /\ x4 \in Structs
  <2>1. x1 \in Structs /\ x2 \in Structs
    BY <1>1 DEF Structs
  <2>2. x3 \in Structs
    BY <1>1 DEF Structs
  <2>3. <<>> \in Seq(Items)
    BY EmptySeq
  <2>4. x4 \in Structs
    BY <1>1, <2>3 DEF Structs
  <2> QED
    BY <2>1, <2>2, <2>4
<1>4. h' = [h EXCEPT ![c].offset = m] => Becoming(c, x1)
  BY <1>3, BecomingOf
<1>5. ASSUME h' = [h EXCEPT ![c].offset = m, ![c].chunkOffset = k]
      PROVE  Becoming(c, x2)
  <2>1. h' = [h EXCEPT ![c] = x2]
    BY <1>5
  <2> HIDE DEF x2
  <2> QED
    BY <1>3, <2>1, BecomingOf
<1>6. ASSUME h' = [h EXCEPT ![c].offset = m, ![c].state = next,
                            ![c].chunkOffset = k]
      PROVE  Becoming(c, x3)
  <2>1. h' = [h EXCEPT ![c] = x3]
    BY <1>6
  <2> HIDE DEF x3
  <2> QED
    BY <1>3, <2>1, BecomingOf
<1>7. h' = [h EXCEPT ![c].offset = m, ![c].state = next, ![c].chunkOffset = 0,
                     ![c].chunkSize = 2, ![c].buf = <<>>] => Becoming(c, x4)
  <2>1. SUFFICES ASSUME h' = [h EXCEPT ![c].offset = m, ![c].state = next,
                          ![c].chunkOffset = 0, ![c].chunkSize = 2,
                          ![c].buf = <<>>]
                 PROVE  Becoming(c, x4)
    OBVIOUS
  <2>2. h' = [h EXCEPT ![c] = x4]
    BY <2>1
  <2> HIDE DEF x4
  <2> QED
    BY <1>3, <2>2, BecomingOf
<1> QED
  BY <1>2, <1>4, <1>5, <1>6, <1>7 DEF m, k

\* A part of a header or a frame.
LEMMA PartBecomes ==
  ASSUME h \in [Clients -> Structs], NEW c \in Clients, NEW n \in Nat,
         Buffered(c, n) \in Seq(Items),
         h' = [h EXCEPT ![c].chunkOffset = @ + n, ![c].buf = Buffered(c, n)]
  PROVE  Becoming(c, [h[c] EXCEPT !.chunkOffset = h[c].chunkOffset + n,
                                  !.buf = Buffered(c, n)])
<1> DEFINE q == Buffered(c, n)
           k == h[c].chunkOffset + n
           x == [h[c] EXCEPT !.chunkOffset = k, !.buf = q]
<1>1. k \in Nat /\ q \in Seq(Items)
  BY DEF Structs
<1>2. h' = [h EXCEPT ![c].chunkOffset = k, ![c].buf = q]
  OBVIOUS
<1> HIDE DEF q, k
<1>3. x \in Structs
  BY <1>1 DEF Structs
<1>4. h' = [h EXCEPT ![c] = x]
  BY <1>2
<1>5. Becoming(c, x)
  BY <1>3, <1>4, BecomingOf
<1> QED
  BY <1>5 DEF q, k

LEMMA HeaderReadBecomes ==
  ASSUME h \in [Clients -> Structs], NEW c \in Clients, NEW type,
         NEW size \in Nat, HeaderRead(c, type, size)
  PROVE
    \/ /\ type # 5 /\ size # 0 /\ UNCHANGED verdict
       /\ Becoming(c, [h[c] EXCEPT !.buf = <<>>, !.chunkSize = size,
                          !.chunkOffset = 0, !.state = "GETTING_FILE"])
    \/ /\ type = 5 /\ Ends(c, "REFUSED")
       /\ Becoming(c, [h[c] EXCEPT !.buf = <<>>, !.chunkSize = size,
                                   !.chunkOffset = 0])
    \/ /\ type # 5 /\ size = 0 /\ Ends(c, "DONE")
       /\ Becoming(c, [h[c] EXCEPT !.buf = <<>>, !.chunkSize = size,
                                   !.chunkOffset = 0])
<1> DEFINE x == [h[c] EXCEPT !.buf = <<>>, !.chunkSize = size,
                   !.chunkOffset = 0, !.state = "GETTING_FILE"]
           y == [h[c] EXCEPT !.buf = <<>>, !.chunkSize = size,
                             !.chunkOffset = 0]
<1>1. x \in Structs /\ y \in Structs
  <2>1. "GETTING_FILE" \in States /\ <<>> \in Seq(Items)
    BY EmptySeq DEF States
  <2>2. x \in Structs
    BY <2>1 DEF Structs
  <2>3. y \in Structs
    BY <2>1 DEF Structs
  <2> QED
    BY <2>2, <2>3
<1>2. CASE type # 5 /\ size # 0
  <2>1. h' = [h EXCEPT ![c] = x] /\ UNCHANGED verdict
    BY <1>2 DEF HeaderRead
  <2> QED
    BY <1>1, <1>2, <2>1, BecomingOf
<1>3. CASE type = 5 \/ size = 0
  <2>1. h' = [h EXCEPT ![c] = y]
        /\ Ends(c, IF type = 5 THEN "REFUSED" ELSE "DONE")
    BY <1>3 DEF HeaderRead
  <2> QED
    BY <1>1, <1>3, <2>1, BecomingOf
<1> QED
  BY <1>2, <1>3

LEMMA SendingVoiceAckBecomes ==
  ASSUME h \in [Clients -> Structs], NEW c \in Clients, WatchSendingVoiceAck(c)
  PROVE  Becoming(c, [h[c] EXCEPT !.state = "READING_VOICE_HEADER",
                                  !.check = "READ", !.offset = 0])
<1> DEFINE x == [h[c] EXCEPT !.state = "READING_VOICE_HEADER",
                             !.check = "READ", !.offset = 0]
<1>1. x \in Structs
  <2>1. "READING_VOICE_HEADER" \in States
    BY DEF States
  <2> QED
    BY <2>1 DEF Structs
<1>2. h' = [h EXCEPT ![c] = x]
  BY DEF WatchSendingVoiceAck
<1> QED
  BY <1>1, <1>2, BecomingOf

LEMMA ReadingVoiceSizeBecomes ==
  ASSUME h \in [Clients -> Structs], NEW c \in Clients, wire[c][1] \in Items,
         WatchReadingVoiceSize(c)
  PROVE  \/ Ends(c, "NET") /\ UNCHANGED h
         \/ \E n \in Numbers(wire[c][1], "small") :
              /\ n \in Nat /\ MinFrame <= n /\ n <= BufSize
              /\ UNCHANGED verdict
              /\ Becoming(c, [h[c] EXCEPT !.state = "READING_VOICE_DATA",
                                 !.check = "READ", !.chunkSize = n,
                                 !.chunkOffset = 0, !.buf = <<>>])
<1>1. PICK n \in Numbers(wire[c][1], "small") :
        \/ Ends(c, "NET") /\ UNCHANGED h
        \/ /\ MinFrame <= n /\ n <= BufSize /\ UNCHANGED verdict
           /\ h' = [h EXCEPT ![c].state = "READING_VOICE_DATA",
                       ![c].check = "READ", ![c].chunkSize = n,
                       ![c].chunkOffset = 0, ![c].buf = <<>>]
  BY DEF WatchReadingVoiceSize
<1> DEFINE x == [h[c] EXCEPT !.state = "READING_VOICE_DATA",
                   !.check = "READ", !.chunkSize = n,
                   !.chunkOffset = 0, !.buf = <<>>]
<1>2. n \in Nat
  BY NumbersType
<1>3. x \in Structs
  <2>1. "READING_VOICE_DATA" \in States /\ <<>> \in Seq(Items)
    BY EmptySeq DEF States
  <2> QED
    BY <2>1, <1>2 DEF Structs
<1>4. h' = [h EXCEPT ![c] = x] => Becoming(c, x)
  BY <1>3, BecomingOf
<1> QED
  BY <1>1, <1>2, <1>4

\* The end of a frame.
LEMMA FrameBecomes ==
  ASSUME h \in [Clients -> Structs], NEW c \in Clients, NEW n \in Nat,
         h' = [h EXCEPT ![c].chunkOffset = @ + n, ![c].buf = <<>>,
                        ![c].state = "READING_VOICE_HEADER"]
  PROVE  Becoming(c, [h[c] EXCEPT !.chunkOffset = h[c].chunkOffset + n,
                        !.buf = <<>>, !.state = "READING_VOICE_HEADER"])
<1> DEFINE k == h[c].chunkOffset + n
           x == [h[c] EXCEPT !.chunkOffset = k, !.buf = <<>>,
                             !.state = "READING_VOICE_HEADER"]
<1>1. k \in Nat
  BY DEF Structs
<1>2. h' = [h EXCEPT ![c].chunkOffset = k, ![c].buf = <<>>,
                     ![c].state = "READING_VOICE_HEADER"]
  OBVIOUS
<1> HIDE DEF k
<1>3. x \in Structs
  <2>1. "READING_VOICE_HEADER" \in States /\ <<>> \in Seq(Items)
    BY EmptySeq DEF States
  <2> QED
    BY <1>1, <2>1 DEF Structs
<1>4. h' = [h EXCEPT ![c] = x]
  BY <1>2
<1>5. Becoming(c, x)
  BY <1>3, <1>4, BecomingOf
<1> QED
  BY <1>5 DEF k

LEMMA EndsVerdict ==
  ASSUME verdict \in [Clients -> Verdicts], NEW c \in Clients,
         NEW event \in Verdicts, Ends(c, event)
  PROVE  /\ verdict' \in [Clients -> Verdicts] /\ verdict'[c] = event
         /\ verdict'[Other(c)] = verdict[Other(c)]
BY OtherClient DEF Ends

-----------------------------------------------------------------------------
(***************************************************************************)
(* Every variable keeps its type.                                          *)
(***************************************************************************)
LEMMA Typed ==
  TypeOK => /\ h \in [Clients -> Structs]
            /\ life \in [Clients -> {"none", "up", "freed"}]
            /\ verdict \in [Clients -> Verdicts]
            /\ wire \in [Clients -> Seq(Items)]
            /\ resume \in Nat /\ got \in Seq(Nat) /\ cut \in BOOLEAN
            /\ said \in [Clients -> Seq(Nat)]
            /\ heard \in [Clients -> Seq(Seq(Nat))]
            /\ file \in [stat : Nat, actual : Nat]
BY DEF TypeOK, Structs, Verdicts

LEMMA Retyped ==
  ASSUME TypeOK, h' \in [Clients -> Structs], wire' \in [Clients -> Seq(Items)],
         verdict' \in [Clients -> Verdicts], UNCHANGED life,
         resume' \in Nat, got' \in Seq(Nat), cut' \in BOOLEAN,
         said' \in [Clients -> Seq(Nat)],
         heard' \in [Clients -> Seq(Seq(Nat))],
         file' \in [stat : Nat, actual : Nat]
  PROVE  TypeOK'
BY DEF TypeOK, Structs, Verdicts

LEMMA RetypedSame ==
  ASSUME TypeOK, h' \in [Clients -> Structs], wire' \in [Clients -> Seq(Items)],
         verdict' \in [Clients -> Verdicts], UNCHANGED <<life, data>>
  PROVE  TypeOK'
BY DEF TypeOK, Structs, Verdicts, data

Open(c) == life[c] # "freed" /\ verdict[c] = "running"

(***************************************************************************)
(* What a client has of a header, a chunk or a frame is less than all of   *)
(* it: only so is there an item to be read as the length of a chunk.       *)
(***************************************************************************)
ChunkSound(c) ==
  /\ Open(c) /\ h[c].state = "READING_FILE_HEADER" =>
       /\ h[c].chunkSize = 2 /\ h[c].chunkOffset = Len(h[c].buf)
       /\ h[c].chunkOffset < 2
  /\ Open(c) /\ h[c].state \in {"GETTING_FILE", "READING_VOICE_DATA"} =>
       h[c].chunkOffset < h[c].chunkSize
  /\ Open(c) /\ h[c].state = "SENDING_FILE" =>
       \/ h[c].chunkSize = 0 /\ h[c].chunkOffset = 0
       \/ h[c].chunkOffset < h[c].chunkSize

TypeInv == TypeOK /\ \A c \in Clients : ChunkSound(c)

LEMMA WritesType ==
  ASSUME TypeOK, NEW c \in Clients, NEW state \in Writing, Writes(c, state)
  PROVE  wire' \in [Clients -> Seq(Items)]
<1>1. h \in [Clients -> Structs] /\ wire \in [Clients -> Seq(Items)]
      /\ h[c].state \in Writing
  BY DEF TypeOK, Structs, Writes, Polled
<1>2. Packet(c) \in Seq(Items)
  BY <1>1, PacketType
<1> QED
  BY <1>1, <1>2, SentType DEF Writes

LEMMA ReadsType ==
  ASSUME TypeOK, NEW c \in Clients, NEW state \in DOMAIN Expected,
         Reads(c, state)
  PROVE  /\ wire' \in [Clients -> Seq(Items)]
         /\ wire[c] # <<>> /\ wire[c][1] \in Items
         /\ state = "READING_FILE_ACK" => wire[c][2] \in Items
<1>1. /\ wire \in [Clients -> Seq(Items)]
      /\ Len(Expected[state]) \in 1..Len(wire[c])
      /\ state = "READING_FILE_ACK" => Len(Expected[state]) = 2
  <2>1. wire \in [Clients -> Seq(Items)] /\ Len(wire[c]) >= Len(Expected[state])
    BY DEF TypeOK, Reads
  <2>2. Len(wire[c]) \in Nat
    BY <2>1, LenProperties
  <2>3. Len(Expected[state]) \in {1, 2}
        /\ (state = "READING_FILE_ACK" => Len(Expected[state]) = 2)
    BY ExpectedLengths
  <2> DEFINE long == Len(Expected[state])
             there == Len(wire[c])
  <2>4. there \in Nat /\ there >= long /\ long \in {1, 2}
        /\ (state = "READING_FILE_ACK" => long = 2)
    BY <2>1, <2>2, <2>3
  <2> HIDE DEF long, there
  <2>5. long \in 1..there
    BY <2>4
  <2> QED
    BY <2>1, <2>4, <2>5 DEF long, there
<1>2. wire' \in [Clients -> Seq(Items)]
  BY <1>1, TakenType DEF Reads
<1> QED
  BY <1>1, <1>2, ElementOfSeq, LenProperties

LEMMA HandshakeType ==
  ASSUME TypeOK, NEW c \in Clients, Handshake(c)
  PROVE  TypeOK'
<1> USE Typed DEF Checks
<1>1. CASE WatchConnecting(c)
  <2>1. Becoming(c, [h[c] EXCEPT !.state = "READING_ACK", !.check = "READ"])
    BY <1>1, MovesBecomes DEF WatchConnecting, States
  <2> QED
    BY <1>1, <2>1, WritesType, RetypedSame
    DEF WatchConnecting, Writing, Writes, Becoming
<1>2. CASE WatchReadingUin(c)
  <2>1. h' \in [Clients -> Structs]
    BY <1>2, MovesBecomes DEF WatchReadingUin, States, Becoming
  <2>2. wire' \in [Clients -> Seq(Items)]
    BY <1>2, ReadsType DEF WatchReadingUin, Expected
  <2> QED
    BY <1>2, <2>1, <2>2, RetypedSame DEF WatchReadingUin, Reads
<1>3. CASE WatchSendingAck(c)
  <2>1. Becoming(c, [h[c] EXCEPT !.state = "READING_TYPE", !.check = "READ"])
    BY <1>3, MovesBecomes DEF WatchSendingAck, States
  <2> QED
    BY <1>3, <2>1, WritesType, RetypedSame
    DEF WatchSendingAck, Writing, Writes, Becoming
<1>4. CASE WatchReadingAck(c)
  <2>1. h' \in [Clients -> Structs]
    BY <1>4, MovesBecomes DEF WatchReadingAck, States, Becoming
  <2>2. wire' \in [Clients -> Seq(Items)]
    BY <1>4, ReadsType DEF WatchReadingAck, Expected
  <2>3. verdict' \in [Clients -> Verdicts]
    BY <1>4, EndsVerdict DEF WatchReadingAck, Verdicts, Errors
  <2> QED
    BY <1>4, <2>1, <2>2, <2>3, RetypedSame DEF WatchReadingAck, Reads
<1>5. CASE WatchSendingRequest(c)
  <2>1. h' \in [Clients -> Structs]
    BY <1>5, MovesBecomes DEF WatchSendingRequest, States, Becoming
  <2> QED
    BY <1>5, <2>1, WritesType, RetypedSame
    DEF WatchSendingRequest, Writing, Writes
<1>6. CASE WatchReadingType(c)
  <2>1. h' \in [Clients -> Structs]
    BY <1>6, TypeBecomes DEF WatchReadingType, States, Types, Becoming
  <2>2. wire' \in [Clients -> Seq(Items)]
    BY <1>6, ReadsType DEF WatchReadingType, Expected
  <2>3. verdict' \in [Clients -> Verdicts]
    BY <1>6, EndsVerdict DEF WatchReadingType, Becomes, Verdicts, Errors
  <2> QED
    BY <1>6, <2>1, <2>2, <2>3, RetypedSame DEF WatchReadingType, Reads
<1>7. CASE WatchReadingRequest(c)
  <2>1. h[c].type \in Types
    BY DEF Structs
  <2>2. h' \in [Clients -> Structs]
    <3>1. \/ Becomes(c, h[c].type, "READING_FILE_INFO", "READ")
          \/ Becomes(c, "VOICE", "SENDING_VOICE_ACK", "WRITE")
          \/ UNCHANGED h
      BY <1>7 DEF WatchReadingRequest
    <3>2. /\ "READING_FILE_INFO" \in States /\ "SENDING_VOICE_ACK" \in States
          /\ "VOICE" \in Types /\ "READ" \in Checks /\ "WRITE" \in Checks
      BY DEF States, Types, Checks
    <3> QED
      BY <2>1, <3>1, <3>2, TypeBecomes DEF Becoming
  <2>3. wire' \in [Clients -> Seq(Items)]
    BY <1>7, ReadsType DEF WatchReadingRequest, Expected
  <2>4. verdict' \in [Clients -> Verdicts]
    BY <1>7, EndsVerdict DEF WatchReadingRequest, Becomes, Verdicts, Errors
  <2> QED
    BY <1>7, <2>2, <2>3, <2>4, RetypedSame DEF WatchReadingRequest, Reads
<1>8. CASE HandshakeFails(c)
  <2>1. wire' \in [Clients -> Seq(Items)]
    <3>1. CASE UNCHANGED wire
      BY <3>1
    <3>2. CASE /\ \E state \in Writing : Polled(c, state)
               /\ \E n \in 0..(Len(Packet(c)) - 1) :
                    wire' = Sent(c, SubSeq(Packet(c), 1, n))
      <4>1. Packet(c) \in Seq(Items)
        BY <3>2, PacketType DEF Polled
      <4>2. PICK n \in 0..(Len(Packet(c)) - 1) :
              wire' = Sent(c, SubSeq(Packet(c), 1, n))
        BY <3>2
      <4>3. SubSeq(Packet(c), 1, n) \in Seq(Items)
        <5>1. Len(Packet(c)) \in Nat
          BY <4>1, LenProperties
        <5> QED
          BY <4>1, <4>2, <5>1, SubSeqProperties
      <4> QED
        BY <4>2, <4>3, SentType
    <3> QED
      BY <1>8, <3>1, <3>2 DEF HandshakeFails
  <2>2. verdict' \in [Clients -> Verdicts]
    BY <1>8, EndsVerdict DEF HandshakeFails, Verdicts, Errors
  <2> QED
    BY <1>8, <2>1, <2>2, RetypedSame DEF HandshakeFails
<1> QED
  BY <1>1, <1>2, <1>3, <1>4, <1>5, <1>6, <1>7, <1>8 DEF Handshake

\* How much can be taken at once, of what is missing and has come.
LEMMA CanTake ==
  ASSUME TypeOK, NEW c \in Clients, NEW m \in Int,
         NEW n \in 1..Least({m, Len(wire[c])})
  PROVE  n \in 1..Len(wire[c]) /\ n <= m /\ Len(wire[c]) \in Nat
<1>1. Len(wire[c]) \in Nat
  BY Typed, LenProperties
<1> DEFINE k == Len(wire[c])
<1>2. k \in Int /\ n \in 1..Least({m, k})
  BY <1>1
<1> HIDE DEF k
<1>3. Least({m, k}) \in {m, k} /\ Least({m, k}) <= m /\ Least({m, k}) <= k
  BY <1>2, LeastOf
<1>4. n \in 1..k /\ n <= m
  BY <1>2, <1>3
<1> QED
  BY <1>1, <1>4 DEF k

LEMMA BufferedType ==
  ASSUME TypeOK, NEW c \in Clients, NEW n \in 1..Len(wire[c])
  PROVE  /\ Buffered(c, n) \in Seq(Items)
         /\ Len(Buffered(c, n)) = Len(h[c].buf) + n
         /\ \A i \in 1..Len(h[c].buf) : Buffered(c, n)[i] = h[c].buf[i]
         /\ \A i \in 1..n : Buffered(c, n)[Len(h[c].buf) + i] = wire[c][i]
<1>1. h[c].buf \in Seq(Items) /\ Len(h[c].buf) \in Nat
  BY Typed, LenProperties DEF Structs
<1>2. Len(wire[c]) \in Nat
  BY Typed, LenProperties
<1> DEFINE q == SubSeq(wire[c], 1, n)
           b == h[c].buf
<1>3. q \in Seq(Items) /\ Len(q) = n /\ \A i \in 1..n : q[i] = wire[c][i]
  BY <1>2, Typed, TakenType
<1>4. Buffered(c, n) = b \o q
  BY DEF Buffered
<1> HIDE DEF q, b
<1>5. b \in Seq(Items) /\ Len(b) \in Nat /\ n \in Nat
  BY <1>1, <1>2 DEF b
<1>6. /\ b \o q \in Seq(Items) /\ Len(b \o q) = Len(b) + Len(q)
      /\ \A i \in 1 .. Len(b) + Len(q) :
           (b \o q)[i] = IF i <= Len(b) THEN b[i] ELSE q[i - Len(b)]
  BY <1>3, <1>5, ConcatProperties
<1>7. \A i \in 1..Len(b) : (b \o q)[i] = b[i]
  BY <1>3, <1>5, <1>6
<1>8. \A i \in 1..n : (b \o q)[Len(b) + i] = wire[c][i]
  BY <1>3, <1>5, <1>6
<1> QED
  BY <1>3, <1>4, <1>6, <1>7, <1>8 DEF b

LEMMA ToSendType ==
  ASSUME TypeOK, NEW c \in Clients
  PROVE  Wanted(c) \in Int /\ FromFile(c) \in Int /\ ToSend(c) \in Int
<1>1. /\ h[c].chunkSize \in Nat /\ h[c].chunkOffset \in Nat
      /\ h[c].offset \in Nat /\ h[c].size \in Nat
  BY Typed DEF Structs
<1>2. file.actual \in Nat /\ BufSize \in Nat
  BY Typed, SizesAssumption
<1>3. Wanted(c) \in Int
  <2> DEFINE m == h[c].chunkSize - h[c].chunkOffset
  <2>1. m \in Int /\ BufSize \in Int
    BY <1>1, <1>2
  <2> HIDE DEF m
  <2>2. Least({m, BufSize}) \in {m, BufSize}
    BY <2>1, LeastOf
  <2> QED
    BY <2>1, <2>2 DEF Wanted, m
<1>4. FromFile(c) \in Int
  <2> DEFINE m == IF h[c].offset < file.actual
                  THEN file.actual - h[c].offset ELSE 0
  <2>1. m \in Int
    BY <1>1, <1>2
  <2> HIDE DEF m
  <2>2. Least({Wanted(c), m}) \in {Wanted(c), m}
    BY <1>3, <2>1, LeastOf
  <2> QED
    BY <1>3, <2>1, <2>2 DEF FromFile, m
<1> QED
  BY <1>1, <1>3, <1>4 DEF ToSend

LEMMA TransferType ==
  ASSUME TypeInv, NEW c \in Clients, Transfer(c)
  PROVE  TypeOK'
<1> TypeOK /\ ChunkSound(c)
  BY DEF TypeInv
<1> USE Typed
<1>1. CASE WatchSendingFileInfo(c)
  <2>1. h' \in [Clients -> Structs]
    BY <1>1, MovesBecomes DEF WatchSendingFileInfo, States, Checks, Becoming
  <2> QED
    BY <1>1, <2>1, WritesType, RetypedSame
    DEF WatchSendingFileInfo, Writing, Writes
<1>2. CASE WatchReadingFileInfo(c)
  <2>1. wire' \in [Clients -> Seq(Items)] /\ wire[c][1] \in Items
    BY <1>2, ReadsType DEF WatchReadingFileInfo, Expected
  <2>2. h' \in [Clients -> Structs]
    BY <1>2, <2>1, ReadingFileInfoBecomes DEF Becoming
  <2> QED
    BY <1>2, <2>1, <2>2, RetypedSame DEF WatchReadingFileInfo, Reads
<1>3. CASE WatchSendingFileAck(c)
  <2>1. h' \in [Clients -> Structs]
    BY <1>3, SendingFileAckBecomes DEF Becoming
  <2> QED
    BY <1>3, <2>1, WritesType, RetypedSame
    DEF WatchSendingFileAck, Writing, Writes
<1>4. CASE WatchReadingFileAck(c)
  <2>1. wire' \in [Clients -> Seq(Items)] /\ wire[c][2] \in Items
    BY <1>4, ReadsType DEF WatchReadingFileAck, Expected
  <2>2. h' \in [Clients -> Structs]
    BY <1>4, <2>1, ReadingFileAckBecomes DEF Becoming
  <2> QED
    BY <1>4, <2>1, <2>2, RetypedSame DEF WatchReadingFileAck, Reads
<1>5. CASE WatchSendingFileHeader(c)
  <2>1. h' \in [Clients -> Structs]
    BY <1>5, SendingFileHeaderBecomes DEF Becoming
  <2> QED
    BY <1>5, <2>1, WritesType, RetypedSame
    DEF WatchSendingFileHeader, Writing, Writes
<1>6. CASE WatchSendingFile(c)
  <2>1. PICK n \in 1..ToSend(c) :
          /\ wire' = Sent(c, FileData(h[c].offset, n))
          /\ cut' = (cut \/ n < ToSend(c))
    BY <1>6 DEF WatchSendingFile
  <2>2. n \in Nat /\ ToSend(c) \in Nat /\ h[c].offset \in Nat
    <3>1. h[c].offset \in Nat
      BY DEF Structs
    <3>2. ToSend(c) >= 1
      BY <1>6 DEF WatchSendingFile
    <3>3. ToSend(c) \in Nat
      BY <3>2, ToSendType
    <3> QED
      BY <3>1, <3>3
  <2>3. wire' \in [Clients -> Seq(Items)]
    BY <2>1, <2>2, FileDataItems, SentType
  <2>4. h' \in [Clients -> Structs] /\ verdict' \in [Clients -> Verdicts]
    BY <1>6, <2>2, AdvanceBecomes, EndsVerdict
    DEF WatchSendingFile, Becoming, Verdicts
  <2>5. cut' \in BOOLEAN
    BY <2>1
  <2> QED
    BY <1>6, <2>3, <2>4, <2>5, Retyped DEF WatchSendingFile
<1>7. CASE WatchSendingFileEnds(c)
  <2>1. verdict' \in [Clients -> Verdicts]
    BY <1>7, EndsVerdict DEF WatchSendingFileEnds, Verdicts, Errors
  <2> QED
    BY <1>7, <2>1, RetypedSame DEF WatchSendingFileEnds
<1>8. CASE WatchReadingFileHeader(c)
  <2>1. PICK n \in 1..Least({h[c].chunkSize - h[c].chunkOffset, Len(wire[c])}) :
          /\ wire' = Taken(c, n)
          /\ \/ /\ ~ChunkDone(c, n)
                /\ h' = [h EXCEPT ![c].chunkOffset = @ + n,
                                  ![c].buf = Buffered(c, n)]
                /\ UNCHANGED verdict
             \/ /\ ChunkDone(c, n)
                /\ \E type \in Numbers(Buffered(c, n)[1], "bigType"),
                      size \in Numbers(Buffered(c, n)[2], "bigSize") :
                     HeaderRead(c, type, size)
    BY <1>8 DEF WatchReadingFileHeader
  <2>2. n \in 1..Len(wire[c]) /\ n \in Nat /\ Len(wire[c]) \in Nat
    <3>1. h[c].chunkSize - h[c].chunkOffset \in Int
      BY DEF Structs
    <3>2. n \in 1..Len(wire[c]) /\ Len(wire[c]) \in Nat
      BY <3>1, CanTake
    <3> QED
      BY <3>2
  <2>3. wire' \in [Clients -> Seq(Items)]
    BY <2>1, <2>2, TakenType
  <2>4. Buffered(c, n) \in Seq(Items)
    BY <2>2, BufferedType
  <2>5. CASE ~ChunkDone(c, n)
    <3>1. h' \in [Clients -> Structs] /\ UNCHANGED verdict
      BY <2>1, <2>2, <2>4, <2>5, PartBecomes DEF Becoming
    <3> QED
      BY <1>8, <2>3, <3>1, RetypedSame DEF WatchReadingFileHeader
  <2>6. CASE ChunkDone(c, n)
    <3>1. PICK type \in Numbers(Buffered(c, n)[1], "bigType"),
               size \in Numbers(Buffered(c, n)[2], "bigSize") :
                 HeaderRead(c, type, size)
      BY <2>1, <2>6
    <3>2. Len(Buffered(c, n)) >= 2
      <4>1. h[c].chunkSize = 2 /\ h[c].chunkOffset = Len(h[c].buf)
        BY <1>8 DEF WatchReadingFileHeader, Polled, ChunkSound, Open
      <4> QED
        BY <2>2, <2>6, <4>1, BufferedType DEF ChunkDone
    <3>3. Buffered(c, n)[2] \in Items
      BY <2>4, <3>2, ElementOfSeq, LenProperties
    <3>4. size \in Nat
      BY <3>1, <3>3, NumbersType
    <3>5. h' \in [Clients -> Structs] /\ verdict' \in [Clients -> Verdicts]
      BY <3>1, <3>4, HeaderReadBecomes, EndsVerdict
      DEF Becoming, Verdicts, Errors
    <3> QED
      BY <1>8, <2>3, <3>5, RetypedSame DEF WatchReadingFileHeader
  <2> QED
    BY <2>5, <2>6
<1>9. CASE WatchGettingFile(c)
  <2>1. PICK n \in 1..Least({Wanted(c), Len(wire[c])}) :
          /\ got' = got \o Numbered(SubSeq(wire[c], 1, n))
          /\ wire' = Taken(c, n)
          /\ Advance(c, n, "READING_FILE_HEADER")
    BY <1>9 DEF WatchGettingFile
  <2>2. n \in 1..Len(wire[c]) /\ n \in Nat /\ Len(wire[c]) \in Nat
    <3>1. Wanted(c) \in Int
      BY ToSendType
    <3>2. n \in 1..Len(wire[c]) /\ Len(wire[c]) \in Nat
      BY <3>1, CanTake
    <3> QED
      BY <3>2
  <2>3. wire' \in [Clients -> Seq(Items)] /\ SubSeq(wire[c], 1, n) \in Seq(Items)
    BY <2>1, <2>2, TakenType
  <2>4. got' \in Seq(Nat)
    BY <2>1, <2>3, NumberedItems, ConcatProperties
  <2>5. h' \in [Clients -> Structs] /\ verdict' \in [Clients -> Verdicts]
    BY <2>1, <2>2, AdvanceBecomes, EndsVerdict DEF Becoming, Verdicts
  <2> QED
    BY <1>9, <2>3, <2>4, <2>5, Retyped DEF WatchGettingFile
<1>10. CASE WatchGettingFileFails(c)
  <2>1. verdict' \in [Clients -> Verdicts]
    BY <1>10, EndsVerdict DEF WatchGettingFileFails, Verdicts, Errors
  <2> QED
    BY <1>10, <2>1, RetypedSame DEF WatchGettingFileFails
<1> QED
  BY <1>1, <1>2, <1>3, <1>4, <1>5, <1>6, <1>7, <1>8, <1>9, <1>10 DEF Transfer

LEMMA TalkType ==
  ASSUME TypeInv, NEW c \in Clients, Talk(c)
  PROVE  TypeOK'
<1> TypeOK
  BY DEF TypeInv
<1> USE Typed
<1>1. CASE WatchSendingVoiceRequest(c)
  <2>1. h' \in [Clients -> Structs]
    BY <1>1, MovesBecomes DEF WatchSendingVoiceRequest, States, Checks, Becoming
  <2> QED
    BY <1>1, <2>1, WritesType, RetypedSame
    DEF WatchSendingVoiceRequest, Writing, Writes
<1>2. CASE WatchSendingVoiceAck(c)
  <2>1. h' \in [Clients -> Structs]
    BY <1>2, SendingVoiceAckBecomes DEF Becoming
  <2> QED
    BY <1>2, <2>1, WritesType, RetypedSame
    DEF WatchSendingVoiceAck, Writing, Writes
<1>3. CASE WatchReadingVoiceAck(c)
  <2>1. wire' \in [Clients -> Seq(Items)]
    BY <1>3, ReadsType DEF WatchReadingVoiceAck, Expected
  <2>2. h' \in [Clients -> Structs] /\ verdict' \in [Clients -> Verdicts]
    BY <1>3, MovesBecomes, EndsVerdict
    DEF WatchReadingVoiceAck, States, Checks, Becoming, Verdicts, Errors
  <2> QED
    BY <1>3, <2>1, <2>2, RetypedSame DEF WatchReadingVoiceAck, Reads
<1>4. CASE WatchReadingVoiceHeader(c)
  <2>1. wire' \in [Clients -> Seq(Items)]
    BY <1>4, ReadsType DEF WatchReadingVoiceHeader, Expected
  <2>2. h' \in [Clients -> Structs] /\ verdict' \in [Clients -> Verdicts]
    BY <1>4, MovesBecomes, EndsVerdict, ZenonT(40)
    DEF WatchReadingVoiceHeader, States, Checks, Becoming, Verdicts, Errors
  <2> QED
    BY <1>4, <2>1, <2>2, RetypedSame DEF WatchReadingVoiceHeader, Reads
<1>5. CASE WatchReadingVoiceSize(c)
  <2>1. wire' \in [Clients -> Seq(Items)] /\ wire[c][1] \in Items
    BY <1>5, ReadsType DEF WatchReadingVoiceSize, Expected
  <2>2. h' \in [Clients -> Structs] /\ verdict' \in [Clients -> Verdicts]
    BY <1>5, <2>1, ReadingVoiceSizeBecomes, EndsVerdict
    DEF Becoming, Verdicts, Errors
  <2> QED
    BY <1>5, <2>1, <2>2, RetypedSame DEF WatchReadingVoiceSize, Reads
<1>6. CASE WatchReadingVoiceData(c)
  <2>1. PICK n \in 1..Least({h[c].chunkSize - h[c].chunkOffset, Len(wire[c])}) :
          /\ wire' = Taken(c, n)
          /\ \/ /\ h' = [h EXCEPT ![c].chunkOffset = @ + n,
                                  ![c].buf = Buffered(c, n)]
                /\ UNCHANGED heard
             \/ /\ h' = [h EXCEPT ![c].chunkOffset = @ + n, ![c].buf = <<>>,
                                  ![c].state = "READING_VOICE_HEADER"]
                /\ heard' = [heard EXCEPT ![c] =
                                Append(@, Numbered(Buffered(c, n)))]
    BY <1>6 DEF WatchReadingVoiceData
  <2>2. n \in 1..Len(wire[c]) /\ n \in Nat /\ Len(wire[c]) \in Nat
    <3>1. h[c].chunkSize - h[c].chunkOffset \in Int
      BY DEF Structs
    <3>2. n \in 1..Len(wire[c]) /\ Len(wire[c]) \in Nat
      BY <3>1, CanTake
    <3> QED
      BY <3>2
  <2>3. wire' \in [Clients -> Seq(Items)]
    BY <2>1, <2>2, TakenType
  <2>4. Buffered(c, n) \in Seq(Items)
    BY <2>2, BufferedType
  <2>5. h' \in [Clients -> Structs]
    BY <2>1, <2>2, <2>4, PartBecomes, FrameBecomes DEF Becoming
  <2>6. heard' \in [Clients -> Seq(Seq(Nat))]
    <3>1. heard[c] \in Seq(Seq(Nat)) /\ Numbered(Buffered(c, n)) \in Seq(Nat)
      BY <2>4, NumberedItems
    <3>2. Append(heard[c], Numbered(Buffered(c, n))) \in Seq(Seq(Nat))
      BY <3>1, AppendProperties
    <3> QED
      BY <2>1, <3>2
  <2> QED
    BY <1>6, <2>3, <2>5, <2>6, Retyped DEF WatchReadingVoiceData
<1>7. CASE WatchReadingVoiceDataFails(c)
  <2>1. verdict' \in [Clients -> Verdicts]
    BY <1>7, EndsVerdict DEF WatchReadingVoiceDataFails, Verdicts, Errors
  <2> QED
    BY <1>7, <2>1, RetypedSame DEF WatchReadingVoiceDataFails
<1> QED
  BY <1>1, <1>2, <1>3, <1>4, <1>5, <1>6, <1>7 DEF Talk

\* What is sent of a frame.
LEMMA FramePartType ==
  ASSUME TypeOK, NEW c \in Clients, NEW n \in Frames, NEW m \in 0..(n + 2)
  PROVE  /\ n \in Nat /\ Len(said[c]) \in Nat
         /\ SubSeq(VoiceFrame(Len(said[c]) + 1, n), 1, m) \in Seq(Items)
         /\ m = n + 2 => SubSeq(VoiceFrame(Len(said[c]) + 1, n), 1, m)
                           = VoiceFrame(Len(said[c]) + 1, n)
<1>1. n \in Nat /\ Len(said[c]) \in Nat
  BY FramesAssumption, Typed, LenProperties
<1> DEFINE q == VoiceFrame(Len(said[c]) + 1, n)
<1>2. q \in Seq(Items) /\ Len(q) = n + 2
  <2>1. Len(said[c]) + 1 \in Nat
    BY <1>1
  <2> QED
    BY <1>1, <2>1, VoiceFrameItems
<1> HIDE DEF q
<1>3. SubSeq(q, 1, m) \in Seq(Items)
  BY <1>1, <1>2, SubSeqProperties
<1>4. m = n + 2 => SubSeq(q, 1, m) = q
  BY <1>2, SubSeqFull
<1> QED
  BY <1>1, <1>3, <1>4 DEF q

LEMMA OtherType ==
  ASSUME TypeInv, NEW c \in Clients,
         Listen \/ Prepare(c) \/ SetVoice(c) \/ VoiceSend(c) \/ FreeDcc(c)
  PROVE  TypeOK'
<1> TypeOK
  BY DEF TypeInv
<1> USE Typed
<1>1. CASE Listen
  <2>1. life' \in [Clients -> {"none", "up", "freed"}]
    BY <1>1 DEF Listen, Accept, AcceptFails
  <2>2. wire' \in [Clients -> Seq(Items)]
    <3>1. <<>> \in Seq(Items)
      BY EmptySeq
    <3>2. UNCHANGED wire \/ wire' = [wire EXCEPT !["callee"] = <<>>]
      BY <1>1 DEF Listen, Accept, AcceptFails
    <3> QED
      BY <3>1, <3>2
  <2> QED
    BY <1>1, <2>1, <2>2 DEF Listen, Accept, AcceptFails, TypeOK, data
<1>2. CASE FillFileInfo(c)
  BY <1>2, FillFileInfoBecomes, Retyped DEF FillFileInfo, Becoming
<1>3. CASE AnswerFile(c)
  BY <1>3, AnswerFileBecomes, Retyped DEF AnswerFile, Becoming
<1>4. CASE SetVoice(c)
  BY <1>4, SetVoiceBecomes, RetypedSame DEF SetVoice, Becoming
<1>5. CASE VoiceSend(c)
  <2>1. PICK n \in Frames :
          /\ said' = [said EXCEPT ![c] = Append(@, n)]
          /\ \E m \in 0..(n + 2) :
               /\ wire' = Sent(c, SubSeq(VoiceFrame(Len(said[c]) + 1, n), 1, m))
               /\ cut' = (cut \/ m < n + 2)
    BY <1>5 DEF VoiceSend
  <2>2. PICK m \in 0..(n + 2) :
          /\ wire' = Sent(c, SubSeq(VoiceFrame(Len(said[c]) + 1, n), 1, m))
          /\ cut' = (cut \/ m < n + 2)
    BY <2>1
  <2>3. wire' \in [Clients -> Seq(Items)]
    BY <2>2, FramePartType, SentType
  <2>4. said' \in [Clients -> Seq(Nat)]
    <3>1. n \in Nat /\ said[c] \in Seq(Nat)
      BY FramesAssumption
    <3>2. Append(said[c], n) \in Seq(Nat)
      BY <3>1, AppendProperties
    <3> QED
      BY <2>1, <3>2
  <2>5. cut' \in BOOLEAN
    BY <2>2
  <2> QED
    BY <1>5, <2>3, <2>4, <2>5, Retyped DEF VoiceSend, Talks
<1>6. CASE FreeDcc(c)
  <2>1. life' \in [Clients -> {"none", "up", "freed"}]
    BY <1>6 DEF FreeDcc
  <2>2. wire' \in [Clients -> Seq(Items)]
    BY <1>6, EmptySeq DEF FreeDcc
  <2> QED
    BY <1>6, <2>1, <2>2 DEF FreeDcc, TypeOK, data
<1> QED
  BY <1>1, <1>2, <1>3, <1>4, <1>5, <1>6 DEF Prepare

-----------------------------------------------------------------------------
(***************************************************************************)
(* What a client has of a header, a chunk or a frame.                      *)
(***************************************************************************)
\* A client of which a step changes nothing.
LEMMA OtherChunkSound ==
  ASSUME NEW c \in Clients, ChunkSound(c), h'[c] = h[c],
         verdict'[c] = verdict[c], life'[c] = life[c] \/ life'[c] = "freed"
                                   \/ life[c] = "none"
  PROVE  ChunkSound(c)'
BY DEF ChunkSound, Open

\* A client that leaves the states that count.
LEMMA NoChunk ==
  ASSUME NEW c \in Clients, h'[c].state \notin {"READING_FILE_HEADER",
           "GETTING_FILE", "READING_VOICE_DATA", "SENDING_FILE"}
  PROVE  ChunkSound(c)'
BY DEF ChunkSound

LEMMA BrokenChunkSound ==
  ASSUME NEW c \in Clients, verdict'[c] # "running"
  PROVE  ChunkSound(c)'
BY DEF ChunkSound, Open

LEMMA MovesTo ==
  ASSUME h \in [Clients -> Structs], NEW c \in Clients, NEW state \in States,
         NEW check \in Checks, Moves(c, state, check)
  PROVE  h'[c].state = state
<1>1. Becoming(c, [h[c] EXCEPT !.state = state, !.check = check])
  BY MovesBecomes
<1>2. h'[c] = [h[c] EXCEPT !.state = state, !.check = check]
  BY <1>1 DEF Becoming
<1> QED
  BY <1>2 DEF Structs

LEMMA BecomesTo ==
  ASSUME h \in [Clients -> Structs], NEW c \in Clients, NEW type \in Types,
         NEW state \in States, NEW check \in Checks,
         Becomes(c, type, state, check)
  PROVE  h'[c].state = state
<1>1. Becoming(c, [h[c] EXCEPT !.type = type, !.state = state,
                               !.check = check])
  BY TypeBecomes
<1>2. h'[c] = [h[c] EXCEPT !.type = type, !.state = state, !.check = check]
  BY <1>1 DEF Becoming
<1> QED
  BY <1>2 DEF Structs

LEMMA HandshakeChunkSound ==
  ASSUME TypeOK, NEW c \in Clients, ChunkSound(c), Handshake(c)
  PROVE  ChunkSound(c)'
<1> USE Typed
<1>1. CASE WatchConnecting(c)
  BY <1>1, MovesTo, NoChunk DEF WatchConnecting, States, Checks
<1>2. CASE WatchReadingUin(c)
  BY <1>2, MovesTo, NoChunk DEF WatchReadingUin, States, Checks
<1>3. CASE WatchSendingAck(c)
  BY <1>3, MovesTo, NoChunk DEF WatchSendingAck, States, Checks
<1>4. CASE WatchReadingAck(c)
  <2>1. CASE Moves(c, "SENDING_REQUEST", "WRITE")
    BY <2>1, MovesTo, NoChunk DEF States, Checks
  <2>2. CASE Ends(c, "HANDSHAKE")
    BY <2>2, EndsVerdict, BrokenChunkSound DEF Verdicts, Errors
  <2> QED
    BY <1>4, <2>1, <2>2 DEF WatchReadingAck
<1>5. CASE WatchSendingRequest(c)
  <2>1. CASE h[c].type \in {"GET", "SEND", "VOICE"}
    BY <1>5, <2>1, MovesTo, NoChunk DEF WatchSendingRequest, States, Checks
  <2>2. CASE h[c].type \notin {"GET", "SEND", "VOICE"}
    <3>1. h'[c].state = "SENDING_REQUEST"
      BY <1>5, <2>2 DEF WatchSendingRequest, Writes, Polled
    <3> QED
      BY <3>1, NoChunk
  <2> QED
    BY <2>1, <2>2
<1>6. CASE WatchReadingType(c)
  <2>1. CASE \E type \in Types, state \in {"SENDING_FILE_INFO", "READING_REQUEST"},
                check \in Checks : Becomes(c, type, state, check)
    <3>1. h'[c].state \in {"SENDING_FILE_INFO", "READING_REQUEST"}
      BY <2>1, BecomesTo DEF States
    <3> QED
      BY <3>1, NoChunk
  <2>2. CASE Ends(c, "HANDSHAKE")
    BY <2>2, EndsVerdict, BrokenChunkSound DEF Verdicts, Errors
  <2> QED
    BY <1>6, <2>1, <2>2 DEF WatchReadingType, Types, Checks
<1>7. CASE WatchReadingRequest(c)
  <2>1. CASE \E type \in Types, state \in {"READING_FILE_INFO", "SENDING_VOICE_ACK"},
                check \in Checks : Becomes(c, type, state, check)
    <3>1. h'[c].state \in {"READING_FILE_INFO", "SENDING_VOICE_ACK"}
      BY <2>1, BecomesTo DEF States
    <3> QED
      BY <3>1, NoChunk
  <2>2. CASE Ends(c, "HANDSHAKE")
    BY <2>2, EndsVerdict, BrokenChunkSound DEF Verdicts, Errors
  <2>3. h[c].type \in Types
    BY DEF Structs
  <2> QED
    BY <1>7, <2>1, <2>2, <2>3 DEF WatchReadingRequest, Types, Checks
<1>8. CASE HandshakeFails(c)
  BY <1>8, EndsVerdict, BrokenChunkSound DEF HandshakeFails, Verdicts, Errors
<1> QED
  BY <1>1, <1>2, <1>3, <1>4, <1>5, <1>6, <1>7, <1>8 DEF Handshake

\* What a step in the middle of a chunk leaves of it to do.
LEMMA AdvanceChunkSound ==
  ASSUME TypeOK, NEW c \in Clients, ChunkSound(c), NEW n \in Nat,
         \/ h[c].state = "SENDING_FILE" /\ Advance(c, n, "SENDING_FILE_HEADER")
         \/ h[c].state = "GETTING_FILE" /\ Advance(c, n, "READING_FILE_HEADER")
  PROVE  ChunkSound(c)'
<1> DEFINE m == Behind(c, n)
<1> USE Typed
<1>1. PICK next \in {"SENDING_FILE_HEADER", "READING_FILE_HEADER"} :
        /\ next = "SENDING_FILE_HEADER" => h[c].state = "SENDING_FILE"
        /\ next = "READING_FILE_HEADER" => h[c].state = "GETTING_FILE"
        /\ Advance(c, n, next)
  OBVIOUS
<1>2. CASE Ends(c, "DONE")
  <2>1. verdict'[c] = "DONE"
    BY <1>2, EndsVerdict DEF Verdicts
  <2> QED
    BY <2>1, BrokenChunkSound
<1>3. CASE /\ ~ChunkDone(c, n)
           /\ Becoming(c, [h[c] EXCEPT !.offset = m,
                              !.chunkOffset = h[c].chunkOffset + n])
  <2>1. /\ h'[c].state = h[c].state
        /\ h'[c].chunkOffset < h'[c].chunkSize
    <3>1. h'[c] = [h[c] EXCEPT !.offset = m,
                               !.chunkOffset = h[c].chunkOffset + n]
      BY <1>3 DEF Becoming
    <3>2. h[c].chunkOffset + n < h[c].chunkSize
      BY <1>3 DEF ChunkDone, Structs
    <3> HIDE DEF m
    <3> QED
      BY <3>1, <3>2 DEF Structs
  <2> QED
    BY <1>1, <2>1 DEF ChunkSound
<1>4. CASE Becoming(c, [h[c] EXCEPT !.offset = m,
                          !.state = "SENDING_FILE_HEADER",
                          !.chunkOffset = h[c].chunkOffset + n])
  <2>1. h'[c].state = "SENDING_FILE_HEADER"
    BY <1>4 DEF Becoming, Structs
  <2> QED
    BY <2>1, NoChunk
<1>5. CASE Becoming(c, [h[c] EXCEPT !.offset = m,
                          !.state = "READING_FILE_HEADER",
                          !.chunkOffset = 0, !.chunkSize = 2, !.buf = <<>>])
  <2>1. /\ h'[c].state = "READING_FILE_HEADER" /\ h'[c].chunkOffset = 0
        /\ h'[c].chunkSize = 2 /\ h'[c].buf = <<>>
    BY <1>5 DEF Becoming, Structs
  <2> QED
    BY <2>1, EmptySeq DEF ChunkSound
<1> QED
  BY <1>1, <1>2, <1>3, <1>4, <1>5, AdvanceBecomes

LEMMA TransferChunkSound ==
  ASSUME TypeOK, NEW c \in Clients, ChunkSound(c), Transfer(c)
  PROVE  ChunkSound(c)'
<1> USE Typed
<1>1. CASE WatchSendingFileInfo(c)
  BY <1>1, MovesTo, NoChunk DEF WatchSendingFileInfo, States, Checks
<1>2. CASE WatchReadingFileInfo(c)
  <2>1. h'[c].state = "SENDING_FILE_ACK"
    BY <1>2 DEF WatchReadingFileInfo, Structs
  <2> QED
    BY <2>1, NoChunk
<1>3. CASE WatchSendingFileAck(c)
  <2>1. Becoming(c, [h[c] EXCEPT !.state = "READING_FILE_HEADER",
                       !.check = "READ", !.chunkSize = 2, !.chunkOffset = 0,
                       !.buf = <<>>])
    BY <1>3, SendingFileAckBecomes
  <2>2. /\ h'[c].state = "READING_FILE_HEADER" /\ h'[c].chunkOffset = 0
        /\ h'[c].chunkSize = 2 /\ h'[c].buf = <<>>
    BY <2>1 DEF Becoming, Structs
  <2> QED
    BY <2>2, EmptySeq DEF ChunkSound
<1>4. CASE WatchReadingFileAck(c)
  <2>1. h'[c].state = "SENDING_FILE_HEADER"
    BY <1>4 DEF WatchReadingFileAck, Structs
  <2> QED
    BY <2>1, NoChunk
<1>5. CASE WatchSendingFileHeader(c)
  <2>1. ChunkToSend(c) \in Nat
    BY ChunkToSendType
  <2>2. Becoming(c, [h[c] EXCEPT !.chunkOffset = 0,
                       !.chunkSize = ChunkToSend(c), !.state = "SENDING_FILE",
                       !.check = "WRITE"])
    BY <1>5, SendingFileHeaderBecomes
  <2>3. /\ h'[c].state = "SENDING_FILE" /\ h'[c].chunkOffset = 0
        /\ h'[c].chunkSize \in Nat
    BY <2>1, <2>2 DEF Becoming, Structs
  <2> QED
    BY <2>3 DEF ChunkSound
<1>6. CASE WatchSendingFile(c)
  <2>1. ToSend(c) \in Nat /\ h[c].state = "SENDING_FILE"
    BY <1>6, ToSendType DEF WatchSendingFile, Polled
  <2> QED
    BY <1>6, <2>1, AdvanceChunkSound DEF WatchSendingFile
<1>7. CASE WatchSendingFileEnds(c)
  BY <1>7, EndsVerdict, BrokenChunkSound
  DEF WatchSendingFileEnds, Verdicts, Errors
<1>8. CASE WatchReadingFileHeader(c)
  <2>1. PICK n \in 1..Least({h[c].chunkSize - h[c].chunkOffset, Len(wire[c])}) :
          \/ /\ ~ChunkDone(c, n)
             /\ h' = [h EXCEPT ![c].chunkOffset = @ + n,
                               ![c].buf = Buffered(c, n)]
          \/ \E type \in Numbers(Buffered(c, n)[1], "bigType"),
                size \in Numbers(Buffered(c, n)[2], "bigSize") :
               /\ HeaderRead(c, type, size)
               /\ ChunkDone(c, n)
    BY <1>8 DEF WatchReadingFileHeader
  <2>2. n \in 1..Len(wire[c]) /\ n \in Nat /\ Len(wire[c]) \in Nat
    <3>1. h[c].chunkSize - h[c].chunkOffset \in Int
      BY DEF Structs
    <3>2. n \in 1..Len(wire[c]) /\ Len(wire[c]) \in Nat
      BY <3>1, CanTake
    <3> QED
      BY <3>2
  <2>3. Buffered(c, n) \in Seq(Items)
        /\ Len(Buffered(c, n)) = Len(h[c].buf) + n
    BY <2>2, BufferedType
  <2>4. h[c].chunkSize = 2 /\ h[c].chunkOffset = Len(h[c].buf)
        /\ h[c].state = "READING_FILE_HEADER"
    BY <1>8 DEF WatchReadingFileHeader, Polled, ChunkSound, Open
  <2>5. CASE /\ ~ChunkDone(c, n)
             /\ h' = [h EXCEPT ![c].chunkOffset = @ + n,
                               ![c].buf = Buffered(c, n)]
    <3>1. Becoming(c, [h[c] EXCEPT !.chunkOffset = h[c].chunkOffset + n,
                                   !.buf = Buffered(c, n)])
      BY <2>2, <2>3, <2>5, PartBecomes
    <3>2. /\ h'[c].state = "READING_FILE_HEADER" /\ h'[c].chunkSize = 2
          /\ h'[c].chunkOffset = h[c].chunkOffset + n
          /\ h'[c].buf = Buffered(c, n)
      BY <2>4, <3>1 DEF Becoming, Structs
    <3>3. h[c].chunkOffset + n < 2 /\ h[c].chunkOffset \in Nat
      BY <2>2, <2>4, <2>5 DEF ChunkDone, Structs
    <3>4. Len(h'[c].buf) = h'[c].chunkOffset /\ h'[c].chunkOffset < 2
      BY <2>3, <2>4, <3>2, <3>3
    <3> QED
      BY <3>2, <3>4 DEF ChunkSound
  <2>6. ASSUME NEW type, NEW size \in Numbers(Buffered(c, n)[2], "bigSize"),
               HeaderRead(c, type, size), ChunkDone(c, n)
        PROVE  ChunkSound(c)'
    <3>1. Len(Buffered(c, n)) >= 2
      BY <2>2, <2>3, <2>4, <2>6 DEF ChunkDone
    <3>2. Buffered(c, n)[2] \in Items
      BY <2>3, <3>1, ElementOfSeq, LenProperties
    <3>3. size \in Nat
      BY <2>6, <3>2, NumbersType
    <3>4. CASE /\ size # 0
               /\ Becoming(c, [h[c] EXCEPT !.buf = <<>>, !.chunkSize = size,
                                 !.chunkOffset = 0, !.state = "GETTING_FILE"])
      <4>1. /\ h'[c].state = "GETTING_FILE" /\ h'[c].chunkSize = size
            /\ h'[c].chunkOffset = 0
        BY <3>4 DEF Becoming, Structs
      <4> QED
        BY <3>3, <3>4, <4>1 DEF ChunkSound
    <3>5. CASE Ends(c, "REFUSED") \/ Ends(c, "DONE")
      BY <3>5, EndsVerdict, BrokenChunkSound DEF Verdicts, Errors
    <3> QED
      BY <2>6, <3>3, <3>4, <3>5, HeaderReadBecomes
  <2> QED
    BY <2>1, <2>5, <2>6
<1>9. CASE WatchGettingFile(c)
  <2>1. PICK n \in 1..Least({Wanted(c), Len(wire[c])}) :
          Advance(c, n, "READING_FILE_HEADER")
    BY <1>9 DEF WatchGettingFile
  <2>2. n \in Nat
    <3>1. Wanted(c) \in Int
      BY ToSendType
    <3>2. n \in 1..Len(wire[c]) /\ Len(wire[c]) \in Nat
      BY <3>1, CanTake
    <3> QED
      BY <3>2
  <2>3. h[c].state = "GETTING_FILE"
    BY <1>9 DEF WatchGettingFile, Polled
  <2> QED
    BY <2>1, <2>2, <2>3, AdvanceChunkSound
<1>10. CASE WatchGettingFileFails(c)
  BY <1>10, EndsVerdict, BrokenChunkSound
  DEF WatchGettingFileFails, Verdicts, Errors
<1> QED
  BY <1>1, <1>2, <1>3, <1>4, <1>5, <1>6, <1>7, <1>8, <1>9, <1>10 DEF Transfer

LEMMA TalkChunkSound ==
  ASSUME TypeOK, NEW c \in Clients, ChunkSound(c), Talk(c)
  PROVE  ChunkSound(c)'
<1> USE Typed
<1>1. CASE WatchSendingVoiceRequest(c)
  BY <1>1, MovesTo, NoChunk DEF WatchSendingVoiceRequest, States, Checks
<1>2. CASE WatchSendingVoiceAck(c)
  <2>1. h'[c].state = "READING_VOICE_HEADER"
    BY <1>2 DEF WatchSendingVoiceAck, Structs
  <2> QED
    BY <2>1, NoChunk
<1>3. CASE WatchReadingVoiceAck(c)
  <2>1. CASE Moves(c, "READING_VOICE_HEADER", "READ")
    BY <2>1, MovesTo, NoChunk DEF States, Checks
  <2>2. CASE Ends(c, "REFUSED")
    BY <2>2, EndsVerdict, BrokenChunkSound DEF Verdicts, Errors
  <2> QED
    BY <1>3, <2>1, <2>2 DEF WatchReadingVoiceAck
<1>4. CASE WatchReadingVoiceHeader(c)
  <2>1. CASE Moves(c, "READING_VOICE_SIZE", "READ")
    BY <2>1, MovesTo, NoChunk DEF States, Checks
  <2>2. CASE Ends(c, "HANDSHAKE")
    BY <2>2, EndsVerdict, BrokenChunkSound DEF Verdicts, Errors
  <2> QED
    BY <1>4, <2>1, <2>2 DEF WatchReadingVoiceHeader
<1>5. CASE WatchReadingVoiceSize(c)
  <2>1. wire[c][1] \in Items
    BY <1>5, ReadsType DEF WatchReadingVoiceSize, Expected
  <2>2. CASE Ends(c, "NET")
    BY <2>2, EndsVerdict, BrokenChunkSound DEF Verdicts, Errors
  <2>3. ASSUME NEW n \in Nat, MinFrame <= n,
               Becoming(c, [h[c] EXCEPT !.state = "READING_VOICE_DATA",
                              !.check = "READ", !.chunkSize = n,
                              !.chunkOffset = 0, !.buf = <<>>])
        PROVE  ChunkSound(c)'
    <3>1. /\ h'[c].state = "READING_VOICE_DATA" /\ h'[c].chunkSize = n
          /\ h'[c].chunkOffset = 0
      BY <2>3 DEF Becoming, Structs
    <3> QED
      BY <2>3, <3>1, SizesAssumption DEF ChunkSound
  <2> QED
    BY <1>5, <2>1, <2>2, <2>3, ReadingVoiceSizeBecomes
<1>6. CASE WatchReadingVoiceData(c)
  <2>1. PICK n \in 1..Least({h[c].chunkSize - h[c].chunkOffset, Len(wire[c])}) :
          \/ /\ ~ChunkDone(c, n)
             /\ h' = [h EXCEPT ![c].chunkOffset = @ + n,
                               ![c].buf = Buffered(c, n)]
          \/ h' = [h EXCEPT ![c].chunkOffset = @ + n, ![c].buf = <<>>,
                            ![c].state = "READING_VOICE_HEADER"]
    BY <1>6 DEF WatchReadingVoiceData
  <2>2. n \in 1..Len(wire[c]) /\ n \in Nat /\ Len(wire[c]) \in Nat
    <3>1. h[c].chunkSize - h[c].chunkOffset \in Int
      BY DEF Structs
    <3>2. n \in 1..Len(wire[c]) /\ Len(wire[c]) \in Nat
      BY <3>1, CanTake
    <3> QED
      BY <3>2
  <2>3. CASE /\ ~ChunkDone(c, n)
             /\ h' = [h EXCEPT ![c].chunkOffset = @ + n,
                               ![c].buf = Buffered(c, n)]
    <3>1. Becoming(c, [h[c] EXCEPT !.chunkOffset = h[c].chunkOffset + n,
                                   !.buf = Buffered(c, n)])
      BY <2>2, <2>3, BufferedType, PartBecomes
    <3>2. /\ h'[c].state = "READING_VOICE_DATA"
          /\ h'[c].chunkOffset < h'[c].chunkSize
      <4>1. h[c].state = "READING_VOICE_DATA"
        BY <1>6 DEF WatchReadingVoiceData, Polled
      <4>2. h'[c] = [h[c] EXCEPT !.chunkOffset = h[c].chunkOffset + n,
                                 !.buf = Buffered(c, n)]
        BY <3>1 DEF Becoming
      <4>3. h[c].chunkOffset + n < h[c].chunkSize
        BY <2>2, <2>3 DEF ChunkDone, Structs
      <4> QED
        BY <4>1, <4>2, <4>3 DEF Structs
    <3> QED
      BY <3>2 DEF ChunkSound
  <2>4. CASE h' = [h EXCEPT ![c].chunkOffset = @ + n, ![c].buf = <<>>,
                            ![c].state = "READING_VOICE_HEADER"]
    <3>1. h'[c].state = "READING_VOICE_HEADER"
      BY <2>4 DEF Structs
    <3> QED
      BY <3>1, NoChunk
  <2> QED
    BY <2>1, <2>3, <2>4
<1>7. CASE WatchReadingVoiceDataFails(c)
  BY <1>7, EndsVerdict, BrokenChunkSound
  DEF WatchReadingVoiceDataFails, Verdicts, Errors
<1> QED
  BY <1>1, <1>2, <1>3, <1>4, <1>5, <1>6, <1>7 DEF Talk

\* A step of one client leaves the structure of the other alone.
LEMMA StepsAlone ==
  ASSUME TypeOK, NEW c \in Clients,
         Watch(c) \/ Prepare(c) \/ SetVoice(c) \/ VoiceSend(c) \/ FreeDcc(c)
  PROVE  /\ h'[Other(c)] = h[Other(c)]
         /\ verdict'[Other(c)] = verdict[Other(c)]
         /\ life'[Other(c)] = life[Other(c)]
<1> USE Typed, OtherClient
<1>1. CASE Handshake(c)
  BY <1>1 DEF Handshake, WatchConnecting, WatchReadingUin, WatchSendingAck,
    WatchReadingAck, WatchSendingRequest, WatchReadingType,
    WatchReadingRequest, HandshakeFails, Writes, Reads, Moves, Becomes, Ends
<1>2. CASE Transfer(c)
  <2>1. CASE \/ WatchSendingFile(c) \/ WatchGettingFile(c)
    BY <2>1 DEF WatchSendingFile, WatchGettingFile, Advance, ChunkBegins, Ends
  <2>2. CASE WatchReadingFileHeader(c)
    BY <2>2 DEF WatchReadingFileHeader, HeaderRead, Ends
  <2>3. CASE ~(\/ WatchSendingFile(c) \/ WatchGettingFile(c)
               \/ WatchReadingFileHeader(c))
    BY <1>2, <2>3 DEF Transfer, WatchSendingFileInfo, WatchReadingFileInfo,
      WatchSendingFileAck, WatchReadingFileAck, WatchSendingFileHeader,
      WatchSendingFileEnds, WatchGettingFileFails, Writes, Reads, Moves, Ends
  <2> QED
    BY <2>1, <2>2, <2>3
<1>3. CASE Talk(c)
  BY <1>3 DEF Talk, WatchSendingVoiceRequest, WatchSendingVoiceAck,
    WatchReadingVoiceAck, WatchReadingVoiceHeader, WatchReadingVoiceSize,
    WatchReadingVoiceData, WatchReadingVoiceDataFails, Writes, Reads, Moves,
    Ends
<1>4. CASE Prepare(c) \/ SetVoice(c) \/ VoiceSend(c) \/ FreeDcc(c)
  BY <1>4 DEF Prepare, FillFileInfo, AnswerFile, SetVoice, VoiceSend, FreeDcc
<1> QED
  BY <1>1, <1>2, <1>3, <1>4 DEF Watch

LEMMA QuietChunkSound ==
  ASSUME TypeOK, NEW c \in Clients, ChunkSound(c),
         Prepare(c) \/ SetVoice(c) \/ VoiceSend(c) \/ FreeDcc(c)
  PROVE  ChunkSound(c)'
<1> USE Typed
<1>1. CASE FillFileInfo(c)
  BY <1>1 DEF FillFileInfo, ChunkSound, Open, Structs
<1>2. CASE AnswerFile(c)
  BY <1>2 DEF AnswerFile, ChunkSound, Open, Structs
<1>3. CASE SetVoice(c)
  BY <1>3, NoChunk DEF SetVoice, Structs
<1>4. CASE VoiceSend(c)
  BY <1>4 DEF VoiceSend, ChunkSound, Open
<1>5. CASE FreeDcc(c)
  BY <1>5 DEF FreeDcc, ChunkSound, Open
<1> QED
  BY <1>1, <1>2, <1>3, <1>4, <1>5 DEF Prepare

LEMMA TypeInvStep == TypeInv /\ [Next]_vars => TypeInv'
<1> SUFFICES ASSUME TypeInv, [Next]_vars PROVE TypeInv'
  OBVIOUS
<1> TypeOK /\ \A c \in Clients : ChunkSound(c)
  BY DEF TypeInv
<1>1. CASE Listen
  <2>1. ASSUME NEW c \in Clients PROVE ChunkSound(c)'
    BY <1>1, Typed, OtherChunkSound DEF Listen, Accept, AcceptFails
  <2> QED
    BY <1>1, <2>1, OtherType DEF TypeInv, Clients
<1>2. ASSUME NEW c \in Clients,
             Watch(c) \/ Prepare(c) \/ SetVoice(c) \/ VoiceSend(c) \/ FreeDcc(c)
      PROVE  TypeInv'
  <2>1. TypeOK'
    BY <1>2, HandshakeType, TransferType, TalkType, OtherType DEF Watch
  <2>2. ChunkSound(c)'
    BY <1>2, HandshakeChunkSound, TransferChunkSound, TalkChunkSound,
       QuietChunkSound DEF Watch
  <2>3. ChunkSound(Other(c))'
    BY <1>2, StepsAlone, OtherClient, OtherChunkSound
  <2> QED
    BY <2>1, <2>2, <2>3, OtherClient DEF TypeInv
<1>3. CASE UNCHANGED vars
  BY <1>3 DEF TypeInv, TypeOK, ChunkSound, Open, vars, data
<1> QED
  BY <1>1, <1>2, <1>3 DEF Next

LEMMA TypeInvInit == Init => TypeInv
<1> SUFFICES ASSUME Init PROVE TypeInv
  OBVIOUS
<1>1. ASSUME NEW type \in Types, NEW state \in States, NEW check \in Checks
      PROVE  Fresh(type, state, check) \in Structs
             /\ Fresh(type, state, check).state = state
  BY EmptySeq DEF Fresh, Structs, Checks
<1>2. PICK type \in {"SEND", "GET", "VOICE"} :
        h = [c \in Clients |-> IF c = "caller"
                               THEN Fresh(type, "CONNECTING", "WRITE")
                               ELSE Fresh("DCC", "READING_UIN_1", "READ")]
  BY DEF Init
<1>3. /\ Fresh(type, "CONNECTING", "WRITE") \in Structs
      /\ Fresh("DCC", "READING_UIN_1", "READ") \in Structs
      /\ Fresh(type, "CONNECTING", "WRITE").state = "CONNECTING"
      /\ Fresh("DCC", "READING_UIN_1", "READ").state = "READING_UIN_1"
  BY <1>1 DEF Types, States, Checks
<1>4. h \in [Clients -> Structs] /\ \A c \in Clients :
        h[c].state \in {"CONNECTING", "READING_UIN_1"}
  BY <1>2, <1>3
<1>5. TypeOK
  BY <1>4, EmptySeq DEF Init, TypeOK, Structs
<1>6. \A c \in Clients : ChunkSound(c)
  BY <1>4 DEF ChunkSound
<1> QED
  BY <1>5, <1>6 DEF TypeInv

\* The two structures, the streams and what the clients have of the file and
\* of the conversation have their types, in every run of a direct connection.
THEOREM TypeCorrect == Spec => []TypeOK
<1>1. Spec => []TypeInv
  BY TypeInvInit, TypeInvStep, PTL DEF Spec
<1> QED
  BY <1>1, PTL DEF TypeInv
=============================================================================
