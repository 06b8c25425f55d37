--------------------------------- MODULE Dcc ---------------------------------
(***************************************************************************)
(* A direct connection between two clients: the struct gg_dcc of the one   *)
(* that dials (gg_dcc_send_file(), gg_dcc_get_file(), gg_dcc_voice_chat()) *)
(* and of the one that accepts, both advanced by gg_dcc_watch_fd(), with   *)
(* the byte stream between them in each direction.                         *)
(*                                                                         *)
(* A packet of the handshake is one item of a stream, struct               *)
(* gg_dcc_big_packet two, and a unit of file or voice data one: an item of *)
(* a file is its position there, an item of voice the number of its frame. *)
(***************************************************************************)
EXTENDS Integers, Sequences

CONSTANTS
  MaxChunk,   \* the longest chunk of a file, 4096
  BufSize,    \* sizeof(buf), 1024
  MinFrame,   \* the shortest frame of voice, 16
  Word,       \* 2^32: the fields of a file are unsigned int
  Files,      \* [stat, actual]: a file's length when stat() was called and
              \* when it is read
  Resumes,    \* the offsets a receiving client goes on at
  Frames,     \* the lengths of the voice frames that are sent
  MaxFrames,  \* how many of them the two send
  Garbage     \* what is read for a number where it is not

ASSUME SizesAssumption ==
  /\ {MaxChunk, BufSize, MinFrame, Word} \subseteq Nat \ {0}
  /\ MaxChunk < Word
\* Lengths and offsets are below 2^31: stat() has a signed length, lseek() takes
\* a signed offset, and an int holds the difference of two of them.
Lengths == {n \in 0..(Word - 1) : 2 * n < Word}
ASSUME FilesAssumption ==
  Files \subseteq [stat : Lengths, actual : Lengths] /\ Resumes \subseteq Lengths
ASSUME FramesAssumption ==
  Frames \subseteq Nat /\ MaxFrames \in Nat /\ Garbage \subseteq Lengths

VARIABLES
  h,        \* the struct gg_dcc of each client
  life,     \* "none", "up", or "freed" by gg_dcc_free()
  verdict,  \* "running", or what the last event said: it is over
  wire,     \* what is on its way to each client
  file,     \* the file that is sent
  resume,   \* the offset the receiver asked for
  got,      \* what was written behind that
  cut,      \* a short write() went by unnoticed
  said,     \* the lengths of the frames each client spoke
  heard     \* the frames each client was given

data == <<file, resume, got, cut, said, heard>>
vars == <<h, life, verdict, wire, data>>

Clients == {"caller", "callee"}
Other(c) == IF c = "caller" THEN "callee" ELSE "caller"

States == {"CONNECTING", "READING_UIN_1", "READING_UIN_2", "SENDING_ACK",
  "READING_ACK", "READING_TYPE", "SENDING_REQUEST", "READING_REQUEST",
  "SENDING_FILE_INFO", "READING_FILE_INFO", "SENDING_FILE_ACK",
  "READING_FILE_ACK", "SENDING_FILE_HEADER", "READING_FILE_HEADER",
  "SENDING_FILE", "GETTING_FILE", "SENDING_VOICE_REQUEST",
  "SENDING_VOICE_ACK", "READING_VOICE_ACK", "READING_VOICE_HEADER",
  "READING_VOICE_SIZE", "READING_VOICE_DATA"}
Types == {"DCC", "SEND", "GET", "VOICE"}
Errors == {"HANDSHAKE", "NET", "FILE", "EOF", "REFUSED"}
Items == [kind : {"uin", "ack", "small", "tiny", "info", "bigType", "bigSize",
                  "data", "voice"},
          val : Nat]
Item(kind, val) == [kind |-> kind, val |-> val]
Numbered(items) == [i \in DOMAIN items |-> items[i].val]
Big(type, n) == <<Item("bigType", type), Item("bigSize", n)>>

TypeOK ==
  /\ h \in [Clients -> [type : Types, state : States, check : {"READ", "WRITE"},
              fileFd : BOOLEAN, size : Nat, offset : Nat, chunkSize : Nat,
              chunkOffset : Nat, buf : Seq(Items)]]
  /\ life \in [Clients -> {"none", "up", "freed"}]
  /\ verdict \in [Clients -> {"running", "DONE"} \cup Errors]
  /\ wire \in [Clients -> Seq(Items)]
  /\ file \in [stat : Nat, actual : Nat]
  /\ resume \in Nat /\ got \in Seq(Nat) /\ cut \in BOOLEAN
  /\ said \in [Clients -> Seq(Nat)] /\ heard \in [Clients -> Seq(Seq(Nat))]

Fresh(type, state, check) ==
  [type |-> type, state |-> state, check |-> check, fileFd |-> FALSE,
   size |-> 0, offset |-> 0, chunkSize |-> 0, chunkOffset |-> 0,
   buf |-> <<>>]

\* The first client has called gg_dcc_transfer(), which connected.
Init ==
  /\ \E type \in {"SEND", "GET", "VOICE"} :
       h = [c \in Clients |-> IF c = "caller"
                              THEN Fresh(type, "CONNECTING", "WRITE")
                              ELSE Fresh("DCC", "READING_UIN_1", "READ")]
  /\ life = [c \in Clients |-> IF c = "caller" THEN "up" ELSE "none"]
  /\ verdict = [c \in Clients |-> "running"]
  /\ wire = [c \in Clients |-> <<>>]
  /\ file = [stat |-> 0, actual |-> 0] /\ resume = 0 /\ got = <<>>
  /\ cut = FALSE
  /\ said = [c \in Clients |-> <<>>] /\ heard = [c \in Clients |-> <<>>]

-----------------------------------------------------------------------------
(***************************************************************************)
(* A client calls gg_dcc_watch_fd() when the socket is ready for what      *)
(* check asks, until an event says that it is over; then it calls          *)
(* gg_dcc_free().                                                          *)
(***************************************************************************)
Readable(c) == wire[c] # <<>> \/ life[Other(c)] = "freed"

Polled(c, state) ==
  /\ life[c] = "up" /\ verdict[c] = "running" /\ h[c].state = state
  /\ h[c].check = "WRITE" \/ Readable(c)

Moves(c, state, check) ==
  h' = [h EXCEPT ![c].state = state, ![c].check = check]

Ends(c, event) == verdict' = [verdict EXCEPT ![c] = event]

\* What c writes never comes to a client that has closed its end.
Sent(c, items) ==
  IF life[Other(c)] = "freed" THEN wire
  ELSE [wire EXCEPT ![Other(c)] = @ \o items]

\* A read() takes the first n of what has come to c.
Taken(c, n) == [wire EXCEPT ![c] = SubSeq(@, n + 1, Len(@))]

Least(S) == CHOOSE n \in S : \A m \in S : n <= m

\* Fault: the fields are signed.
ChunkToSendSigned(c) ==
  IF h[c].size - h[c].offset > MaxChunk THEN MaxChunk
  ELSE h[c].size - h[c].offset

\* The length of the chunk c is about to announce: the fields are unsigned.
ChunkToSend(c) == Least({(h[c].size - h[c].offset) % Word, MaxChunk})

\* The packet c writes in its state.
Packet(c) ==
  CASE h[c].state = "CONNECTING" -> <<Item("uin", 1), Item("uin", 2)>>
    [] h[c].state = "SENDING_ACK" -> <<Item("ack", 0)>>
    [] h[c].state = "SENDING_REQUEST" ->
         <<Item("small", IF h[c].type = "GET" THEN 3 ELSE 2)>>
    [] h[c].state = "SENDING_VOICE_REQUEST" -> <<Item("small", 3)>>
    [] h[c].state = "SENDING_VOICE_ACK" -> <<Item("tiny", 1)>>
    [] h[c].state = "SENDING_FILE_INFO" ->
         <<Item("small", 1), Item("info", h[c].size)>>
    [] h[c].state = "SENDING_FILE_ACK" -> Big(6, h[c].offset)
    [] h[c].state = "SENDING_FILE_HEADER" ->
         Big(IF (h[c].size - h[c].offset) % Word > MaxChunk THEN 3 ELSE 2,
             ChunkToSend(c))

\* What c has to read at once in its state.
Expected ==
  [READING_UIN_1 |-> <<"uin">>, READING_UIN_2 |-> <<"uin">>,
   READING_ACK |-> <<"ack">>, READING_TYPE |-> <<"small">>,
   READING_REQUEST |-> <<"small">>, READING_FILE_INFO |-> <<"info">>,
   READING_FILE_ACK |-> <<"bigType", "bigSize">>,
   READING_VOICE_ACK |-> <<"tiny">>, READING_VOICE_HEADER |-> <<"tiny">>,
   READING_VOICE_SIZE |-> <<"small">>]

Writing == {"CONNECTING", "SENDING_ACK", "SENDING_REQUEST",
  "SENDING_VOICE_REQUEST", "SENDING_VOICE_ACK", "SENDING_FILE_INFO",
  "SENDING_FILE_ACK", "SENDING_FILE_HEADER"}

\* The file that is sent is known: without it, gg_dcc_watch_fd() asks for it.
Prepared(c) == h[c].state = "SENDING_FILE_INFO" => h[c].fileFd

\* A client that was offered a file goes on once it has opened one for it.
Answered(c) == h[c].state = "SENDING_FILE_ACK" => h[c].fileFd

\* gg_write: the packet of a state leaves as a whole.
Writes(c, state) ==
  /\ Polled(c, state) /\ Prepared(c) /\ Answered(c)
  /\ wire' = Sent(c, Packet(c))
  /\ UNCHANGED <<life, data>>

\* gg_read: it arrives as a whole.
Reads(c, state) ==
  /\ Polled(c, state)
  /\ Len(wire[c]) >= Len(Expected[state])
  /\ wire' = Taken(c, Len(Expected[state]))
  /\ UNCHANGED <<life, data>>

\* The number an item stands for when it is read as one of this kind.
Numbers(item, kind) == IF item.kind = kind THEN {item.val} ELSE Garbage

\* Both macros take whatever is short for an error.
HandshakeFails(c) ==
  /\ \/ /\ \E state \in DOMAIN Expected : Polled(c, state)
        /\ UNCHANGED wire
     \/ /\ \E state \in Writing : Polled(c, state)
        /\ Prepared(c) /\ Answered(c)
        /\ \E n \in 0..(Len(Packet(c)) - 1) :
             wire' = Sent(c, SubSeq(Packet(c), 1, n))
  /\ Ends(c, "HANDSHAKE")
  /\ UNCHANGED <<h, life, data>>

-----------------------------------------------------------------------------
(***************************************************************************)
(* The handshake.                                                          *)
(***************************************************************************)
Accept ==
  /\ life["callee"] = "none"
  /\ life' = [life EXCEPT !["callee"] = "up"]
  /\ UNCHANGED <<h, verdict, wire, data>>

\* ioctl() fails on the socket of the new connection, which is closed.
AcceptFails ==
  /\ life["callee"] = "none"
  /\ life' = [life EXCEPT !["callee"] = "freed"]
  /\ wire' = [wire EXCEPT !["callee"] = <<>>]
  /\ UNCHANGED <<h, verdict, data>>

WatchConnecting(c) ==
  /\ Writes(c, "CONNECTING")
  /\ Moves(c, "READING_ACK", "READ")
  /\ UNCHANGED verdict

WatchReadingUin(c) ==
  /\ \/ Reads(c, "READING_UIN_1") /\ Moves(c, "READING_UIN_2", "READ")
     \/ Reads(c, "READING_UIN_2") /\ Moves(c, "SENDING_ACK", "WRITE")
  /\ UNCHANGED verdict

WatchSendingAck(c) ==
  /\ Writes(c, "SENDING_ACK")
  /\ Moves(c, "READING_TYPE", "READ")
  /\ UNCHANGED verdict

WatchReadingAck(c) ==
  /\ Reads(c, "READING_ACK")
  /\ IF wire[c][1].kind = "ack"
     THEN Moves(c, "SENDING_REQUEST", "WRITE") /\ UNCHANGED verdict
     ELSE Ends(c, "HANDSHAKE") /\ UNCHANGED h

WatchSendingRequest(c) ==
  /\ Writes(c, "SENDING_REQUEST")
  /\ CASE h[c].type = "GET" -> Moves(c, "READING_REQUEST", "READ")
       [] h[c].type = "SEND" -> Moves(c, "SENDING_FILE_INFO", "WRITE")
       [] h[c].type = "VOICE" -> Moves(c, "SENDING_VOICE_REQUEST", "WRITE")
       [] OTHER -> UNCHANGED h
  /\ UNCHANGED verdict

Becomes(c, type, state, check) ==
  /\ h' = [h EXCEPT ![c].type = type, ![c].state = state, ![c].check = check]
  /\ UNCHANGED verdict

\* Fault: the client that is called back takes itself for the receiver.
WatchReadingTypeConfused(c) ==
  /\ Reads(c, "READING_TYPE")
  /\ CASE wire[c][1] = Item("small", 3) ->
            Becomes(c, "GET", "SENDING_FILE_INFO", "WRITE")
       [] wire[c][1] = Item("small", 2) ->
            Becomes(c, "GET", "READING_REQUEST", "READ")
       [] OTHER -> Ends(c, "HANDSHAKE") /\ UNCHANGED h

\* Called back, the client offers something; dialled in, it is offered it.
WatchReadingType(c) ==
  /\ Reads(c, "READING_TYPE")
  /\ CASE wire[c][1] = Item("small", 3) ->
            Becomes(c, "SEND", "SENDING_FILE_INFO", "WRITE")
       [] wire[c][1] = Item("small", 2) ->
            Becomes(c, "GET", "READING_REQUEST", "READ")
       [] OTHER -> Ends(c, "HANDSHAKE") /\ UNCHANGED h

\* A file or a voice chat is offered.
WatchReadingRequest(c) ==
  /\ Reads(c, "READING_REQUEST")
  /\ CASE wire[c][1] = Item("small", 1) ->
            Becomes(c, h[c].type, "READING_FILE_INFO", "READ")
       [] wire[c][1] = Item("small", 3) ->
            Becomes(c, "VOICE", "SENDING_VOICE_ACK", "WRITE")
       [] OTHER -> Ends(c, "HANDSHAKE") /\ UNCHANGED h

\* gg_dcc_set_type(): the client that was called back wants to talk instead.
SetVoice(c) ==
  /\ life[c] = "up" /\ verdict[c] = "running" /\ c = "callee"
  /\ h[c].state = "SENDING_FILE_INFO" /\ ~h[c].fileFd
  /\ h' = [h EXCEPT ![c].type = "VOICE", ![c].state = "SENDING_VOICE_REQUEST"]
  /\ UNCHANGED <<life, verdict, wire, data>>

-----------------------------------------------------------------------------
(***************************************************************************)
(* A file.                                                                 *)
(***************************************************************************)
\* gg_dcc_fill_file_info(): the file is opened and its length noted.
FillFileInfo(c) ==
  /\ life[c] = "up" /\ verdict[c] = "running"
  /\ h[c].type = "SEND" /\ ~h[c].fileFd
  /\ \E f \in Files :
       /\ file' = f
       /\ h' = [h EXCEPT ![c].fileFd = TRUE, ![c].size = f.stat]
  /\ UNCHANGED <<life, verdict, wire, resume, got, cut, said, heard>>

WatchSendingFileInfo(c) ==
  /\ Writes(c, "SENDING_FILE_INFO")
  /\ Moves(c, "READING_FILE_ACK", "READ")
  /\ UNCHANGED verdict

WatchReadingFileInfo(c) ==
  /\ Reads(c, "READING_FILE_INFO")
  /\ \E n \in Numbers(wire[c][1], "info") :
       h' = [h EXCEPT ![c].size = n, ![c].check = "WRITE",
                      ![c].state = "SENDING_FILE_ACK"]
  /\ UNCHANGED verdict

\* The client opens a file, and goes on behind what it has of it.
AnswerFile(c) ==
  /\ life[c] = "up" /\ verdict[c] = "running"
  /\ h[c].state = "SENDING_FILE_ACK" /\ ~h[c].fileFd
  /\ \E n \in Resumes :
       /\ resume' = n
       /\ h' = [h EXCEPT ![c].fileFd = TRUE, ![c].offset = n]
  /\ UNCHANGED <<life, verdict, wire, file, got, cut, said, heard>>

WatchSendingFileAck(c) ==
  /\ Writes(c, "SENDING_FILE_ACK")
  /\ h' = [h EXCEPT ![c].state = "READING_FILE_HEADER", ![c].check = "READ",
                    ![c].chunkSize = 2, ![c].chunkOffset = 0, ![c].buf = <<>>]
  /\ UNCHANGED verdict

\* Fault: the offset of the answer is not looked at.
WatchReadingFileAckUnread(c) ==
  /\ Reads(c, "READING_FILE_ACK")
  /\ Moves(c, "SENDING_FILE_HEADER", "WRITE")
  /\ UNCHANGED verdict

\* Fault: the sender goes on waiting for its socket to become readable.
WatchReadingFileAckStill(c) ==
  /\ Reads(c, "READING_FILE_ACK")
  /\ \E n \in Numbers(wire[c][2], "bigSize") :
       h' = [h EXCEPT ![c].offset = n, ![c].state = "SENDING_FILE_HEADER"]
  /\ UNCHANGED verdict

WatchReadingFileAck(c) ==
  /\ Reads(c, "READING_FILE_ACK")
  /\ \E n \in Numbers(wire[c][2], "bigSize") :
       h' = [h EXCEPT ![c].offset = n, ![c].check = "WRITE",
                      ![c].state = "SENDING_FILE_HEADER"]
  /\ UNCHANGED verdict

WatchSendingFileHeader(c) ==
  /\ Writes(c, "SENDING_FILE_HEADER")
  /\ h' = [h EXCEPT ![c].chunkOffset = 0, ![c].chunkSize = ChunkToSend(c),
                    ![c].state = "SENDING_FILE", ![c].check = "WRITE"]
  /\ UNCHANGED verdict

\* Fault: only the buffer limits a read().
WantedUnlimited(c) == BufSize

\* What is left of the chunk, but no more than fits the buffer.
Wanted(c) == Least({h[c].chunkSize - h[c].chunkOffset, BufSize})

\* What read() returns of the file.
FromFile(c) == Least({Wanted(c), IF h[c].offset < file.actual
                                 THEN file.actual - h[c].offset ELSE 0})

\* Fault: what is too much is not cut off.
ToSendAll(c) == FromFile(c)

\* What of that is not behind the end of the file, as stat() had it.
ToSend(c) ==
  IF (h[c].offset + FromFile(c)) % Word > h[c].size
  THEN h[c].size - h[c].offset
  ELSE FromFile(c)

FileData(from, n) == [i \in 1..n |-> Item("data", from + i)]

\* The offset behind n more units of the file.
Behind(c, n) == (h[c].offset + n) % Word

\* With n more units c has all of the chunk, the header or the frame.
ChunkDone(c, n) == h[c].chunkOffset + n >= h[c].chunkSize

\* The next header is due, which only its reader counts.
ChunkBegins(c, n, next) ==
  IF next = "READING_FILE_HEADER"
  THEN h' = [h EXCEPT ![c].offset = Behind(c, n), ![c].state = next,
                      ![c].chunkOffset = 0, ![c].chunkSize = 2,
                      ![c].buf = <<>>]
  ELSE h' = [h EXCEPT ![c].offset = Behind(c, n), ![c].state = next,
                      ![c].chunkOffset = @ + n]

\* Fault: the end of the chunk is looked at before that of the file.
AdvanceByChunks(c, n, next) ==
  /\ \/ ChunkDone(c, n) /\ ChunkBegins(c, n, next)
     \/ /\ ~ChunkDone(c, n)
        /\ h' = [h EXCEPT ![c].offset = Behind(c, n), ![c].chunkOffset = @ + n]
  /\ IF ~ChunkDone(c, n) /\ Behind(c, n) >= h[c].size
     THEN Ends(c, "DONE") ELSE UNCHANGED verdict

\* n more units of the file are dealt with: a new header follows a chunk.
Advance(c, n, next) ==
  \/ /\ Behind(c, n) >= h[c].size
     /\ h' = [h EXCEPT ![c].offset = Behind(c, n)] /\ Ends(c, "DONE")
  \/ /\ Behind(c, n) < h[c].size /\ UNCHANGED verdict
     /\ \/ ChunkDone(c, n) /\ ChunkBegins(c, n, next)
        \/ /\ ~ChunkDone(c, n)
           /\ h' = [h EXCEPT ![c].offset = Behind(c, n),
                             ![c].chunkOffset = @ + n]

\* An end of the transfer that writes nothing.
WatchSendingFileEnds(c) ==
  /\ Polled(c, "SENDING_FILE")
  /\ \/ h[c].size = 0 /\ Ends(c, "DONE")
     \/ h[c].size # 0 /\ Ends(c, "FILE")
     \/ h[c].size # 0 /\ FromFile(c) = 0 /\ Ends(c, "EOF")
     \/ h[c].size # 0 /\ FromFile(c) > 0 /\ ToSend(c) < 1 /\ Ends(c, "DONE")
     \/ h[c].size # 0 /\ FromFile(c) > 0 /\ ToSend(c) >= 1 /\ Ends(c, "NET")
  /\ UNCHANGED <<h, life, wire, data>>

\* The offset advances by what was to be written, whatever was; a socket that
\* was accepted does not block, so that less may have been.
WatchSendingFile(c) ==
  /\ Polled(c, "SENDING_FILE")
  /\ h[c].size # 0 /\ FromFile(c) > 0 /\ ToSend(c) >= 1
  /\ \E n \in 1..ToSend(c) :
       /\ c = "caller" => n = ToSend(c)
       /\ wire' = Sent(c, FileData(h[c].offset, n))
       /\ cut' = (cut \/ n < ToSend(c))
  /\ Advance(c, ToSend(c), "SENDING_FILE_HEADER")
  /\ UNCHANGED <<life, file, resume, got, said, heard>>

\* With n more units, what c has of a header or a frame.
Buffered(c, n) == h[c].buf \o SubSeq(wire[c], 1, n)

\* A chunk of this size follows, or none.
HeaderRead(c, type, size) ==
  \/ /\ type # 5 /\ size # 0
     /\ h' = [h EXCEPT ![c].buf = <<>>, ![c].chunkSize = size,
                       ![c].chunkOffset = 0, ![c].state = "GETTING_FILE"]
     /\ UNCHANGED verdict
  \/ /\ type = 5 \/ size = 0
     /\ h' = [h EXCEPT ![c].buf = <<>>, ![c].chunkSize = size,
                       ![c].chunkOffset = 0]
     /\ Ends(c, IF type = 5 THEN "REFUSED" ELSE "DONE")

\* The header of a chunk, in as many pieces as it comes.  At the end of the
\* stream read() returns 0, and nothing changes.
WatchReadingFileHeader(c) ==
  /\ Polled(c, "READING_FILE_HEADER")
  /\ \E n \in 1..Least({h[c].chunkSize - h[c].chunkOffset, Len(wire[c])}) :
       /\ wire' = Taken(c, n)
       /\ \/ /\ ~ChunkDone(c, n)
             /\ h' = [h EXCEPT ![c].chunkOffset = @ + n,
                               ![c].buf = Buffered(c, n)]
             /\ UNCHANGED verdict
          \/ /\ ChunkDone(c, n)
             /\ \E type \in Numbers(Buffered(c, n)[1], "bigType"),
                   size \in Numbers(Buffered(c, n)[2], "bigSize") :
                  HeaderRead(c, type, size)
  /\ UNCHANGED <<life, data>>

WatchGettingFile(c) ==
  /\ Polled(c, "GETTING_FILE")
  /\ \E n \in 1..Least({Wanted(c), Len(wire[c])}) :
       /\ got' = got \o Numbered(SubSeq(wire[c], 1, n))
       /\ wire' = Taken(c, n)
       /\ Advance(c, n, "READING_FILE_HEADER")
  /\ UNCHANGED <<life, file, resume, cut, said, heard>>

\* read() or the write() to the file fails, or the stream has ended.
WatchGettingFileFails(c) ==
  /\ \/ /\ Polled(c, "READING_FILE_HEADER") \/ Polled(c, "GETTING_FILE")
        /\ Ends(c, "NET")
     \/ /\ Polled(c, "GETTING_FILE") /\ wire[c] = <<>>
        /\ Ends(c, "EOF")
  /\ UNCHANGED <<h, life, wire, data>>

-----------------------------------------------------------------------------
(***************************************************************************)
(* A conversation.                                                         *)
(***************************************************************************)
WatchSendingVoiceRequest(c) ==
  /\ Writes(c, "SENDING_VOICE_REQUEST")
  /\ Moves(c, "READING_VOICE_ACK", "READ")
  /\ UNCHANGED verdict

WatchSendingVoiceAck(c) ==
  /\ Writes(c, "SENDING_VOICE_ACK")
  /\ h' = [h EXCEPT ![c].state = "READING_VOICE_HEADER", ![c].check = "READ",
                    ![c].offset = 0]
  /\ UNCHANGED verdict

WatchReadingVoiceAck(c) ==
  /\ Reads(c, "READING_VOICE_ACK")
  /\ \E type \in Numbers(wire[c][1], "tiny") :
       IF type = 1 THEN Moves(c, "READING_VOICE_HEADER", "READ") /\ UNCHANGED verdict
                   ELSE Ends(c, "REFUSED") /\ UNCHANGED h

WatchReadingVoiceHeader(c) ==
  /\ Reads(c, "READING_VOICE_HEADER")
  /\ \E type \in Numbers(wire[c][1], "tiny") :
       IF type = 3 THEN Moves(c, "READING_VOICE_SIZE", "READ") /\ UNCHANGED verdict
                   ELSE Ends(c, "HANDSHAKE") /\ UNCHANGED h

\* Fault: chunk_offset is left from the frame before.
WatchReadingVoiceSizeKept(c) ==
  /\ Reads(c, "READING_VOICE_SIZE")
  /\ \E n \in Numbers(wire[c][1], "small") :
       IF MinFrame <= n /\ n <= BufSize
       THEN /\ h' = [h EXCEPT ![c].state = "READING_VOICE_DATA",
                       ![c].check = "READ", ![c].chunkSize = n,
                       ![c].buf = <<>>]
            /\ UNCHANGED verdict
       ELSE Ends(c, "NET") /\ UNCHANGED h

WatchReadingVoiceSize(c) ==
  /\ Reads(c, "READING_VOICE_SIZE")
  /\ \E n \in Numbers(wire[c][1], "small") :
       IF MinFrame <= n /\ n <= BufSize
       THEN /\ h' = [h EXCEPT ![c].state = "READING_VOICE_DATA",
                       ![c].check = "READ", ![c].chunkSize = n,
                       ![c].chunkOffset = 0, ![c].buf = <<>>]
            /\ UNCHANGED verdict
       ELSE Ends(c, "NET") /\ UNCHANGED h

\* A frame that is complete is given to the client, which frees it.
WatchReadingVoiceData(c) ==
  /\ Polled(c, "READING_VOICE_DATA")
  /\ \E n \in 1..Least({h[c].chunkSize - h[c].chunkOffset, Len(wire[c])}) :
       /\ wire' = Taken(c, n)
       /\ \/ /\ ~ChunkDone(c, n)
             /\ h' = [h EXCEPT ![c].chunkOffset = @ + n,
                               ![c].buf = Buffered(c, n)]
             /\ UNCHANGED heard
          \/ /\ ChunkDone(c, n)
             /\ h' = [h EXCEPT ![c].chunkOffset = @ + n, ![c].buf = <<>>,
                               ![c].state = "READING_VOICE_HEADER"]
             /\ heard' = [heard EXCEPT ![c] = Append(@, Numbered(Buffered(c, n)))]
  /\ UNCHANGED <<life, verdict, file, resume, got, cut, said>>

WatchReadingVoiceDataFails(c) ==
  /\ Polled(c, "READING_VOICE_DATA")
  /\ Ends(c, "NET")
  /\ UNCHANGED <<h, life, wire, data>>

VoiceFrame(k, n) ==
  <<Item("tiny", 3), Item("small", n)>> \o [i \in 1..n |-> Item("voice", k)]

\* A client speaks when the conversation is set up, and the library does not
\* look whether it is.
Talks(c) ==
  /\ life[c] = "up" /\ verdict[c] = "running"
  /\ h[c].state \in {"READING_VOICE_HEADER", "READING_VOICE_SIZE",
                     "READING_VOICE_DATA"}

\* gg_dcc_voice_send(): a short write is reported, and no more.
VoiceSend(c) ==
  /\ Talks(c) /\ h[c].type = "VOICE"
  /\ Len(said["caller"]) + Len(said["callee"]) < MaxFrames
  /\ \E n \in Frames :
       /\ said' = [said EXCEPT ![c] = Append(@, n)]
       /\ \E m \in 0..(n + 2) :
            /\ c = "caller" => m = n + 2
            /\ wire' = Sent(c, SubSeq(VoiceFrame(Len(said[c]) + 1, n), 1, m))
            /\ cut' = (cut \/ m < n + 2)
  /\ UNCHANGED <<h, life, verdict, file, resume, got, heard>>

-----------------------------------------------------------------------------
\* gg_dcc_free(): when it is over, or when the client has lost patience.
FreeDcc(c) ==
  /\ life[c] = "up"
  /\ life' = [life EXCEPT ![c] = "freed"]
  /\ wire' = [wire EXCEPT ![c] = <<>>]
  /\ UNCHANGED <<h, verdict, data>>

Handshake(c) ==
  \/ WatchConnecting(c) \/ WatchReadingUin(c) \/ WatchSendingAck(c)
  \/ WatchReadingAck(c) \/ WatchSendingRequest(c) \/ WatchReadingType(c)
  \/ WatchReadingRequest(c) \/ HandshakeFails(c)

Transfer(c) ==
  \/ WatchSendingFileInfo(c) \/ WatchReadingFileInfo(c)
  \/ WatchSendingFileAck(c) \/ WatchReadingFileAck(c)
  \/ WatchSendingFileHeader(c) \/ WatchSendingFile(c)
  \/ WatchSendingFileEnds(c) \/ WatchReadingFileHeader(c)
  \/ WatchGettingFile(c) \/ WatchGettingFileFails(c)

Talk(c) ==
  \/ WatchSendingVoiceRequest(c) \/ WatchSendingVoiceAck(c)
  \/ WatchReadingVoiceAck(c) \/ WatchReadingVoiceHeader(c)
  \/ WatchReadingVoiceSize(c) \/ WatchReadingVoiceData(c)
  \/ WatchReadingVoiceDataFails(c)

Watch(c) == Handshake(c) \/ Transfer(c) \/ Talk(c)

\* What events oblige a client to do.
Prepare(c) == FillFileInfo(c) \/ AnswerFile(c)

Listen == Accept \/ AcceptFails

Next ==
  \/ Listen
  \/ \E c \in Clients :
       Watch(c) \/ Prepare(c) \/ SetVoice(c) \/ VoiceSend(c) \/ FreeDcc(c)

Spec == Init /\ [][Next]_vars

(***************************************************************************)
(* The client watches the socket, does what events ask, and frees a        *)
(* connection that is over.  Nobody has to lose patience.                  *)
(***************************************************************************)
Fairness ==
  /\ WF_vars(Listen)
  /\ \A c \in Clients :
       /\ WF_vars(Watch(c)) /\ WF_vars(Prepare(c))
       /\ WF_vars(verdict[c] # "running" /\ FreeDcc(c))
FairSpec == Spec /\ Fairness

-----------------------------------------------------------------------------
(***************************************************************************)
(* One side sends the file and the other gets it, whoever dialled: the     *)
(* byte of READING_TYPE and the two requests settle it for both.           *)
(***************************************************************************)
RolesAgree ==
  /\ h["caller"].type = "SEND" => h["callee"].type \in {"DCC", "GET"}
  /\ h["caller"].type = "GET" => h["callee"].type \in {"DCC", "SEND", "VOICE"}
  /\ h["caller"].type = "VOICE" => h["callee"].type # "SEND"

Up(c) == life[c] = "up" /\ verdict[c] = "running"

\* The kind of what c reads next.
Due(c) ==
  CASE h[c].state \in DOMAIN Expected -> {Expected[h[c].state][1]}
    [] h[c].state = "READING_FILE_HEADER" ->
         {IF h[c].buf = <<>> THEN "bigType" ELSE "bigSize"}
    [] h[c].state = "GETTING_FILE" -> {"data"}
    [] h[c].state = "READING_VOICE_DATA" -> {"voice"}
    [] OTHER -> {}

(***************************************************************************)
(* The two machines walk in step: the roles agree, and as long as no write *)
(* was cut, what comes next to a client begins with the packet its state   *)
(* reads.                                                                  *)
(***************************************************************************)
InStep ==
  /\ RolesAgree
  /\ \A c \in Clients :
       Up(c) /\ ~cut /\ wire[c] # <<>> => wire[c][1].kind \in Due(c)

\* Where the data of the file lie among what is on its way to c.
Coming(c) == {i \in DOMAIN wire[c] : wire[c][i].kind = "data"}

(***************************************************************************)
(* Unless a write was cut, the receiver has the sender's file from the     *)
(* offset it asked for on, without a hole or a repetition, and what is on  *)
(* its way goes on there up to where the sender is: chunks, their headers  *)
(* and the buffers of both sides leave no trace in it.                     *)
(***************************************************************************)
FileIntact ==
  /\ ~cut => \A i \in DOMAIN got : got[i] = resume + i
  /\ \A c \in Clients :
       Up(c) /\ h[c].type = "GET" /\ ~cut =>
         \A i \in Coming(c) :
           /\ wire[c][i].val > resume + Len(got)
           /\ \A j \in Coming(c) : i < j => wire[c][i].val < wire[c][j].val
           /\ \A n \in resume + Len(got) + 1 .. wire[c][i].val :
                \E j \in Coming(c) : wire[c][j].val = n

(***************************************************************************)
(* A client that is told DONE has the whole file, and so does the other    *)
(* one know, unless there was nothing left to send; a sender that is told  *)
(* DONE has handed over all of it.  A write that was cut is the exception. *)
(***************************************************************************)
DoneIsWhole ==
  ~cut => \A c \in Clients :
    verdict[c] = "DONE" =>
      /\ h[c].type = "GET" =>
           /\ resume + Len(got) = file.stat
           /\ resume # file.stat => verdict[Other(c)] = "DONE"
      /\ h[c].type = "SEND" /\ Up(Other(c)) =>
           \/ resume + Len(got) >= file.stat
           \/ \E i \in Coming(Other(c)) : wire[Other(c)][i].val = file.stat

(***************************************************************************)
(* The frames a client is given are those the other one spoke, whole and   *)
(* in order, unless a write was cut.                                       *)
(***************************************************************************)
VoiceIntact ==
  ~cut => \A c \in Clients : \A k \in DOMAIN heard[c] :
    /\ k <= Len(said[Other(c)])
    /\ heard[c][k] = [i \in 1..said[Other(c)][k] |-> k]

-----------------------------------------------------------------------------
(***************************************************************************)
(* What FileContract speaks of, in terms of the two connections.           *)
(***************************************************************************)
Opened(type) == \E c \in Clients : h[c].type = type /\ h[c].fileFd

Phase == IF Opened("GET") THEN "agreed"
         ELSE IF Opened("SEND") THEN "offered" ELSE "idle"

Sender == {c \in Clients : h[c].state \in {"SENDING_FILE_HEADER", "SENDING_FILE"}}

HandedOver ==
  IF Sender = {} THEN resume ELSE h[CHOOSE c \in Sender : TRUE].offset

Told == {h[c].type : c \in {d \in Clients : verdict[d] = "DONE"}}

Contract == INSTANCE FileContract
  WITH phase <- Phase, source <- file.stat, start <- resume,
       sent <- HandedOver, copy <- got, told <- Told, torn <- cut

(***************************************************************************)
(* The connection keeps FileContract: whatever chunks, headers, buffers    *)
(* and short reads do, the copy grows by what comes next in the file, the  *)
(* offset and the file never change under it, and a side is told DONE when *)
(* the last of it passes it, and not before.  Once a write was cut, only   *)
(* what is written already is certain (Lose).                              *)
(***************************************************************************)
KeepsContract == Contract!FSpec

-----------------------------------------------------------------------------
\* read() returns 0 for ever, which gg_dcc_watch_fd() takes for nothing new.
Spins(c) ==
  /\ h[c].state = "READING_FILE_HEADER"
  /\ wire[c] = <<>> /\ life[Other(c)] = "freed"

(***************************************************************************)
(* The transfer of a file comes to an end for both sides, though nobody    *)
(* loses patience: never do both wait for the other.  The exception is a   *)
(* receiver whose peer leaves when the header of a chunk is due.           *)
(***************************************************************************)
TransferEnds ==
  \A c \in Clients :
    life[c] = "up" ~> life[c] = "freed" \/ h[c].type = "VOICE" \/ Spins(c)
=============================================================================
