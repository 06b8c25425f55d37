-------------------------- MODULE Dcc_file_proofs ---------------------------
(***************************************************************************)
(* The transfer of a file and the conversation keep the two clients of a   *)
(* direct connection in step.  From that follow the properties of Dcc, for *)
(* every length of chunks, buffers and frames and every set of files and   *)
(* offsets, and that it keeps FileContract.                                *)
(***************************************************************************)
EXTENDS Dcc_stream_proofs

-----------------------------------------------------------------------------
(***************************************************************************)
(* The transfer of a file.                                                 *)
(***************************************************************************)
FileInv ==
  /\ NumbersFit /\ NoFileYet /\ GotIntact
  /\ \A c \in Clients : FileKnown(c) /\ DoneKnown(c) /\ DoneGot(c)

BufInv == VoiceIntact /\ \A c \in Clients : HeaderSound(c) /\ VoiceSound(c)

LEMMA SendingFileInfoStreams ==
  ASSUME Streams, TypeInv', NEW c \in Clients, WatchSendingFileInfo(c)
  PROVE  Streams'
<1> DEFINE o == Other(c)
<1>1. TypeOK'
  BY DEF TypeInv
<1>2. /\ wire' = Sent(c, Packet(c)) /\ UNCHANGED <<life, verdict, data>>
      /\ h[c].state = "SENDING_FILE_INFO" /\ Open(c) /\ verdict[c] = "running"
      /\ life[c] = "up" /\ Packet(c) \in Seq(Items)
  BY Sides, WritesAlone DEF WatchSendingFileInfo, Writing
<1>3. /\ h'[c].state = "READING_FILE_ACK" /\ h'[c].type = h[c].type
      /\ h'[c].size = h[c].size /\ h'[o] = h[o] /\ h[c].size \in Nat
  BY Sides, Moved DEF WatchSendingFileInfo, States, Checks, Structs
<1>4. h[o].state \in {"READING_TYPE", "READING_REQUEST"} /\ h[c].type = "SEND"
  BY <1>2, Sides DEF TypeFits, Meets, Together
<1>5. ~cut
  BY <1>2, Sides, NotCut DEF Offering
<1>6. Roles'
  <2>1. TypeFits(c)'
    BY <1>3, <1>4 DEF TypeFits, Early, Dialling, Sending, Getting, Answering,
      Talking
  <2>2. Meets(h'[c].state, h[o].state) /\ Meets(h[o].state, h'[c].state)
    BY <1>3, <1>4 DEF Meets, Early, Sending, Talking, Offering, Answering
  <2>3. h'[c].state # "READING_FILE_INFO" /\ h'[c].state # "SENDING_FILE_INFO"
    BY <1>3
  <2> QED
    BY <1>1, <1>2, <1>3, <1>5, <2>1, <2>2, <2>3, Sides, RolesMove DEF data
<1>7. PICK z \in Nodes : z = Node("told", 0, h[c].size)
  BY <1>3, NodeType DEF Names
<1>8. At("offers") \in Nodes /\ At("info") \in Nodes
  BY NodeType DEF Names
<1>9. Path(At("offers"), Packet(c), z, said[c])
  <2>1. Packet(c) = <<Item("small", 1), Item("info", h[c].size)>>
    BY <1>2 DEF Packet
  <2>2. /\ Item("small", 1) \in Items /\ Item("info", h[c].size) \in Items
        /\ Item("info", h[c].size).kind = "info"
        /\ Item("info", h[c].size).val = h[c].size
    BY <1>3, ItemType
  <2>3. At("offers").at = "offers" /\ At("info").at = "info"
    BY DEF At, Node
  <2>4. /\ Leads(At("offers"), Item("small", 1), At("info"), said[c])
        /\ Leads(At("info"), Item("info", h[c].size), z, said[c])
    BY <1>7, <2>2, <2>3 DEF Leads, OfferLeads
  <2> QED
    BY <1>8, <2>1, <2>2, <2>4, PathTwo
<1>10. \A w \in Nodes : Stops(c, w) => w = At("offers")
  BY <1>2, RunningStops DEF Wrote
<1>11. Stops(c, z)'
  BY <1>3, <1>7 DEF Stops, Wrote, Answering, Getting, Talking
<1>12. \A x \in Nodes : Stands(c, x) => Stands(c, x)'
  BY <1>2, <1>3 DEF Stands, Offering, Sending
<1>13. h'[c].state \notin {"READING_VOICE_HEADER", "READING_VOICE_ACK"}
  BY <1>3
<1> HIDE DEF o
<1>14. Streams'
  BY <1>2, <1>3, <1>6, <1>8, <1>9, <1>10, <1>11, <1>12, <1>13, WriteStep DEF o
<1> QED
  BY <1>14

LEMMA ReadingFileInfoStreams ==
  ASSUME Streams, TypeInv', NEW c \in Clients, WatchReadingFileInfo(c)
  PROVE  Streams' /\ ~cut
         /\ h[Other(c)].state = "READING_FILE_ACK"
         /\ h'[c].size = h[Other(c)].size
<1> DEFINE o == Other(c)
<1>1. TypeOK' /\ Reads(c, "READING_FILE_INFO") /\ UNCHANGED verdict
      /\ "READING_FILE_INFO" \in DOMAIN Expected \ {"READING_FILE_ACK"}
  BY DEF TypeInv, WatchReadingFileInfo, Expected
<1>2. /\ wire'[o] = wire[o] /\ UNCHANGED <<life, data>>
      /\ h[c].state = "READING_FILE_INFO" /\ Open(c) /\ verdict[c] = "running"
      /\ life[c] = "up"
  BY <1>1, Sides, ReadsAlone
<1>3. h[c].type = "GET"
      /\ h[o].state \in {"SENDING_FILE_INFO", "READING_FILE_ACK"}
  BY <1>2, Sides DEF TypeFits, Meets, Answering
<1>4. ~cut
  BY <1>2, Sides, NotCut DEF Answering
<1>5. PICK x \in Nodes, y \in Nodes, z \in Nodes :
        /\ Stands(c, x) /\ Stops(o, y)
        /\ Leads(x, wire[c][1], z, said[o])
        /\ Path(z, wire'[c], y, said[o])
        /\ Later(z.at, y.at)
  BY <1>1, <1>4, Sides, ReadOne
<1>6. wire[c][1].kind = "info" /\ z = Node("told", 0, wire[c][1].val)
  <2>1. x = At("info")
    BY <1>2, <1>5 DEF Stands
  <2>2. x.at = "info"
    BY <2>1 DEF At, Node
  <2> QED
    BY <1>5, <2>2, LeadsFrom
<1>7. h[o].state = "READING_FILE_ACK"
  <2>1. h[o].state = "SENDING_FILE_INFO" => y.at \in {"offers", "info"}
    BY <1>5, Sides, Typed, StopsAt
  <2>2. z.at = "told"
    BY <1>6 DEF Node
  <2> QED
    BY <1>3, <1>5, <2>1, <2>2 DEF Later
<1>8. /\ h'[c].state = "SENDING_FILE_ACK" /\ h'[c].type = h[c].type
      /\ h'[c].size = wire[c][1].val /\ h'[o] = h[o]
  <2>1. wire[c][1] \in Items
    BY <1>1, Sides, ReadsType
  <2>2. PICK n \in Numbers(wire[c][1], "info") :
          Becoming(c, [h[c] EXCEPT !.size = n, !.check = "WRITE",
                                   !.state = "SENDING_FILE_ACK"])
    BY <2>1, Sides, Typed, ReadingFileInfoBecomes
  <2>3. n = wire[c][1].val
    BY <1>6 DEF Numbers
  <2>4. h'[c] = [h[c] EXCEPT !.size = n, !.check = "WRITE",
                             !.state = "SENDING_FILE_ACK"]
        /\ h'[o] = h[o] /\ h[c] \in Structs
    BY <2>2, Sides DEF Becoming
  <2> QED
    BY <2>3, <2>4 DEF Structs
<1>9. Roles'
  <2>1. TypeFits(c)'
    BY <1>3, <1>8 DEF TypeFits, Early, Dialling, Sending, Getting, Answering,
      Talking
  <2>2. Meets(h'[c].state, h[o].state) /\ Meets(h[o].state, h'[c].state)
    BY <1>7, <1>8 DEF Meets, Early, Sending, Talking, Offering, Answering
  <2>3. h'[c].state # "READING_FILE_INFO" /\ h'[c].state # "SENDING_FILE_INFO"
    BY <1>8
  <2> QED
    BY Sides, <1>1, <1>2, <1>4, <1>8, <2>1, <2>2, <2>3, RolesMove DEF data
<1>10. Stands(c, z)'
  BY <1>6, <1>8 DEF Stands, Offering, Sending
<1>11. \A w \in Nodes : Stops(c, w) => Stops(c, w)'
  <2>1. \A w \in Nodes : Stops(c, w) => Wrote(c, w)
    BY <1>2, RunningStops
  <2> QED
    BY <1>2, <1>8, <2>1 DEF Stops, Wrote, Answering, Getting, Talking
<1>12. h'[c].state \notin {"READING_VOICE_HEADER", "READING_VOICE_ACK"}
  BY <1>8
<1>13. h'[c].size = h[o].size
  <2>1. y = Node("told", 0, h[o].size)
    <3>1. h[o].state # "SENDING_FILE_INFO" /\ h[o].state = "READING_FILE_ACK"
      BY <1>7
    <3> QED
      BY <1>5, <3>1 DEF Stops, Wrote, Broken
  <2>2. z.at = "told" /\ y.at = "told"
    BY <1>6, <2>1 DEF Node
  <2>3. z = y
    <3>1. wire'[c] \in Seq(Items)
      BY <1>1, Sides, ReadsType, Typed
    <3> QED
      BY <1>5, <2>2, <3>1, PathStill
  <2>4. z.pos = y.pos /\ y.pos = h[o].size /\ z.pos = wire[c][1].val
    BY <1>6, <2>1, <2>3 DEF Node
  <2> QED
    BY <1>8, <2>4
<1> HIDE DEF o
<1>14. Streams'
  BY <1>1, <1>2, <1>5, <1>8, <1>9, <1>10, <1>11, <1>12, ReadStep DEF o
<1> QED
  BY <1>4, <1>7, <1>13, <1>14 DEF o

\* Before a file is sent, nothing was written behind the offset it goes on at.
LEMMA NothingGot ==
  ASSUME Streams, FileInv, NEW c \in Clients, h[c].state \notin Sending,
         h[Other(c)].state \notin Sending
  PROVE  got = <<>> /\ Len(got) = 0 /\ Pos = resume /\ resume \in Nat
<1>1. NoFileYet /\ \A d \in Clients : d = c \/ d = Other(c)
  BY OtherClient DEF FileInv
<1>2. got = <<>>
  BY <1>1 DEF NoFileYet
<1> QED
  BY <1>2, Sides, Typed DEF Pos

LEMMA SendingFileAckStreams ==
  ASSUME Streams, FileInv, TypeInv', NEW c \in Clients, WatchSendingFileAck(c)
  PROVE  Streams'
<1> DEFINE o == Other(c)
<1>1. TypeOK'
  BY DEF TypeInv
<1>2. /\ wire' = Sent(c, Packet(c)) /\ UNCHANGED <<life, verdict, data>>
      /\ h[c].state = "SENDING_FILE_ACK" /\ Open(c) /\ verdict[c] = "running"
      /\ life[c] = "up" /\ Packet(c) \in Seq(Items) /\ h[c].fileFd
  BY Sides, WritesAlone DEF WatchSendingFileAck, Writing, Answered
<1>3. /\ h'[c].state = "READING_FILE_HEADER" /\ h'[c].type = h[c].type
      /\ h'[c].size = h[c].size /\ h'[c].buf = <<>> /\ h'[o] = h[o]
      /\ h[c].size \in Nat /\ h[c].offset \in Nat
  <2>1. Becoming(c, [h[c] EXCEPT !.state = "READING_FILE_HEADER",
                       !.check = "READ", !.chunkSize = 2, !.chunkOffset = 0,
                       !.buf = <<>>])
    BY Sides, Typed, SendingFileAckBecomes
  <2>2. h'[c] = [h[c] EXCEPT !.state = "READING_FILE_HEADER",
                   !.check = "READ", !.chunkSize = 2, !.chunkOffset = 0,
                   !.buf = <<>>]
        /\ h'[o] = h[o] /\ h[c] \in Structs
    BY <2>1, Sides DEF Becoming
  <2> QED
    BY <2>2 DEF Structs
<1>4. h[o].state = "READING_FILE_ACK" /\ h[c].type = "GET"
  BY <1>2, Sides DEF TypeFits, Meets, Together, Answering
<1>5. ~cut
  BY <1>2, Sides, NotCut DEF Answering
<1>6. Roles'
  <2>1. TypeFits(c)'
    BY <1>3, <1>4 DEF TypeFits, Early, Dialling, Sending, Getting, Answering,
      Talking
  <2>2. Meets(h'[c].state, h[o].state) /\ Meets(h[o].state, h'[c].state)
    BY <1>3, <1>4 DEF Meets, Early, Sending, Talking, Offering, Answering
  <2>3. h'[c].state # "READING_FILE_INFO" /\ h'[c].state # "SENDING_FILE_INFO"
    BY <1>3
  <2> QED
    BY <1>1, <1>2, <1>3, <1>5, <2>1, <2>2, <2>3, Sides, RolesMove DEF data
<1>7. h[c].offset = resume /\ resume \in Nat
  <2>1. h[c].offset = Pos
    BY <1>2, <1>5 DEF FileInv, FileKnown
  <2>2. Pos = resume /\ resume \in Nat
    BY <1>2, <1>4, NothingGot DEF Sending
  <2> QED
    BY <2>1, <2>2
<1>8. PICK z \in Nodes : z = Node("answered", 0, resume)
  BY <1>7, NodeType DEF Names
<1>9. At("answers") \in Nodes /\ At("ackSize") \in Nodes
  BY NodeType DEF Names
<1>10. Path(At("answers"), Packet(c), z, said[c])
  <2>1. Packet(c) = <<Item("bigType", 6), Item("bigSize", h[c].offset)>>
    BY <1>2 DEF Packet, Big
  <2>2. /\ Item("bigType", 6) \in Items /\ Item("bigSize", h[c].offset) \in Items
        /\ Item("bigSize", h[c].offset).kind = "bigSize"
        /\ Item("bigSize", h[c].offset).val = h[c].offset
    BY <1>3, ItemType
  <2>3. At("answers").at = "answers" /\ At("ackSize").at = "ackSize"
    BY DEF At, Node
  <2>4. /\ Leads(At("answers"), Item("bigType", 6), At("ackSize"), said[c])
        /\ Leads(At("ackSize"), Item("bigSize", h[c].offset), z, said[c])
    BY <1>7, <1>8, <2>2, <2>3 DEF Leads, OfferLeads
  <2> QED
    BY <1>9, <2>1, <2>2, <2>4, PathTwo
<1>11. \A w \in Nodes : Stops(c, w) => w = At("answers")
  BY <1>2, RunningStops DEF Wrote, Answering
<1>12. Stops(c, z)'
  BY <1>2, <1>3, <1>8 DEF Stops, Wrote, Answering, Getting, Talking, data
<1>13. \A x \in Nodes : Stands(c, x) => Stands(c, x)'
  BY <1>2, <1>3 DEF Stands, Offering, Sending
<1>14. h'[c].state \notin {"READING_VOICE_HEADER", "READING_VOICE_ACK"}
  BY <1>3
<1> HIDE DEF o
<1>15. Streams'
  BY <1>2, <1>3, <1>6, <1>9, <1>10, <1>11, <1>12, <1>13, <1>14, WriteStep DEF o
<1> QED
  BY <1>15

\* The file is opened: where the client stands does not depend on it.
LEMMA FillFileInfoStreams ==
  ASSUME Streams, FileInv, TypeInv', NEW c \in Clients, FillFileInfo(c)
  PROVE  /\ Streams' /\ h[c].state \in Dialling \cup {"SENDING_FILE_INFO"}
         /\ ~cut /\ h[Other(c)].state \notin Getting \cup {"READING_FILE_ACK"}
         /\ h'[Other(c)] = h[Other(c)] /\ h'[c].state = h[c].state
         /\ h'[c].type = "SEND" /\ h[c].type = "SEND"
         /\ h'[c].fileFd /\ h'[c].size = file'.stat
         /\ h'[c].offset = h[c].offset
<1> DEFINE o == Other(c)
<1>1. TypeOK'
  BY DEF TypeInv
<1>2. /\ UNCHANGED <<life, verdict, wire, resume, got, cut, said, heard>>
      /\ h[c].type = "SEND" /\ ~h[c].fileFd /\ Open(c) /\ verdict[c] = "running"
      /\ life[c] = "up"
  BY DEF FillFileInfo, Open
<1>3. h[c].state \in Dialling \cup {"SENDING_FILE_INFO"}
  <2>1. h[c].state \in States /\ FileKnown(c)
    BY Sides DEF FileInv, Structs
  <2>2. h[c].state \notin Sending \cup {"READING_FILE_ACK"}
    BY <1>2, <2>1 DEF FileKnown
  <2>3. h[c].state \notin Early \cup Getting \cup Answering \cup Talking
          \cup {"SENDING_VOICE_REQUEST", "READING_VOICE_ACK", "SENDING_VOICE_ACK"}
    BY <1>2, Sides DEF TypeFits
  <2> QED
    BY <2>1, <2>2, <2>3 DEF States, Dialling, Sending, Early, Getting,
      Answering, Talking
<1>4. /\ h'[c].state = h[c].state /\ h'[c].type = "SEND" /\ h'[o] = h[o]
      /\ h'[c].fileFd /\ h'[c].size = file'.stat /\ h'[c].offset = h[c].offset
  <2>1. Becoming(c, [h[c] EXCEPT !.fileFd = TRUE, !.size = file'.stat])
    BY Sides, Typed, FillFileInfoBecomes
  <2>2. h'[c] = [h[c] EXCEPT !.fileFd = TRUE, !.size = file'.stat]
        /\ h'[o] = h[o] /\ h[c] \in Structs
    BY <2>1, Sides DEF Becoming
  <2> QED
    BY <1>2, <2>2 DEF Structs
<1>5. ~cut
  BY <1>3, Sides, NotCut DEF Dialling, Offering
<1>6. Roles'
  <2>1. TypeFits(c)'
    BY <1>2, <1>4, Sides DEF TypeFits
  <2>2. Meets(h'[c].state, h[o].state) /\ Meets(h[o].state, h'[c].state)
    BY <1>4, Sides
  <2>3. /\ h'[c].state # "READING_FILE_INFO"
        /\ h'[c].state = "SENDING_FILE_INFO" => h[o].state # "READING_FILE_INFO"
    BY <1>2, <1>3, <1>4, Sides DEF Dialling, Together
  <2>4. h'[c].type = h[c].type
    BY <1>2, <1>4
  <2> QED
    BY <1>1, <1>2, <1>4, <1>5, <2>1, <2>2, <2>3, <2>4, Sides, RolesMove
<1>7. \A x \in Nodes : Stands(c, x) => Stands(c, x)'
  BY <1>2, <1>3, <1>4 DEF Stands, Dialling, Offering, Sending
<1>8. \A w \in Nodes : Stops(c, w) => Stops(c, w)'
  <2>1. \A w \in Nodes : Stops(c, w) => Wrote(c, w)
    BY <1>2, RunningStops
  <2> QED
    BY <1>2, <1>3, <1>4, <2>1
    DEF Stops, Wrote, Dialling, Answering, Getting, Talking
<1>9. \A w \in Nodes : Stops(o, w) => Stops(o, w)'
  BY <1>2, <1>4, Sides, OtherStops
<1>10. StreamLeads(c)'
  BY <1>2, <1>7, <1>9, Sides, StreamsKept DEF Open
<1>11. StreamLeads(o)'
  BY <1>2, <1>4, <1>8, Sides, OtherKept
<1>12. h'[c].state \notin {"READING_VOICE_HEADER", "READING_VOICE_ACK"}
  BY <1>3, <1>4 DEF Dialling
<1>13. Streams'
  BY <1>6, <1>10, <1>11, <1>12, StreamsStep
<1>14. h[o].state \notin Getting \cup {"READING_FILE_ACK"}
  BY <1>3, Sides DEF Meets, Dialling, Getting, Sending, Answering, Offering,
    Early
<1> QED
  BY <1>2, <1>3, <1>4, <1>5, <1>13, <1>14

\* The file that is offered is accepted.
LEMMA AnswerFileStreams ==
  ASSUME Streams, FileInv, TypeInv', NEW c \in Clients, AnswerFile(c)
  PROVE  /\ Streams' /\ h[c].state = "SENDING_FILE_ACK" /\ ~cut
         /\ h[Other(c)].state = "READING_FILE_ACK"
         /\ h'[Other(c)] = h[Other(c)] /\ h'[c].state = h[c].state
         /\ h'[c].type = "GET" /\ h'[c].size = h[c].size
         /\ h'[c].fileFd /\ h'[c].offset = resume'
<1> DEFINE o == Other(c)
<1>1. TypeOK'
  BY DEF TypeInv
<1>2. /\ UNCHANGED <<life, verdict, wire, file, got, cut, said, heard>>
      /\ h[c].state = "SENDING_FILE_ACK" /\ Open(c) /\ verdict[c] = "running"
      /\ life[c] = "up"
  BY DEF AnswerFile, Open
<1>3. h[c].type = "GET" /\ h[o].state = "READING_FILE_ACK"
  BY <1>2, Sides DEF TypeFits, Answering, Meets
<1>4. /\ h'[c].state = h[c].state /\ h'[c].type = "GET" /\ h'[o] = h[o]
      /\ h'[c].fileFd /\ h'[c].size = h[c].size /\ h'[c].offset = resume'
  <2>1. Becoming(c, [h[c] EXCEPT !.fileFd = TRUE, !.offset = resume'])
    BY Sides, Typed, AnswerFileBecomes
  <2>2. h'[c] = [h[c] EXCEPT !.fileFd = TRUE, !.offset = resume']
        /\ h'[o] = h[o] /\ h[c] \in Structs
    BY <2>1, Sides DEF Becoming
  <2> QED
    BY <1>3, <2>2 DEF Structs
<1>5. ~cut
  BY <1>2, Sides, NotCut DEF Answering
<1>6. Roles'
  <2>1. TypeFits(c)'
    BY <1>3, <1>4, Sides DEF TypeFits
  <2>2. Meets(h'[c].state, h[o].state) /\ Meets(h[o].state, h'[c].state)
    BY <1>4, Sides
  <2>3. h'[c].state \notin {"READING_FILE_INFO", "SENDING_FILE_INFO"}
    BY <1>2, <1>4
  <2>4. h'[c].type = h[c].type
    BY <1>3, <1>4
  <2> QED
    BY <1>1, <1>2, <1>4, <1>5, <2>1, <2>2, <2>3, <2>4, Sides, RolesMove
<1>7. \A x \in Nodes : Stands(c, x) => Stands(c, x)'
  BY <1>2, <1>4 DEF Stands, Offering, Sending
<1>8. \A w \in Nodes : Stops(c, w) => Stops(c, w)'
  <2>1. \A w \in Nodes : Stops(c, w) => Wrote(c, w)
    BY <1>2, RunningStops
  <2> QED
    BY <1>2, <1>4, <2>1 DEF Stops, Wrote, Answering, Getting, Talking
<1>9. \A w \in Nodes : Stops(o, w) => Stops(o, w)'
  BY <1>2, <1>3, <1>4, Sides DEF Stops, Wrote, Broken, Answering, Getting,
    Talking
<1>10. \A x \in Nodes : Stands(o, x) => Stands(o, x)'
  BY <1>3, <1>4 DEF Stands, Offering, Sending
<1>11. StreamLeads(c)'
  BY <1>2, <1>7, <1>9, Sides, StreamsKept DEF Open
<1>12. StreamLeads(o)'
  <2>1. Open(o)' => Open(o)
    BY <1>2 DEF Open
  <2> QED
    BY <1>2, <1>8, <1>10, <2>1, Sides, StreamsKept
<1>13. h'[c].state \notin {"READING_VOICE_HEADER", "READING_VOICE_ACK"}
  BY <1>2, <1>4
<1>14. Streams'
  BY <1>6, <1>11, <1>12, <1>13, StreamsStep
<1> QED
  BY <1>2, <1>3, <1>4, <1>5, <1>14

\* The first two items of a stream.
LEMMA PathPair ==
  ASSUME NEW x \in Nodes, NEW y \in Nodes, NEW spoken, NEW q \in Seq(Items),
         Len(q) >= 2, Path(x, q, y, spoken)
  PROVE  \E v, z \in Nodes :
           /\ Leads(x, q[1], v, spoken) /\ Leads(v, q[2], z, spoken)
           /\ Path(z, SubSeq(q, 3, Len(q)), y, spoken)
<1>1. 2 \in 0..Len(q) /\ Len(q) \in Nat
  BY LenProperties
<1>2. PICK z \in Nodes :
        /\ Path(x, SubSeq(q, 1, 2), z, spoken)
        /\ Path(z, SubSeq(q, 2 + 1, Len(q)), y, spoken)
  BY <1>1, PathCut
<1> DEFINE p == SubSeq(q, 1, 2)
<1>3. p \in Seq(Items) /\ Len(p) = 2 /\ p[1] = q[1] /\ p[2] = q[2]
  <2>1. \A i \in 1..2 : q[i] \in Items
    BY <1>1, ElementOfSeq
  <2> QED
    BY <2>1, SubSeqProperties
<1>4. Path(x, p, z, spoken)
  BY <1>2
<1> HIDE DEF p
<1>5. p # <<>>
  <2>1. Len(<<>>) = 0
    OBVIOUS
  <2>2. p = <<>> => Len(p) = 0
    BY <2>1
  <2> QED
    BY <1>3, <2>2
<1>6. PICK v \in Nodes :
        Leads(x, p[1], v, spoken) /\ Path(v, SubSeq(p, 2, Len(p)), z, spoken)
  BY <1>3, <1>4, <1>5, PathHead
<1> DEFINE r == SubSeq(p, 2, Len(p))
<1>7. r \in Seq(Items) /\ Len(r) = 1 /\ r[1] = p[2]
  <2>1. \A i \in 2..2 : p[i] \in Items
    BY <1>3, ElementOfSeq
  <2> QED
    BY <1>3, <2>1, SubSeqProperties
<1>8. Path(v, r, z, spoken)
  BY <1>6
<1> HIDE DEF r
<1>9. Leads(v, r[1], z, spoken)
  BY <1>7, <1>8, PathOnce
<1> QED
  BY <1>2, <1>3, <1>6, <1>7, <1>9

\* The answer takes the sender to where the receiver has the file.
LEMMA ReadingFileAckStreams ==
  ASSUME Streams, FileInv, TypeInv', NEW c \in Clients, WatchReadingFileAck(c)
  PROVE  /\ Streams' /\ ~cut /\ h[Other(c)].state = "READING_FILE_HEADER"
         /\ h[c].state = "READING_FILE_ACK"
         /\ h'[Other(c)] = h[Other(c)] /\ h'[c].state = "SENDING_FILE_HEADER"
         /\ h'[c].type = "SEND" /\ h'[c].type = h[c].type
         /\ h'[c].fileFd = h[c].fileFd
         /\ h'[c].size = h[c].size /\ h'[c].offset = resume
<1> DEFINE o == Other(c)
<1>1. TypeOK' /\ Reads(c, "READING_FILE_ACK") /\ UNCHANGED verdict
      /\ "READING_FILE_ACK" \in DOMAIN Expected
  BY DEF TypeInv, WatchReadingFileAck, Expected
<1>2. /\ wire'[o] = wire[o] /\ UNCHANGED <<life, data>>
      /\ h[c].state = "READING_FILE_ACK" /\ Open(c) /\ verdict[c] = "running"
      /\ life[c] = "up"
  BY <1>1, Sides, ReadsAlone
<1>3. h[c].type = "SEND"
      /\ h[o].state \in {"READING_TYPE", "READING_FILE_HEADER"} \cup Answering
  BY <1>2, Sides DEF TypeFits, Meets
<1>4. ~cut
  BY <1>2, Sides, NotCut DEF Offering
<1>5. wire[c] \in Seq(Items) /\ Len(wire[c]) >= 2 /\ wire[c][2] \in Items
      /\ wire'[c] = SubSeq(wire[c], 3, Len(wire[c])) /\ wire'[c] \in Seq(Items)
  <2>1. Len(Expected["READING_FILE_ACK"]) = 2
    BY <1>1, ExpectedLengths
  <2>2. wire[c] \in Seq(Items) /\ Len(wire[c]) \in Nat
        /\ wire[c][2] \in Items
    BY <1>1, Sides, Typed, ReadsType, LenProperties
  <2>3. wire' = Taken(c, 2) /\ 2 \in 0..Len(wire[c])
    BY <1>1, <2>1, <2>2 DEF Reads
  <2>4. Taken(c, 2)[c] = SubSeq(wire[c], 2 + 1, Len(wire[c]))
        /\ Taken(c, 2) \in [Clients -> Seq(Items)]
    BY <2>3, Sides, Typed, TakenType
  <2> QED
    BY <2>2, <2>3, <2>4
<1>6. PICK x \in Nodes, y \in Nodes :
        /\ Stands(c, x) /\ Stops(o, y) /\ Path(x, wire[c], y, said[o])
  BY <1>2, <1>4, Sides DEF StreamLeads
<1>7. PICK v \in Nodes, z \in Nodes :
        /\ Leads(x, wire[c][1], v, said[o]) /\ Leads(v, wire[c][2], z, said[o])
        /\ Path(z, wire'[c], y, said[o])
  BY <1>5, <1>6, PathPair
<1>8. v.at \in {"ackSize", "voice"}
  <2>1. x.at = "answers"
    BY <1>2, <1>6 DEF Stands, Offering, At, Node
  <2> QED
    BY <1>7, <2>1, LeadsFrom DEF At, Node
<1>9. Later(v.at, z.at) /\ Later(z.at, y.at) /\ Later(v.at, y.at)
  <2>1. Later(v.at, z.at)
    BY <1>5, <1>7, LeadsOn
  <2>2. Later(z.at, y.at)
    BY <1>5, <1>7, PathLater
  <2> QED
    BY <2>1, <2>2, LaterTransitive
<1>10. /\ h[o].state = "READING_TYPE" => y.at = "answers"
       /\ h[o].state \in Answering => y.at \in {"answers", "ackSize"}
       /\ h[o].state = "READING_FILE_HEADER" => y.at = "answered"
  BY <1>3, <1>6, Sides, Typed, StopsAt DEF Answering, Getting
<1>11. v.at = "ackSize"
  BY <1>3, <1>8, <1>9, <1>10 DEF Later
<1>12. wire[c][2].kind = "bigSize" /\ z = Node("answered", 0, wire[c][2].val)
  BY <1>7, <1>11, LeadsFrom
<1>13. h[o].state = "READING_FILE_HEADER" /\ y.at = "answered"
  <2>1. z.at = "answered"
    BY <1>12 DEF Node
  <2> QED
    BY <1>3, <1>9, <1>10, <2>1 DEF Later
<1>14. y = Node("answered", 0, resume)
  BY <1>6, <1>13 DEF Stops, Wrote, Broken, Getting
<1>15. z = y /\ wire[c][2].val = resume
  <2>1. z.at = y.at /\ z.at = "answered"
    BY <1>12, <1>13 DEF Node
  <2>2. z = y
    BY <1>5, <1>7, <2>1, PathStill
  <2>3. z.pos = wire[c][2].val /\ y.pos = resume
    BY <1>12, <1>14 DEF Node
  <2> QED
    BY <2>2, <2>3
<1>16. /\ h'[c].state = "SENDING_FILE_HEADER" /\ h'[c].type = h[c].type
       /\ h'[c].size = h[c].size /\ h'[o] = h[o] /\ h'[c].offset = resume
       /\ h'[c].fileFd = h[c].fileFd
  <2>1. PICK n \in Numbers(wire[c][2], "bigSize") :
          Becoming(c, [h[c] EXCEPT !.offset = n, !.check = "WRITE",
                                   !.state = "SENDING_FILE_HEADER"])
    BY <1>5, Sides, Typed, ReadingFileAckBecomes
  <2>2. n = resume
    BY <1>12, <1>15 DEF Numbers
  <2>3. h'[c] = [h[c] EXCEPT !.offset = n, !.check = "WRITE",
                             !.state = "SENDING_FILE_HEADER"]
        /\ h'[o] = h[o] /\ h[c] \in Structs
    BY <2>1, Sides DEF Becoming
  <2> QED
    BY <2>2, <2>3 DEF Structs
<1>17. Roles'
  <2>1. TypeFits(c)'
    BY <1>3, <1>16 DEF TypeFits, Early, Dialling, Sending, Getting, Answering,
      Talking
  <2>2. Meets(h'[c].state, h[o].state) /\ Meets(h[o].state, h'[c].state)
    BY <1>13, <1>16 DEF Meets, Early, Sending, Getting, Talking, Offering,
      Answering
  <2>3. h'[c].state # "READING_FILE_INFO" /\ h'[c].state # "SENDING_FILE_INFO"
    BY <1>16
  <2> QED
    BY Sides, <1>1, <1>2, <1>4, <1>16, <2>1, <2>2, <2>3, RolesMove DEF data
<1>18. StreamLeads(c)'
  <2>1. Stands(c, z)'
    BY <1>2, <1>14, <1>15, <1>16 DEF Stands, Offering, Sending, data
  <2>2. Stops(o, y)'
    BY <1>1, <1>2, <1>6, <1>16, Sides, OtherStops DEF data
  <2> QED
    BY <1>2, <1>7, <2>1, <2>2, StreamsRead DEF data
<1>19. StreamLeads(o)'
  <2>1. SUFFICES ASSUME Open(o)'
                 PROVE  \E a, b \in Nodes : /\ Stands(o, a)' /\ Stops(c, b)'
                                            /\ Path(a, wire'[o], b, said'[c])
    BY Sides DEF StreamLeads
  <2>2. Open(o)
    BY <1>1, <1>2, <2>1 DEF Open
  <2>3. PICK a \in Nodes, b \in Nodes :
          Stands(o, a) /\ Stops(c, b) /\ Path(a, wire[o], b, said[c])
    BY <1>4, <2>2, Sides DEF StreamLeads
  <2>4. b.at = "told"
    BY <1>2, <2>3, Sides, Typed, StopsAt
  <2>5. wire[o] \in Seq(Items)
    BY Sides, Typed
  <2>6. Later(a.at, "told")
    BY <2>3, <2>4, <2>5, PathLater
  <2>7. h[o].buf = <<>> /\ a.at = "told"
    <3>1. \/ h[o].buf = <<>> /\ a \in {Node("told", 0, h[o].size),
                                       Node("chunk", 0, Pos)}
          \/ h[o].buf # <<>> /\ a = Node("header", 0, Pos)
      BY <1>13, <2>3 DEF Stands
    <3>2. CASE h[o].buf = <<>> /\ a \in {Node("told", 0, h[o].size),
                                         Node("chunk", 0, Pos)}
      BY <2>6, <3>2 DEF Later, Node
    <3>3. CASE h[o].buf # <<>> /\ a = Node("header", 0, Pos)
      BY <2>6, <3>3 DEF Later, Node
    <3> QED
      BY <3>1, <3>2, <3>3
  <2>8. wire[o] = <<>>
    BY <2>3, <2>4, <2>5, <2>7, PathStill
  <2>9. Pos = resume /\ resume \in Nat
    BY <1>2, <1>13, NothingGot DEF Sending
  <2>10. PICK u \in Nodes : u = Node("chunk", 0, resume)
    BY <2>9, NodeType DEF Names
  <2>11. Stands(o, u)'
    <3>1. Pos' = resume
      BY <1>2, <2>9 DEF Pos, data
    <3> QED
      BY <1>13, <1>16, <2>7, <2>10, <3>1 DEF Stands, Offering, Sending
  <2>12. Stops(c, u)'
    BY <1>16, <2>10 DEF Stops, Wrote, Answering, Getting, Talking
  <2>13. Path(u, wire'[o], u, said'[c])
    BY <1>2, <2>8, PathEmpty
  <2> QED
    BY <2>11, <2>12, <2>13
<1>20. h'[c].state \notin {"READING_VOICE_HEADER", "READING_VOICE_ACK"}
  BY <1>16
<1>21. Streams'
  BY <1>17, <1>18, <1>19, <1>20, StreamsStep
<1> QED
  BY <1>2, <1>3, <1>4, <1>13, <1>16, <1>21

LEMMA SendingFileHeaderStreams ==
  ASSUME Streams, TypeInv', NEW c \in Clients, WatchSendingFileHeader(c)
  PROVE  /\ Streams' /\ UNCHANGED <<life, verdict, data>>
         /\ h[c].state = "SENDING_FILE_HEADER" /\ verdict[c] = "running"
         /\ h'[Other(c)] = h[Other(c)] /\ h'[c].state = "SENDING_FILE"
         /\ h'[c].type = h[c].type /\ h'[c].fileFd = h[c].fileFd
         /\ h'[c].size = h[c].size /\ h'[c].offset = h[c].offset
         /\ h'[c].chunkSize = ChunkToSend(c) /\ h'[c].chunkOffset = 0
<1> DEFINE o == Other(c)
           n == ChunkToSend(c)
<1>1. TypeOK'
  BY DEF TypeInv
<1>2. /\ wire' = Sent(c, Packet(c)) /\ UNCHANGED <<life, verdict, data>>
      /\ h[c].state = "SENDING_FILE_HEADER" /\ Open(c) /\ verdict[c] = "running"
      /\ life[c] = "up" /\ Packet(c) \in Seq(Items)
  BY Sides, WritesAlone DEF WatchSendingFileHeader, Writing
<1>3. n \in Nat /\ h[c].offset \in Nat
  BY Sides, Typed, ChunkToSendType DEF Structs
<1> HIDE DEF n
<1>4. /\ h'[c].state = "SENDING_FILE" /\ h'[c].type = h[c].type
      /\ h'[c].size = h[c].size /\ h'[c].offset = h[c].offset /\ h'[o] = h[o]
      /\ h'[c].chunkSize = n /\ h'[c].chunkOffset = 0
      /\ h'[c].fileFd = h[c].fileFd
  <2>1. Becoming(c, [h[c] EXCEPT !.chunkOffset = 0, !.chunkSize = n,
                       !.state = "SENDING_FILE", !.check = "WRITE"])
    BY Sides, Typed, SendingFileHeaderBecomes DEF n
  <2>2. h'[c] = [h[c] EXCEPT !.chunkOffset = 0, !.chunkSize = n,
                   !.state = "SENDING_FILE", !.check = "WRITE"]
        /\ h'[o] = h[o] /\ h[c] \in Structs
    BY <2>1, Sides DEF Becoming
  <2> QED
    BY <2>2 DEF Structs
<1>5. h[o].state \in Getting /\ h[c].type = "SEND"
  BY <1>2, Sides DEF TypeFits, Meets, Sending
<1>6. Roles'
  <2>1. TypeFits(c)'
    BY <1>4, <1>5 DEF TypeFits, Early, Dialling, Sending, Getting, Answering,
      Talking
  <2>2. Meets(h'[c].state, h[o].state) /\ Meets(h[o].state, h'[c].state)
    BY <1>4, <1>5 DEF Meets, Early, Sending, Getting, Talking, Offering,
      Answering
  <2>3. /\ h'[c].state # "READING_FILE_INFO" /\ h'[c].state # "SENDING_FILE_INFO"
        /\ h'[c].state \in Sending \cup Talking
    BY <1>4 DEF Sending
  <2> QED
    BY <1>1, <1>2, <1>4, <2>1, <2>2, <2>3, Sides, RolesMove DEF data
<1>7. PICK y \in Nodes : y = Node("chunk", 0, h[c].offset)
  BY <1>3, NodeType DEF Names
<1>8. PICK v \in Nodes : v = Node("header", 0, h[c].offset)
  BY <1>3, NodeType DEF Names
<1>9. PICK z \in Nodes : z = IF n = 0 THEN Node("last", 0, h[c].offset)
                                      ELSE Node("chunk", n, h[c].offset)
  BY <1>3, NodeType DEF Names
<1>10. Path(y, Packet(c), z, said[c])
  <2>1. PICK k \in {2, 3} : Packet(c) = <<Item("bigType", k), Item("bigSize", n)>>
    BY <1>2 DEF Packet, Big, n
  <2>2. /\ Item("bigType", k) \in Items /\ Item("bigSize", n) \in Items
        /\ Item("bigType", k).kind = "bigType" /\ Item("bigType", k).val # 5
        /\ Item("bigSize", n).kind = "bigSize" /\ Item("bigSize", n).val = n
    BY <1>3, ItemType
  <2>3. /\ y.at = "chunk" /\ y.left = 0 /\ y.pos = h[c].offset
        /\ v.at = "header" /\ v.pos = h[c].offset
    BY <1>7, <1>8 DEF Node
  <2>4. /\ Leads(y, Item("bigType", k), v, said[c])
        /\ Leads(v, Item("bigSize", n), z, said[c])
    BY <1>8, <1>9, <2>2, <2>3 DEF Leads, FileLeads
  <2> QED
    BY <2>1, <2>2, <2>4, PathTwo
<1>11. \A w \in Nodes : Stops(c, w) => w = y
  BY <1>2, <1>7, RunningStops DEF Wrote
<1>12. Stops(c, z)'
  <2>1. Left(c)' = n
    BY <1>3, <1>4 DEF Left
  <2> QED
    BY <1>4, <1>9, <2>1 DEF Stops, Wrote, Answering, Getting, Talking
<1>13. \A x \in Nodes : Stands(c, x) => Stands(c, x)'
  BY <1>2, <1>4 DEF Stands, Offering, Sending, data
<1>14. h'[c].state \notin {"READING_VOICE_HEADER", "READING_VOICE_ACK"}
  BY <1>4
<1> HIDE DEF o
<1>15. Streams'
  BY <1>2, <1>4, <1>6, <1>10, <1>11, <1>12, <1>13, <1>14, WriteStep DEF o
<1> QED
  BY <1>2, <1>4, <1>15 DEF n, o

LEMMA Unwrapped ==
  ASSUME NEW a \in Nat, NEW w \in Nat \ {0}, a < w
  PROVE  a % w = a
OBVIOUS

\* What is sent of a chunk is part of it and of the file.
LEMMA SendsPart ==
  ASSUME TypeOK, NumbersFit, NEW c \in Clients, h[c].size = file.stat,
         FromFile(c) > 0, ToSend(c) >= 1
  PROVE  /\ ToSend(c) \in Nat /\ ToSend(c) <= Left(c)
         /\ Left(c) \in Nat /\ h[c].chunkSize # 0
         /\ h[c].offset + ToSend(c) <= h[c].size
         /\ Behind(c, ToSend(c)) = h[c].offset + ToSend(c)
         /\ h[c].offset + ToSend(c) < Word
<1> DEFINE d == h[c]
           a == file.actual
           f == FromFile(c)
           rest == IF d.offset < a THEN a - d.offset ELSE 0
<1>1. /\ d.size \in Nat /\ d.offset \in Nat /\ d.chunkSize \in Nat
      /\ d.chunkOffset \in Nat /\ a \in Nat /\ Word \in Nat \ {0}
      /\ a < Word /\ d.size < Word
  BY Typed, SizesAssumption DEF Structs, NumbersFit
<1>2. f <= Left(c) /\ f <= rest /\ f \in Int
  <2>1. Left(c) \in Int /\ BufSize \in Int /\ rest \in Int
    BY <1>1, SizesAssumption DEF Left
  <2>2. Wanted(c) = Least({Left(c), BufSize})
    BY DEF Wanted, Left
  <2>3. Wanted(c) \in Int /\ Wanted(c) <= Left(c)
    BY <2>1, <2>2, LeastOf
  <2>4. f = Least({Wanted(c), rest})
    BY DEF FromFile
  <2> HIDE DEF rest, f
  <2>5. f \in {Wanted(c), rest} /\ f <= Wanted(c) /\ f <= rest
    BY <2>1, <2>3, <2>4, LeastOf
  <2> QED
    BY <2>1, <2>3, <2>5
<1>3. d.offset < a /\ d.offset + f <= a /\ d.offset + f \in Nat
  BY <1>1, <1>2
<1>4. (d.offset + f) % Word = d.offset + f
  BY <1>1, <1>3, Unwrapped
<1>5. ToSend(c) = IF d.offset + f > d.size THEN d.size - d.offset ELSE f
  BY <1>4 DEF ToSend
<1> HIDE DEF f
<1>6. ToSend(c) \in Nat /\ ToSend(c) <= Left(c) /\ d.offset + ToSend(c) <= d.size
  BY <1>1, <1>2, <1>3, <1>5 DEF Left
<1>7. Left(c) \in Nat /\ d.chunkSize # 0
  BY <1>1, <1>6 DEF Left
<1>8. d.offset + ToSend(c) \in Nat /\ d.offset + ToSend(c) < Word
  BY <1>1, <1>6
<1>9. Behind(c, ToSend(c)) = d.offset + ToSend(c)
  BY <1>1, <1>8, Unwrapped DEF Behind
<1> QED
  BY <1>6, <1>7, <1>8, <1>9

\* How far a unit of the file takes its sender.
LEMMA SendingFileMoves ==
  ASSUME Streams, FileInv, TypeInv', NEW c \in Clients, WatchSendingFile(c),
         NEW n, n = ToSend(c)
  PROVE  /\ h[c].state = "SENDING_FILE" /\ verdict[c] = "running"
         /\ life[c] = "up" /\ Open(c) /\ h[c].type = "SEND" /\ h[c].fileFd
         /\ n \in Nat /\ n >= 1 /\ n <= Left(c) /\ Left(c) \in Nat
         /\ h[c].chunkSize # 0 /\ h[c].size = file.stat
         /\ h[c].offset \in Nat /\ h[c].offset + n <= h[c].size
         /\ h'[Other(c)] = h[Other(c)] /\ verdict'[Other(c)] = verdict[Other(c)]
         /\ h'[c].type = h[c].type /\ h'[c].fileFd = h[c].fileFd
         /\ h'[c].size = h[c].size /\ h'[c].offset = h[c].offset + n
         /\ h'[c].chunkSize = h[c].chunkSize /\ h'[c].buf = h[c].buf
         /\ \/ /\ h'[c].offset = h[c].size /\ verdict'[c] = "DONE"
               /\ h'[c].state = "SENDING_FILE"
               /\ h'[c].chunkOffset = h[c].chunkOffset
            \/ /\ h'[c].offset < h[c].size /\ UNCHANGED verdict
               /\ h'[c].chunkOffset = h[c].chunkOffset + n
               /\ \/ h'[c].state = "SENDING_FILE" /\ Left(c)' = Left(c) - n
                  \/ h'[c].state = "SENDING_FILE_HEADER" /\ Left(c) = n
<1> DEFINE o == Other(c)
<1>1. TypeOK' /\ Polled(c, "SENDING_FILE") /\ FromFile(c) > 0 /\ ToSend(c) >= 1
      /\ Advance(c, n, "SENDING_FILE_HEADER")
  BY DEF TypeInv, WatchSendingFile
<1>2. h[c].state = "SENDING_FILE" /\ Open(c) /\ verdict[c] = "running"
      /\ life[c] = "up"
  BY <1>1, PolledOpen
<1>3. h[c].type = "SEND" /\ h[c].fileFd /\ h[c].size = file.stat
  BY <1>2, Sides DEF TypeFits, FileInv, FileKnown, Sending
<1>4. /\ n \in Nat /\ n >= 1 /\ n <= Left(c) /\ Left(c) \in Nat
      /\ h[c].chunkSize # 0 /\ h[c].offset + n <= h[c].size
      /\ Behind(c, n) = h[c].offset + n
  BY <1>1, <1>3, Sides, SendsPart DEF FileInv
<1>5. h[c] \in Structs /\ h[c].offset \in Nat /\ h[c].size \in Nat
      /\ h[c].chunkSize \in Nat /\ h[c].chunkOffset \in Nat
  BY Sides, Typed DEF Structs
<1>6. \/ /\ Behind(c, n) >= h[c].size /\ Ends(c, "DONE")
         /\ Becoming(c, [h[c] EXCEPT !.offset = Behind(c, n)])
      \/ /\ Behind(c, n) < h[c].size /\ UNCHANGED verdict /\ ~ChunkDone(c, n)
         /\ Becoming(c, [h[c] EXCEPT !.offset = Behind(c, n),
                                     !.chunkOffset = h[c].chunkOffset + n])
      \/ /\ Behind(c, n) < h[c].size /\ UNCHANGED verdict /\ ChunkDone(c, n)
         /\ Becoming(c, [h[c] EXCEPT !.offset = Behind(c, n),
                                     !.state = "SENDING_FILE_HEADER",
                                     !.chunkOffset = h[c].chunkOffset + n])
  BY <1>1, <1>4, Sides, Typed, AdvanceBecomes
<1>7. h'[o] = h[o] /\ verdict'[o] = verdict[o]
  <2>1. h'[o] = h[o]
    BY <1>6, Sides DEF Becoming
  <2>2. Ends(c, "DONE") => verdict'[o] = verdict[o]
    BY Sides, Typed, EndsVerdict DEF Verdicts
  <2> QED
    BY <1>6, <2>1, <2>2
<1>8. CASE /\ Behind(c, n) >= h[c].size /\ Ends(c, "DONE")
           /\ Becoming(c, [h[c] EXCEPT !.offset = Behind(c, n)])
  <2>1. verdict'[c] = "DONE"
    BY <1>8, Sides, Typed, EndsVerdict DEF Verdicts
  <2>2. h'[c] = [h[c] EXCEPT !.offset = h[c].offset + n]
    BY <1>4, <1>8 DEF Becoming
  <2>3. /\ h'[c].type = h[c].type /\ h'[c].fileFd = h[c].fileFd
        /\ h'[c].size = h[c].size /\ h'[c].offset = h[c].offset + n
        /\ h'[c].chunkSize = h[c].chunkSize /\ h'[c].buf = h[c].buf
        /\ h'[c].state = h[c].state /\ h'[c].chunkOffset = h[c].chunkOffset
    BY <1>5, <2>2 DEF Structs
  <2>4. h'[c].offset = h[c].size
    BY <1>4, <1>5, <1>8, <2>3
  <2> QED
    BY <1>2, <1>3, <1>4, <1>5, <1>7, <2>1, <2>3, <2>4
<1>9. CASE /\ Behind(c, n) < h[c].size /\ UNCHANGED verdict /\ ~ChunkDone(c, n)
           /\ Becoming(c, [h[c] EXCEPT !.offset = Behind(c, n),
                                       !.chunkOffset = h[c].chunkOffset + n])
  <2>1. h'[c] = [h[c] EXCEPT !.offset = h[c].offset + n,
                             !.chunkOffset = h[c].chunkOffset + n]
    BY <1>4, <1>9 DEF Becoming
  <2>2. /\ h'[c].type = h[c].type /\ h'[c].fileFd = h[c].fileFd
        /\ h'[c].size = h[c].size /\ h'[c].offset = h[c].offset + n
        /\ h'[c].chunkSize = h[c].chunkSize /\ h'[c].buf = h[c].buf
        /\ h'[c].state = h[c].state
        /\ h'[c].chunkOffset = h[c].chunkOffset + n
    BY <1>5, <2>1 DEF Structs
  <2>3. h'[c].offset < h[c].size /\ Left(c)' = Left(c) - n
    BY <1>4, <1>5, <1>9, <2>2 DEF Left
  <2> QED
    BY <1>2, <1>3, <1>4, <1>5, <1>7, <1>9, <2>2, <2>3
<1>10. CASE /\ Behind(c, n) < h[c].size /\ UNCHANGED verdict /\ ChunkDone(c, n)
            /\ Becoming(c, [h[c] EXCEPT !.offset = Behind(c, n),
                                        !.state = "SENDING_FILE_HEADER",
                                        !.chunkOffset = h[c].chunkOffset + n])
  <2>1. h'[c] = [h[c] EXCEPT !.offset = h[c].offset + n,
                             !.state = "SENDING_FILE_HEADER",
                             !.chunkOffset = h[c].chunkOffset + n]
    BY <1>4, <1>10 DEF Becoming
  <2>2. /\ h'[c].type = h[c].type /\ h'[c].fileFd = h[c].fileFd
        /\ h'[c].size = h[c].size /\ h'[c].offset = h[c].offset + n
        /\ h'[c].chunkSize = h[c].chunkSize /\ h'[c].buf = h[c].buf
        /\ h'[c].state = "SENDING_FILE_HEADER"
        /\ h'[c].chunkOffset = h[c].chunkOffset + n
    BY <1>5, <2>1 DEF Structs
  <2>3. h'[c].offset < h[c].size /\ Left(c) = n
    BY <1>4, <1>5, <1>10, <2>2 DEF Left, ChunkDone
  <2> QED
    BY <1>2, <1>3, <1>4, <1>5, <1>7, <1>10, <2>2, <2>3
<1> QED
  BY <1>6, <1>8, <1>9, <1>10

LEMMA SendingFileStreams ==
  ASSUME Streams, FileInv, TypeInv', NEW c \in Clients, WatchSendingFile(c)
  PROVE  Streams'
<1> DEFINE o == Other(c)
<1>1. PICK n : n = ToSend(c)
  OBVIOUS
<1>2. /\ h[c].state = "SENDING_FILE" /\ verdict[c] = "running"
      /\ life[c] = "up" /\ Open(c) /\ h[c].type = "SEND"
      /\ n \in Nat /\ n >= 1 /\ n <= Left(c) /\ Left(c) \in Nat
      /\ h[c].chunkSize # 0 /\ h[c].offset \in Nat
      /\ h'[o] = h[o] /\ verdict'[o] = verdict[o]
      /\ h'[c].type = h[c].type
      /\ h'[c].offset = h[c].offset + n /\ h'[c].chunkSize = h[c].chunkSize
      /\ \/ /\ verdict'[c] = "DONE" /\ h'[c].state = "SENDING_FILE"
         \/ /\ UNCHANGED verdict
            /\ \/ h'[c].state = "SENDING_FILE" /\ Left(c)' = Left(c) - n
               \/ h'[c].state = "SENDING_FILE_HEADER" /\ Left(c) = n
  BY <1>1, SendingFileMoves
<1>3. PICK m \in 1..n : /\ c = "caller" => m = n
                        /\ wire' = Sent(c, FileData(h[c].offset, m))
                        /\ cut' = (cut \/ m < n)
  BY <1>1 DEF WatchSendingFile
<1>4. TypeOK' /\ UNCHANGED <<life, file, resume, got, said, heard>>
  BY DEF TypeInv, WatchSendingFile
<1>5. h[o].state \in Getting
  BY <1>2, Sides DEF Meets, Sending
<1>6. h'[c].state \in Sending
  BY <1>2 DEF Sending
<1>7. Roles'
  <2>1. TypeFits(c)'
    BY <1>2, <1>6 DEF TypeFits, Early, Dialling, Sending, Getting, Answering,
      Talking
  <2>2. Meets(h'[c].state, h[o].state) /\ Meets(h[o].state, h'[c].state)
    BY <1>2, <1>5, <1>6 DEF Meets, Early, Sending, Getting, Talking, Offering,
      Answering
  <2>3. h'[c].state # "READING_FILE_INFO" /\ h'[c].state # "SENDING_FILE_INFO"
    BY <1>6 DEF Sending
  <2>4. Agree(h'[c].type, h[o].type)
    BY <1>2, <1>5, Sides DEF Agree, TypeFits, Getting
  <2>5. CutLate'
    <3>1. CASE c = "callee"
      BY <1>6, <3>1 DEF CutLate
    <3>2. CASE c = "caller"
      <4>1. cut' = cut
        BY <1>2, <1>3, <3>2, Sides, Typed
      <4>2. h'["callee"] = h["callee"]
        BY <1>2, <3>2 DEF Other
      <4> QED
        BY <4>1, <4>2, Sides DEF CutLate, Roles
    <3> QED
      BY <3>1, <3>2 DEF Clients
  <2>6. \A d \in Clients : life'[d] = life[d]
    BY <1>4
  <2> QED
    BY <1>2, <1>4, <2>1, <2>2, <2>3, <2>4, <2>5, <2>6, Sides, RolesStep
<1>8. h'[c].state \notin {"READING_VOICE_HEADER", "READING_VOICE_ACK"}
  BY <1>2
<1>9. CASE cut'
  <2>1. StreamLeads(c)' /\ StreamLeads(o)'
    BY <1>9 DEF StreamLeads
  <2> QED
    BY <1>7, <1>8, <2>1, StreamsStep
<1>10. CASE ~cut'
  <2>1. m = n /\ cut' = cut /\ UNCHANGED data
    <3>1. ~(m < n) /\ ~cut
      BY <1>3, <1>10
    <3>2. m = n
      BY <1>2, <3>1
    <3>3. cut' = cut
      <4>1. cut \in BOOLEAN /\ cut' \in BOOLEAN
        BY <1>3, Sides, Typed
      <4> QED
        BY <1>10, <3>1, <4>1
    <3> QED
      BY <1>4, <3>2, <3>3 DEF data
  <2>2. PICK q \in Seq(Items) : q = FileData(h[c].offset, n)
    BY <1>2, FileDataItems
  <2>3. PICK y \in Nodes : y = Node("chunk", Left(c), h[c].offset)
    BY <1>2, NodeType DEF Names
  <2>4. PICK z \in Nodes : z = Node("chunk", Left(c) - n, h[c].offset + n)
    <3>1. Left(c) - n \in Nat /\ h[c].offset + n \in Nat
      BY <1>2
    <3> QED
      BY <3>1, NodeType DEF Names
  <2>5. Path(y, q, z, said[c])
    BY <1>2, <2>2, <2>3, <2>4, FileDataPath
  <2>6. \A w \in Nodes : Stops(c, w) => w = y
    BY <1>2, <2>3, RunningStops DEF Wrote
  <2>7. Stops(c, z)'
    <3>1. CASE verdict'[c] = "DONE" /\ h'[c].state = "SENDING_FILE"
      BY <1>2, <2>4, <3>1 DEF Stops, Broken, Node
    <3>2. CASE h'[c].state = "SENDING_FILE" /\ Left(c)' = Left(c) - n
      BY <1>2, <2>4, <3>2 DEF Stops, Wrote, Answering, Getting, Talking
    <3>3. CASE h'[c].state = "SENDING_FILE_HEADER" /\ Left(c) = n
      BY <1>2, <2>4, <3>3 DEF Stops, Wrote, Answering, Getting, Talking
    <3> QED
      BY <1>2, <3>1, <3>2, <3>3
  <2>8. \A x \in Nodes : Stands(c, x) => Stands(c, x)'
    BY <1>2, <1>4, <1>6 DEF Stands, Offering, Sending
  <2>9. wire' = Sent(c, q)
    BY <1>3, <2>1, <2>2
  <2>10. h[o].state \notin Early \/ h'[c].type = h[c].type
    BY <1>2
  <2>11. UNCHANGED <<life, data>>
    BY <1>4, <2>1
  <2> HIDE DEF o
  <2> QED
    BY <1>2, <1>7, <1>8, <2>5, <2>6, <2>7, <2>8, <2>9, <2>10, <2>11, WriteStep
      DEF o
<1> QED
  BY <1>9, <1>10

LEMMA TransferEndsStreams ==
  ASSUME Streams, TypeInv', NEW c \in Clients,
         \/ WatchSendingFileEnds(c) \/ WatchGettingFileFails(c)
         \/ WatchReadingVoiceDataFails(c)
  PROVE  /\ Streams' /\ UNCHANGED <<h, life, wire, data>>
         /\ h[c].state \in {"SENDING_FILE", "READING_FILE_HEADER",
                            "GETTING_FILE", "READING_VOICE_DATA"}
         /\ Open(c) /\ verdict[c] = "running"
         /\ verdict'[Other(c)] = verdict[Other(c)]
         /\ verdict'[c] \in Verdicts \ {"running"}
         /\ verdict'[c] = "DONE" =>
              /\ h[c].state = "SENDING_FILE"
              /\ h[c].size = 0 \/ (FromFile(c) > 0 /\ ToSend(c) < 1)
<1>1. UNCHANGED <<h, life, wire, data>>
  BY DEF WatchSendingFileEnds, WatchGettingFileFails, WatchReadingVoiceDataFails
<1>2. PICK state \in {"SENDING_FILE", "READING_FILE_HEADER", "GETTING_FILE",
                      "READING_VOICE_DATA"},
           event \in {"DONE", "FILE", "EOF", "NET"} :
        /\ Polled(c, state) /\ Ends(c, event)
        /\ event = "DONE" =>
             /\ state = "SENDING_FILE"
             /\ h[c].size = 0 \/ (FromFile(c) > 0 /\ ToSend(c) < 1)
  <2>1. CASE WatchSendingFileEnds(c)
    BY <2>1 DEF WatchSendingFileEnds
  <2>2. CASE WatchGettingFileFails(c)
    BY <2>2 DEF WatchGettingFileFails
  <2>3. CASE WatchReadingVoiceDataFails(c)
    BY <2>3 DEF WatchReadingVoiceDataFails
  <2> QED
    BY <2>1, <2>2, <2>3
<1>3. event \in Verdicts \ {"running"}
  BY <1>2 DEF Verdicts, Errors
<1>4. h[c].state = state /\ Open(c) /\ verdict[c] = "running"
  BY <1>2, PolledOpen
<1>5. verdict'[c] = event /\ verdict'[Other(c)] = verdict[Other(c)]
  BY <1>2, <1>3, Sides, Typed, EndsVerdict
<1>6. Streams'
  BY <1>1, <1>2, <1>3, OnlyEnds
<1> QED
  BY <1>1, <1>2, <1>3, <1>4, <1>5, <1>6

\* What a read of a header does, whole or in part.
LEMMA HeaderMoves ==
  ASSUME TypeInv, NEW c \in Clients, WatchReadingFileHeader(c)
  PROVE  /\ h[c].state = "READING_FILE_HEADER" /\ Open(c)
         /\ verdict[c] = "running" /\ life[c] = "up"
         /\ wire'[Other(c)] = wire[Other(c)] /\ UNCHANGED <<life, data>>
         /\ h'[Other(c)] = h[Other(c)] /\ verdict'[Other(c)] = verdict[Other(c)]
         /\ h'[c].type = h[c].type /\ h'[c].fileFd = h[c].fileFd
         /\ h'[c].size = h[c].size /\ h'[c].offset = h[c].offset
         /\ \E n \in 1..2 :
              /\ n <= Len(wire[c])
              /\ wire'[c] = SubSeq(wire[c], n + 1, Len(wire[c]))
              /\ \/ /\ n = 1 /\ h[c].buf = <<>> /\ h'[c].buf = <<wire[c][1]>>
                    /\ h'[c].state = "READING_FILE_HEADER" /\ UNCHANGED verdict
                 \/ \E type, size \in Nat :
                      /\ h[c].buf = <<>> =>
                           n = 2 /\ type \in Numbers(wire[c][1], "bigType")
                      /\ h[c].buf # <<>> =>
                           n = 1 /\ type \in Numbers(h[c].buf[1], "bigType")
                                 /\ 1 \in DOMAIN h[c].buf
                      /\ size \in Numbers(wire[c][n], "bigSize")
                      /\ \/ /\ type # 5 /\ size # 0 /\ UNCHANGED verdict
                            /\ h'[c].state = "GETTING_FILE" /\ Left(c)' = size
                         \/ /\ type = 5 /\ verdict'[c] = "REFUSED"
                            /\ h'[c].state = "READING_FILE_HEADER"
                         \/ /\ type # 5 /\ size = 0 /\ verdict'[c] = "DONE"
                            /\ h'[c].state = "READING_FILE_HEADER"
<1> DEFINE o == Other(c)
           len == Len(h[c].buf)
<1>1. TypeOK /\ ChunkSound(c) /\ Polled(c, "READING_FILE_HEADER")
      /\ UNCHANGED <<life, data>>
  BY DEF TypeInv, WatchReadingFileHeader
<1>2. /\ h[c].state = "READING_FILE_HEADER" /\ Open(c)
      /\ verdict[c] = "running" /\ life[c] = "up"
  BY <1>1, PolledOpen
<1>3. /\ h[c].chunkSize = 2 /\ h[c].chunkOffset = len /\ len \in {0, 1}
      /\ h[c] \in Structs /\ h[c].buf \in Seq(Items)
      /\ wire[c] \in Seq(Items) /\ o \in Clients /\ o # c
  <2>1. h[c] \in Structs /\ h[c].buf \in Seq(Items) /\ wire[c] \in Seq(Items)
    BY <1>1, Typed DEF Structs
  <2>2. len \in Nat
    BY <2>1, LenProperties
  <2>3. h[c].chunkSize = 2 /\ h[c].chunkOffset = len /\ h[c].chunkOffset < 2
    BY <1>1, <1>2 DEF ChunkSound
  <2>4. o \in Clients /\ o # c
    BY OtherClient
  <2> HIDE DEF len, o
  <2>5. len \in {0, 1}
    BY <2>2, <2>3
  <2> QED
    BY <2>1, <2>3, <2>4, <2>5
<1>4. PICK n \in 1..Least({h[c].chunkSize - h[c].chunkOffset, Len(wire[c])}) :
        /\ wire' = Taken(c, n)
        /\ \/ /\ ~ChunkDone(c, n)
              /\ h' = [h EXCEPT ![c].chunkOffset = @ + n,
                                ![c].buf = Buffered(c, n)]
              /\ UNCHANGED verdict
           \/ /\ ChunkDone(c, n)
              /\ \E type \in Numbers(Buffered(c, n)[1], "bigType"),
                    size \in Numbers(Buffered(c, n)[2], "bigSize") :
                   HeaderRead(c, type, size)
  BY DEF WatchReadingFileHeader
<1> HIDE DEF len
<1>5. n \in 1..Len(wire[c]) /\ n <= 2 - len /\ Len(wire[c]) \in Nat
  <2>1. h[c].chunkSize - h[c].chunkOffset = 2 - len /\ 2 - len \in Int
    BY <1>3
  <2> QED
    BY <1>1, <1>4, <2>1, CanTake
<1>6. n \in 1..2 /\ n <= Len(wire[c])
  BY <1>3, <1>5
<1>7. wire'[c] = SubSeq(wire[c], n + 1, Len(wire[c])) /\ wire'[o] = wire[o]
  <2>1. n \in 0..Len(wire[c])
    BY <1>5
  <2> QED
    BY <1>1, <1>4, <2>1, Typed, TakenType
<1>8. /\ Buffered(c, n) \in Seq(Items) /\ Len(Buffered(c, n)) = len + n
      /\ \A i \in 1..len : Buffered(c, n)[i] = h[c].buf[i]
      /\ \A i \in 1..n : Buffered(c, n)[len + i] = wire[c][i]
  BY <1>1, <1>5, BufferedType DEF len
<1>9. len = 0 <=> h[c].buf = <<>>
  BY <1>3, EmptySeq DEF len
<1>10. ChunkDone(c, n) <=> len + n >= 2
  BY <1>3 DEF ChunkDone
<1> DEFINE Kept ==
             /\ h'[o] = h[o] /\ verdict'[o] = verdict[o]
             /\ h'[c].type = h[c].type /\ h'[c].fileFd = h[c].fileFd
             /\ h'[c].size = h[c].size /\ h'[c].offset = h[c].offset
           One ==
             /\ n = 1 /\ h[c].buf = <<>> /\ h'[c].buf = <<wire[c][1]>>
             /\ h'[c].state = "READING_FILE_HEADER" /\ UNCHANGED verdict
           Both ==
             \E type, size \in Nat :
               /\ h[c].buf = <<>> =>
                    n = 2 /\ type \in Numbers(wire[c][1], "bigType")
               /\ h[c].buf # <<>> =>
                    n = 1 /\ type \in Numbers(h[c].buf[1], "bigType")
                          /\ 1 \in DOMAIN h[c].buf
               /\ size \in Numbers(wire[c][n], "bigSize")
               /\ \/ /\ type # 5 /\ size # 0 /\ UNCHANGED verdict
                     /\ h'[c].state = "GETTING_FILE" /\ Left(c)' = size
                  \/ /\ type = 5 /\ verdict'[c] = "REFUSED"
                     /\ h'[c].state = "READING_FILE_HEADER"
                  \/ /\ type # 5 /\ size = 0 /\ verdict'[c] = "DONE"
                     /\ h'[c].state = "READING_FILE_HEADER"
<1> HIDE DEF Kept, One, Both
<1>11. ASSUME ~ChunkDone(c, n)
       PROVE  Kept /\ One
  <2>1. len = 0 /\ n = 1
    BY <1>3, <1>5, <1>10, <1>11
  <2>2. Buffered(c, n) = <<wire[c][1]>>
    <3> DEFINE s == Buffered(c, n)
               t == <<wire[c][1]>>
    <3>1. s \in Seq(Items) /\ Len(s) = 1 /\ s[1] = wire[c][1]
      BY <1>8, <2>1
    <3>2. t \in Seq(Items) /\ Len(t) = 1 /\ t[1] = wire[c][1]
      <4>1. wire[c][1] \in Items
        BY <1>3, <1>5, ElementOfSeq
      <4> QED
        BY <4>1
    <3> HIDE DEF s, t
    <3>3. \A i \in 1..Len(s) : s[i] = t[i]
      BY <3>1, <3>2
    <3>4. s = t
      BY <3>1, <3>2, <3>3, SeqEqual
    <3> QED
      BY <3>4 DEF s, t
  <2>3. Becoming(c, [h[c] EXCEPT !.chunkOffset = h[c].chunkOffset + n,
                                 !.buf = Buffered(c, n)])
        /\ UNCHANGED verdict
    <3>1. h' = [h EXCEPT ![c].chunkOffset = @ + n, ![c].buf = Buffered(c, n)]
          /\ UNCHANGED verdict
      BY <1>4, <1>11
    <3>2. n \in Nat /\ h \in [Clients -> Structs]
      BY <1>1, <1>6, Typed
    <3> QED
      BY <1>8, <3>1, <3>2, PartBecomes
  <2>4. h'[c] = [h[c] EXCEPT !.chunkOffset = h[c].chunkOffset + n,
                             !.buf = Buffered(c, n)]
        /\ h'[o] = h[o]
    BY <2>3 DEF Becoming
  <2>5. /\ h'[c].type = h[c].type /\ h'[c].fileFd = h[c].fileFd
        /\ h'[c].size = h[c].size /\ h'[c].offset = h[c].offset
        /\ h'[c].state = h[c].state /\ h'[c].buf = Buffered(c, n)
    BY <1>3, <2>4 DEF Structs
  <2>6. h'[c].state = "READING_FILE_HEADER"
    BY <1>2, <2>5
  <2> QED
    BY <1>9, <2>1, <2>2, <2>3, <2>4, <2>5, <2>6 DEF Kept, One
<1>12. ASSUME ChunkDone(c, n)
       PROVE  Kept /\ Both
  <2>1. PICK type \in Numbers(Buffered(c, n)[1], "bigType"),
             size \in Numbers(Buffered(c, n)[2], "bigSize") :
          HeaderRead(c, type, size)
    BY <1>4, <1>12
  <2>2. n = 2 - len
    BY <1>3, <1>5, <1>10, <1>12
  <2>3. /\ Buffered(c, n)[2] = wire[c][n]
        /\ Buffered(c, n)[1] = IF len = 0 THEN wire[c][1] ELSE h[c].buf[1]
    BY <1>3, <1>8, <2>2
  <2>4. wire[c][n] \in Items /\ Buffered(c, n)[1] \in Items
    <3>1. wire[c][n] \in Items
      BY <1>3, <1>5, ElementOfSeq
    <3>2. 1 \in 1..Len(Buffered(c, n))
      BY <1>3, <1>8, <2>2
    <3> QED
      BY <1>8, <3>1, <3>2, ElementOfSeq
  <2>5. size \in Nat /\ type \in Nat
    BY <2>1, <2>3, <2>4, NumbersType
  <2>6. len # 0 => 1 \in DOMAIN h[c].buf
    <3>1. DOMAIN h[c].buf = 1..Len(h[c].buf)
      BY <1>3, LenProperties
    <3> QED
      BY <1>3, <3>1 DEF len
  <2>7. \/ /\ type # 5 /\ size # 0 /\ UNCHANGED verdict
           /\ Becoming(c, [h[c] EXCEPT !.buf = <<>>, !.chunkSize = size,
                              !.chunkOffset = 0, !.state = "GETTING_FILE"])
        \/ /\ type = 5 /\ Ends(c, "REFUSED")
           /\ Becoming(c, [h[c] EXCEPT !.buf = <<>>, !.chunkSize = size,
                                       !.chunkOffset = 0])
        \/ /\ type # 5 /\ size = 0 /\ Ends(c, "DONE")
           /\ Becoming(c, [h[c] EXCEPT !.buf = <<>>, !.chunkSize = size,
                                       !.chunkOffset = 0])
    BY <1>1, <2>1, <2>5, Typed, HeaderReadBecomes
  <2>8. \A event \in {"REFUSED", "DONE"} : Ends(c, event) =>
          verdict'[c] = event /\ verdict'[o] = verdict[o]
    BY <1>1, Typed, EndsVerdict DEF Verdicts, Errors
  <2>9. /\ h[c].buf = <<>> =>
             n = 2 /\ type \in Numbers(wire[c][1], "bigType")
        /\ h[c].buf # <<>> =>
             n = 1 /\ type \in Numbers(h[c].buf[1], "bigType")
                   /\ 1 \in DOMAIN h[c].buf
        /\ size \in Numbers(wire[c][n], "bigSize")
    BY <1>3, <1>9, <2>1, <2>2, <2>3, <2>6
  <2>10. CASE /\ type # 5 /\ size # 0 /\ UNCHANGED verdict
              /\ Becoming(c, [h[c] EXCEPT !.buf = <<>>, !.chunkSize = size,
                                 !.chunkOffset = 0, !.state = "GETTING_FILE"])
    <3>1. h'[c] = [h[c] EXCEPT !.buf = <<>>, !.chunkSize = size,
                                 !.chunkOffset = 0, !.state = "GETTING_FILE"]
          /\ h'[o] = h[o]
      BY <2>10 DEF Becoming
    <3>2. /\ h'[c].type = h[c].type /\ h'[c].fileFd = h[c].fileFd
          /\ h'[c].size = h[c].size /\ h'[c].offset = h[c].offset
          /\ h'[c].state = "GETTING_FILE" /\ h'[c].chunkSize = size
          /\ h'[c].chunkOffset = 0
      BY <1>3, <3>1 DEF Structs
    <3>3. Left(c)' = size
      BY <2>5, <3>2 DEF Left
    <3>4. verdict'[o] = verdict[o]
      BY <2>10
    <3>5. Kept
      BY <3>1, <3>2, <3>4 DEF Kept
    <3>6. Both
      BY <2>5, <2>9, <2>10, <3>2, <3>3 DEF Both
    <3> QED
      BY <3>5, <3>6
  <2>11. CASE /\ \/ type = 5 /\ Ends(c, "REFUSED")
                 \/ type # 5 /\ size = 0 /\ Ends(c, "DONE")
              /\ Becoming(c, [h[c] EXCEPT !.buf = <<>>, !.chunkSize = size,
                                          !.chunkOffset = 0])
    <3>1. h'[c] = [h[c] EXCEPT !.buf = <<>>, !.chunkSize = size,
                               !.chunkOffset = 0]
          /\ h'[o] = h[o]
      BY <2>11 DEF Becoming
    <3>2. /\ h'[c].type = h[c].type /\ h'[c].fileFd = h[c].fileFd
          /\ h'[c].size = h[c].size /\ h'[c].offset = h[c].offset
          /\ h'[c].state = "READING_FILE_HEADER"
      BY <1>2, <1>3, <3>1 DEF Structs
    <3>3. /\ verdict'[o] = verdict[o]
          /\ \/ type = 5 /\ verdict'[c] = "REFUSED"
             \/ type # 5 /\ size = 0 /\ verdict'[c] = "DONE"
      BY <2>8, <2>11
    <3>4. Kept
      BY <3>1, <3>2, <3>3 DEF Kept
    <3>5. Both
      BY <2>5, <2>9, <3>2, <3>3 DEF Both
    <3> QED
      BY <3>4, <3>5
  <2> QED
    BY <2>7, <2>10, <2>11
<1>13. Kept /\ (One \/ Both)
  BY <1>11, <1>12
<1>14. \E m \in 1..2 :
         /\ m <= Len(wire[c])
         /\ wire'[c] = SubSeq(wire[c], m + 1, Len(wire[c]))
         /\ \/ /\ m = 1 /\ h[c].buf = <<>> /\ h'[c].buf = <<wire[c][1]>>
               /\ h'[c].state = "READING_FILE_HEADER" /\ UNCHANGED verdict
            \/ \E type, size \in Nat :
                 /\ h[c].buf = <<>> =>
                      m = 2 /\ type \in Numbers(wire[c][1], "bigType")
                 /\ h[c].buf # <<>> =>
                      m = 1 /\ type \in Numbers(h[c].buf[1], "bigType")
                            /\ 1 \in DOMAIN h[c].buf
                 /\ size \in Numbers(wire[c][m], "bigSize")
                 /\ \/ /\ type # 5 /\ size # 0 /\ UNCHANGED verdict
                       /\ h'[c].state = "GETTING_FILE" /\ Left(c)' = size
                    \/ /\ type = 5 /\ verdict'[c] = "REFUSED"
                       /\ h'[c].state = "READING_FILE_HEADER"
                    \/ /\ type # 5 /\ size = 0 /\ verdict'[c] = "DONE"
                       /\ h'[c].state = "READING_FILE_HEADER"
  <2> WITNESS n \in 1..2
  <2> QED
    BY <1>6, <1>7, <1>13 DEF One, Both
<1> QED
  BY <1>1, <1>2, <1>7, <1>13, <1>14 DEF Kept

LEMMA PosNat ==
  ASSUME TypeOK
  PROVE  Pos \in Nat /\ Len(got) \in Nat /\ resume \in Nat /\ got \in Seq(Nat)
<1>1. got \in Seq(Nat) /\ resume \in Nat
  BY Typed
<1>2. Len(got) \in Nat
  BY <1>1, LenProperties
<1> QED
  BY <1>1, <1>2 DEF Pos

\* A header is read behind the chunks before it, and the one that announces
\* nothing at the end of the file.
LEMMA ReadingFileHeaderStreams ==
  ASSUME Streams, FileInv, BufInv, TypeInv', NEW c \in Clients,
         WatchReadingFileHeader(c)
  PROVE  /\ Streams' /\ h[Other(c)].state \in Sending /\ h'[c].state \in Getting
         /\ HeaderSound(c)'
         /\ ~cut /\ verdict'[c] = "DONE" =>
              /\ Pos = file.stat
              /\ resume # file.stat => verdict[Other(c)] = "DONE"
<1> DEFINE o == Other(c)
<1>1. /\ h[c].state = "READING_FILE_HEADER" /\ Open(c)
      /\ verdict[c] = "running" /\ life[c] = "up"
      /\ wire'[o] = wire[o] /\ UNCHANGED <<life, data>>
      /\ h'[o] = h[o] /\ verdict'[o] = verdict[o]
      /\ h'[c].type = h[c].type
  BY Sides, HeaderMoves
<1>2. PICK n \in 1..2 :
        /\ n <= Len(wire[c])
        /\ wire'[c] = SubSeq(wire[c], n + 1, Len(wire[c]))
        /\ \/ /\ n = 1 /\ h[c].buf = <<>> /\ h'[c].buf = <<wire[c][1]>>
              /\ h'[c].state = "READING_FILE_HEADER" /\ UNCHANGED verdict
           \/ \E type, size \in Nat :
                /\ h[c].buf = <<>> =>
                     n = 2 /\ type \in Numbers(wire[c][1], "bigType")
                /\ h[c].buf # <<>> =>
                     n = 1 /\ type \in Numbers(h[c].buf[1], "bigType")
                           /\ 1 \in DOMAIN h[c].buf
                /\ size \in Numbers(wire[c][n], "bigSize")
                /\ \/ /\ type # 5 /\ size # 0 /\ UNCHANGED verdict
                      /\ h'[c].state = "GETTING_FILE" /\ Left(c)' = size
                   \/ /\ type = 5 /\ verdict'[c] = "REFUSED"
                      /\ h'[c].state = "READING_FILE_HEADER"
                   \/ /\ type # 5 /\ size = 0 /\ verdict'[c] = "DONE"
                      /\ h'[c].state = "READING_FILE_HEADER"
  BY Sides, HeaderMoves
<1>3. TypeOK' /\ h'[c].state \in Getting /\ h[c].type = "GET"
  BY <1>1, <1>2, Sides DEF TypeInv, TypeFits, Getting
<1>4. wire[c] \in Seq(Items) /\ Len(wire[c]) \in Nat /\ Len(wire[c]) >= 1
      /\ wire[c] # <<>> /\ wire'[c] \in Seq(Items) /\ wire[c][1] \in Items
  <2>1. wire[c] \in Seq(Items) /\ wire'[c] \in Seq(Items)
    BY <1>3, Sides, Typed DEF TypeOK
  <2>2. Len(wire[c]) \in Nat
    BY <2>1, LenProperties
  <2>3. Len(wire[c]) >= 1
    BY <1>2, <2>2
  <2>4. Len(<<>>) = 0
    OBVIOUS
  <2>5. wire[c] # <<>>
    BY <2>3, <2>4
  <2>6. wire[c][1] \in Items
    BY <2>1, <2>2, <2>3, ElementOfSeq
  <2> QED
    BY <2>1, <2>2, <2>3, <2>5, <2>6
<1>5. h[o].state \in Sending /\ StreamLeads(c)' /\ HeaderSound(c)'
      /\ (~cut /\ verdict'[c] = "DONE" =>
            /\ Pos = file.stat
            /\ resume # file.stat => verdict[o] = "DONE")
  <2>1. h[o].state \in {"READING_FILE_ACK"} \cup Sending
    BY <1>1, Sides DEF Meets
  <2>2. CASE cut
    <3>1. c # "callee"
      BY <1>1, <2>2, Sides DEF Roles, CutLate, Sending, Talking
    <3>2. o = "callee"
      BY <3>1 DEF Other, Clients
    <3>3. h[o].state \in Sending
      BY <2>1, <2>2, <3>2, Sides DEF Roles, CutLate, Talking
    <3>4. cut'
      BY <1>1, <2>2 DEF data
    <3> QED
      BY <2>2, <3>3, <3>4 DEF StreamLeads, HeaderSound
  <2>3. CASE ~cut
    <3>1. PICK x \in Nodes, y \in Nodes :
            Stands(c, x) /\ Stops(o, y) /\ Path(x, wire[c], y, said[o])
      BY <1>1, <2>3, Sides DEF StreamLeads
    <3>2. PICK v \in Nodes :
            /\ Leads(x, wire[c][1], v, said[o])
            /\ Path(v, SubSeq(wire[c], 2, Len(wire[c])), y, said[o])
      BY <1>4, <3>1, PathHead
    <3>3. x.at \notin {"told", "asked", "answered", "last"}
      BY <3>2, LeadsFrom
    <3>4. Pos \in Nat
      BY Sides, PosNat
    <3>5. /\ h[c].buf = <<>> => x = Node("chunk", 0, Pos)
          /\ h[c].buf # <<>> => x = Node("header", 0, Pos)
      <4>1. \/ h[c].buf = <<>> /\ x \in {Node("told", 0, h[c].size),
                                         Node("chunk", 0, Pos)}
            \/ h[c].buf # <<>> /\ x = Node("header", 0, Pos)
        BY <1>1, <3>1 DEF Stands
      <4>2. x # Node("told", 0, h[c].size)
        BY <3>3 DEF Node
      <4> QED
        BY <4>1, <4>2
    <3>6. Later(x.at, y.at) /\ x.at \in {"chunk", "header"}
      <4>1. x.at \in {"chunk", "header"}
        BY <3>5 DEF Node
      <4> QED
        BY <1>4, <3>1, <4>1, PathLater
    <3>7. h[o].state \in Sending
      <4>1. y.at # "told"
        BY <3>6 DEF Later
      <4>2. h[o].state # "READING_FILE_ACK"
        BY <3>1, <4>1, Sides, Typed, StopsAt
      <4> QED
        BY <2>1, <4>2
    <3>8. Stops(o, y)'
      BY <1>1, <1>3, <3>1, Sides, OtherStops DEF data
    <3>9. Pos' = Pos /\ UNCHANGED <<resume, said, cut>>
      BY <1>1 DEF data, Pos
    <3>10. h[c].buf = <<>> =>
             /\ wire[c][1].kind = "bigType" /\ wire[c][1].val # 5
             /\ v = Node("header", 0, Pos)
      <4>1. h[c].buf = <<>> => x.at = "chunk" /\ x.left = 0 /\ x.pos = Pos
        BY <3>5 DEF Node
      <4> QED
        BY <3>2, <4>1, LeadsFrom
    <3>11. CASE /\ n = 1 /\ h[c].buf = <<>> /\ h'[c].buf = <<wire[c][1]>>
                /\ h'[c].state = "READING_FILE_HEADER" /\ UNCHANGED verdict
      <4>1. h'[c].buf # <<>>
        BY <3>11
      <4>2. Stands(c, v)'
        BY <1>3, <3>9, <3>10, <3>11, <4>1 DEF Stands, Getting, Offering, Sending
      <4>3. Path(v, wire'[c], y, said[o])
        BY <1>2, <3>2, <3>11
      <4>4. StreamLeads(c)'
        BY <3>8, <3>9, <4>2, <4>3, StreamsRead
      <4>5. HeaderSound(c)'
        <5>1. \A i \in DOMAIN h'[c].buf : h'[c].buf[i] = wire[c][1]
          BY <3>11
        <5> QED
          BY <3>10, <3>11, <5>1 DEF HeaderSound
      <4> QED
        BY <1>1, <3>7, <3>11, <4>4, <4>5
    <3>12. CASE \E type, size \in Nat :
                /\ h[c].buf = <<>> =>
                     n = 2 /\ type \in Numbers(wire[c][1], "bigType")
                /\ h[c].buf # <<>> =>
                     n = 1 /\ type \in Numbers(h[c].buf[1], "bigType")
                           /\ 1 \in DOMAIN h[c].buf
                /\ size \in Numbers(wire[c][n], "bigSize")
                /\ \/ /\ type # 5 /\ size # 0 /\ UNCHANGED verdict
                      /\ h'[c].state = "GETTING_FILE" /\ Left(c)' = size
                   \/ /\ type = 5 /\ verdict'[c] = "REFUSED"
                      /\ h'[c].state = "READING_FILE_HEADER"
                   \/ /\ type # 5 /\ size = 0 /\ verdict'[c] = "DONE"
                      /\ h'[c].state = "READING_FILE_HEADER"
      <4>1. PICK type \in Nat, size \in Nat :
                /\ h[c].buf = <<>> =>
                     n = 2 /\ type \in Numbers(wire[c][1], "bigType")
                /\ h[c].buf # <<>> =>
                     n = 1 /\ type \in Numbers(h[c].buf[1], "bigType")
                           /\ 1 \in DOMAIN h[c].buf
                /\ size \in Numbers(wire[c][n], "bigSize")
                /\ \/ /\ type # 5 /\ size # 0 /\ UNCHANGED verdict
                      /\ h'[c].state = "GETTING_FILE" /\ Left(c)' = size
                   \/ /\ type = 5 /\ verdict'[c] = "REFUSED"
                      /\ h'[c].state = "READING_FILE_HEADER"
                   \/ /\ type # 5 /\ size = 0 /\ verdict'[c] = "DONE"
                      /\ h'[c].state = "READING_FILE_HEADER"
        BY <3>12
      <4>2. type # 5
        <5>1. CASE h[c].buf = <<>>
          BY <3>10, <4>1, <5>1 DEF Numbers
        <5>2. CASE h[c].buf # <<>>
          <6>1. h[c].buf[1].kind = "bigType" /\ h[c].buf[1].val # 5
            BY <1>1, <2>3, <4>1, <5>2 DEF BufInv, HeaderSound
          <6> QED
            BY <4>1, <5>2, <6>1 DEF Numbers
        <5> QED
          BY <5>1, <5>2
      <4>3. PICK z \in Nodes :
              /\ Leads(Node("header", 0, Pos), wire[c][n], z, said[o])
              /\ Path(z, wire'[c], y, said[o])
        <5>1. CASE h[c].buf = <<>>
          <6>1. n = 2 /\ Len(wire[c]) >= 2
            BY <1>2, <1>4, <4>1, <5>1
          <6>2. PICK u \in Nodes, z \in Nodes :
                  /\ Leads(x, wire[c][1], u, said[o])
                  /\ Leads(u, wire[c][2], z, said[o])
                  /\ Path(z, SubSeq(wire[c], 3, Len(wire[c])), y, said[o])
            BY <1>4, <3>1, <6>1, PathPair
          <6>3. x.at = "chunk" /\ x.left = 0 /\ x.pos = Pos
            BY <3>5, <5>1 DEF Node
          <6>4. u = Node("header", 0, Pos)
            BY <6>2, <6>3, LeadsFrom
          <6> QED
            BY <1>2, <6>1, <6>2, <6>4
        <5>2. CASE h[c].buf # <<>>
          BY <1>2, <3>2, <3>5, <4>1, <5>2
        <5> QED
          BY <5>1, <5>2
      <4>4. /\ wire[c][n].kind = "bigSize" /\ size = wire[c][n].val
            /\ z = IF size = 0 THEN Node("last", 0, Pos)
                               ELSE Node("chunk", size, Pos)
        <5>1. PICK u \in Nodes : u = Node("header", 0, Pos)
          BY <3>4, NodeType DEF Names
        <5>2. u.at = "header" /\ u.pos = Pos
          BY <5>1 DEF Node
        <5>3. wire[c][n].kind = "bigSize"
              /\ z = IF wire[c][n].val = 0 THEN Node("last", 0, Pos)
                                           ELSE Node("chunk", wire[c][n].val, Pos)
          BY <4>3, <5>1, <5>2, LeadsFrom
        <5>4. size = wire[c][n].val
          BY <4>1, <5>3 DEF Numbers
        <5> QED
          BY <5>3, <5>4
      <4>5. CASE size # 0 /\ UNCHANGED verdict
                 /\ h'[c].state = "GETTING_FILE" /\ Left(c)' = size
        <5>1. Stands(c, z)'
          BY <3>9, <4>4, <4>5 DEF Stands, Offering, Sending
        <5>2. StreamLeads(c)'
          BY <3>8, <3>9, <4>3, <5>1, StreamsRead
        <5>3. HeaderSound(c)'
          BY <4>5 DEF HeaderSound
        <5> QED
          BY <1>1, <3>7, <4>5, <5>2, <5>3
      <4>6. CASE size = 0 /\ verdict'[c] = "DONE"
        <5>1. ~Open(c)'
          BY <4>6 DEF Open
        <5>2. StreamLeads(c)' /\ HeaderSound(c)'
          BY <5>1 DEF StreamLeads, HeaderSound
        <5>3. z.at = "last" /\ z.pos = Pos
          BY <4>4, <4>6 DEF Node
        <5>4. y.at = "last"
          <6>1. Later(z.at, y.at)
            BY <1>4, <4>3, PathLater
          <6> QED
            BY <5>3, <6>1 DEF Later
        <5>5. z = y
          BY <1>4, <4>3, <5>3, <5>4, PathStill
        <5>6. h[o].state = "SENDING_FILE" /\ h[o].chunkSize = 0
              /\ y = Node("last", 0, h[o].offset)
          BY <3>1, <3>7, <5>4 DEF Stops, Wrote, Broken, Sending, Node
        <5>7. h[o].offset = Pos
          BY <5>3, <5>5, <5>6 DEF Node
        <5>8. /\ h[o].offset = file.stat
              /\ h[o].offset # resume => verdict[o] = "DONE"
          BY <2>3, <5>6, Sides DEF FileInv, FileKnown, Sending
        <5> QED
          BY <3>7, <5>2, <5>7, <5>8
      <4> QED
        BY <4>1, <4>2, <4>5, <4>6
    <3> QED
      BY <1>2, <3>11, <3>12
  <2> QED
    BY <2>2, <2>3
<1>6. Roles'
  <2>1. TypeFits(c)'
    BY <1>1, <1>3 DEF TypeFits, Early, Dialling, Sending, Getting, Answering,
      Talking
  <2>2. Meets(h'[c].state, h[o].state) /\ Meets(h[o].state, h'[c].state)
    BY <1>3, <1>5 DEF Meets, Early, Sending, Getting, Talking, Offering,
      Answering
  <2>3. h'[c].state # "READING_FILE_INFO" /\ h'[c].state # "SENDING_FILE_INFO"
    BY <1>3 DEF Getting
  <2>4. cut' = cut
    BY <1>1 DEF data
  <2>5. c = "caller" \/ ~cut \/ h'[c].state \in Sending \cup Talking
    BY <1>1, Sides DEF Roles, CutLate, Sending, Talking, Clients
  <2> QED
    BY <1>1, <1>3, <2>1, <2>2, <2>3, <2>4, <2>5, Sides, RolesMove
<1>7. StreamLeads(o)'
  <2>1. \A y \in Nodes : Stops(c, y) => Stops(c, y)'
    <3>1. TAKE y \in Nodes
    <3>2. HAVE Stops(c, y)
    <3>3. y = Node("answered", 0, resume)
      BY <1>1, <3>2, RunningStops DEF Wrote, Getting
    <3> QED
      BY <1>1, <1>3, <3>3 DEF Stops, Wrote, Getting, Answering, Talking, data
  <2> QED
    BY <1>1, <2>1, Sides, OtherKept DEF data
<1>8. h'[c].state \notin {"READING_VOICE_HEADER", "READING_VOICE_ACK"}
  BY <1>3 DEF Getting
<1>9. Streams'
  BY <1>5, <1>6, <1>7, <1>8, StreamsStep
<1> QED
  BY <1>3, <1>5, <1>9

\* What a read of data does.
LEMMA GettingFileMoves ==
  ASSUME TypeInv, NEW c \in Clients, WatchGettingFile(c)
  PROVE  /\ h[c].state = "GETTING_FILE" /\ Open(c)
         /\ verdict[c] = "running" /\ life[c] = "up"
         /\ wire'[Other(c)] = wire[Other(c)]
         /\ UNCHANGED <<life, file, resume, cut, said, heard>>
         /\ h'[Other(c)] = h[Other(c)] /\ verdict'[Other(c)] = verdict[Other(c)]
         /\ h'[c].type = h[c].type /\ h'[c].fileFd = h[c].fileFd
         /\ h'[c].size = h[c].size
         /\ \E n \in 1..Len(wire[c]) :
              /\ n <= Left(c) /\ Left(c) \in Nat
              /\ wire'[c] = SubSeq(wire[c], n + 1, Len(wire[c]))
              /\ got' = got \o Numbered(SubSeq(wire[c], 1, n))
              /\ h'[c].offset = Behind(c, n)
              /\ \/ /\ Behind(c, n) >= h[c].size /\ verdict'[c] = "DONE"
                    /\ h'[c].state = "GETTING_FILE"
                 \/ /\ Behind(c, n) < h[c].size /\ UNCHANGED verdict
                    /\ \/ h'[c].state = "GETTING_FILE" /\ Left(c)' = Left(c) - n
                       \/ /\ h'[c].state = "READING_FILE_HEADER"
                          /\ Left(c) = n /\ h'[c].buf = <<>>
<1> DEFINE o == Other(c)
<1>1. TypeOK /\ ChunkSound(c) /\ Polled(c, "GETTING_FILE")
      /\ UNCHANGED <<life, file, resume, cut, said, heard>>
  BY DEF TypeInv, WatchGettingFile
<1>2. /\ h[c].state = "GETTING_FILE" /\ Open(c)
      /\ verdict[c] = "running" /\ life[c] = "up"
  BY <1>1, PolledOpen
<1>3. PICK n \in 1..Least({Wanted(c), Len(wire[c])}) :
        /\ got' = got \o Numbered(SubSeq(wire[c], 1, n))
        /\ wire' = Taken(c, n)
        /\ Advance(c, n, "READING_FILE_HEADER")
  BY DEF WatchGettingFile
<1>4. h[c] \in Structs /\ h[c].offset \in Nat /\ h[c].size \in Nat
      /\ h[c].chunkSize \in Nat /\ h[c].chunkOffset \in Nat
      /\ o \in Clients /\ o # c
  <2>1. h[c] \in Structs
    BY <1>1, Typed
  <2> QED
    BY <2>1, OtherClient DEF Structs
<1>5. Wanted(c) \in Int /\ Wanted(c) <= Left(c) /\ Left(c) \in Int
  <2>1. Left(c) \in Int /\ BufSize \in Int
    BY <1>4, SizesAssumption DEF Left
  <2>2. Wanted(c) = Least({Left(c), BufSize})
    BY DEF Wanted, Left
  <2>3. Wanted(c) \in {Left(c), BufSize} /\ Wanted(c) <= Left(c)
    BY <2>1, <2>2, LeastOf
  <2> QED
    BY <2>1, <2>3
<1>6. n \in 1..Len(wire[c]) /\ n <= Wanted(c) /\ Len(wire[c]) \in Nat
  BY <1>1, <1>3, <1>5, CanTake
<1>7. n \in Nat /\ n >= 1 /\ n <= Left(c) /\ Left(c) \in Nat
  BY <1>5, <1>6
<1>8. wire'[c] = SubSeq(wire[c], n + 1, Len(wire[c])) /\ wire'[o] = wire[o]
  <2>1. n \in 0..Len(wire[c])
    BY <1>6
  <2> QED
    BY <1>1, <1>3, <2>1, Typed, TakenType
<1>9. \/ /\ Behind(c, n) >= h[c].size /\ Ends(c, "DONE")
         /\ Becoming(c, [h[c] EXCEPT !.offset = Behind(c, n)])
      \/ /\ Behind(c, n) < h[c].size /\ UNCHANGED verdict /\ ~ChunkDone(c, n)
         /\ Becoming(c, [h[c] EXCEPT !.offset = Behind(c, n),
                                     !.chunkOffset = h[c].chunkOffset + n])
      \/ /\ Behind(c, n) < h[c].size /\ UNCHANGED verdict /\ ChunkDone(c, n)
         /\ Becoming(c, [h[c] EXCEPT !.offset = Behind(c, n),
                           !.state = "READING_FILE_HEADER", !.chunkOffset = 0,
                           !.chunkSize = 2, !.buf = <<>>])
  BY <1>1, <1>3, <1>7, Typed, AdvanceBecomes
<1>10. Behind(c, n) \in Nat
  BY <1>1, <1>7, Typed, BehindType
<1>11. CASE /\ Behind(c, n) >= h[c].size /\ Ends(c, "DONE")
            /\ Becoming(c, [h[c] EXCEPT !.offset = Behind(c, n)])
  <2>1. verdict'[c] = "DONE" /\ verdict'[o] = verdict[o]
    BY <1>1, <1>11, Typed, EndsVerdict DEF Verdicts
  <2>2. h'[c] = [h[c] EXCEPT !.offset = Behind(c, n)] /\ h'[o] = h[o]
    BY <1>11 DEF Becoming
  <2>3. /\ h'[c].type = h[c].type /\ h'[c].fileFd = h[c].fileFd
        /\ h'[c].size = h[c].size /\ h'[c].offset = Behind(c, n)
        /\ h'[c].state = h[c].state
    BY <1>4, <2>2 DEF Structs
  <2> QED
    BY <1>1, <1>2, <1>3, <1>6, <1>7, <1>8, <1>11, <2>1, <2>2, <2>3
<1>12. CASE /\ Behind(c, n) < h[c].size /\ UNCHANGED verdict /\ ~ChunkDone(c, n)
            /\ Becoming(c, [h[c] EXCEPT !.offset = Behind(c, n),
                                        !.chunkOffset = h[c].chunkOffset + n])
  <2>1. h'[c] = [h[c] EXCEPT !.offset = Behind(c, n),
                             !.chunkOffset = h[c].chunkOffset + n]
        /\ h'[o] = h[o]
    BY <1>12 DEF Becoming
  <2>2. /\ h'[c].type = h[c].type /\ h'[c].fileFd = h[c].fileFd
        /\ h'[c].size = h[c].size /\ h'[c].offset = Behind(c, n)
        /\ h'[c].state = h[c].state /\ h'[c].chunkSize = h[c].chunkSize
        /\ h'[c].chunkOffset = h[c].chunkOffset + n
    BY <1>4, <2>1 DEF Structs
  <2>3. Left(c)' = Left(c) - n
    BY <1>4, <1>7, <2>2 DEF Left
  <2> QED
    BY <1>1, <1>2, <1>3, <1>6, <1>7, <1>8, <1>12, <2>1, <2>2, <2>3
<1>13. CASE /\ Behind(c, n) < h[c].size /\ UNCHANGED verdict /\ ChunkDone(c, n)
            /\ Becoming(c, [h[c] EXCEPT !.offset = Behind(c, n),
                              !.state = "READING_FILE_HEADER",
                              !.chunkOffset = 0, !.chunkSize = 2, !.buf = <<>>])
  <2>1. h'[c] = [h[c] EXCEPT !.offset = Behind(c, n),
                   !.state = "READING_FILE_HEADER",
                   !.chunkOffset = 0, !.chunkSize = 2, !.buf = <<>>]
        /\ h'[o] = h[o]
    BY <1>13 DEF Becoming
  <2>2. /\ h'[c].type = h[c].type /\ h'[c].fileFd = h[c].fileFd
        /\ h'[c].size = h[c].size /\ h'[c].offset = Behind(c, n)
        /\ h'[c].state = "READING_FILE_HEADER" /\ h'[c].buf = <<>>
    BY <1>4, <2>1 DEF Structs
  <2>3. Left(c) = n
    BY <1>4, <1>7, <1>13 DEF Left, ChunkDone
  <2> QED
    BY <1>1, <1>2, <1>3, <1>6, <1>7, <1>8, <1>13, <2>1, <2>2, <2>3
<1> QED
  BY <1>9, <1>11, <1>12, <1>13

\* The receiver goes on where it is, and is done when the sender is.
LEMMA GettingFileStreams ==
  ASSUME Streams, FileInv, TypeInv', NEW c \in Clients, WatchGettingFile(c)
  PROVE  /\ Streams' /\ h[Other(c)].state \in Sending /\ h'[c].state \in Getting
         /\ HeaderSound(c)'
         /\ ~cut => /\ h'[c].offset = Pos' /\ GotIntact'
                    /\ Pos' <= h[Other(c)].offset
                    /\ verdict'[c] = "DONE" =>
                         Pos' = file.stat /\ verdict[Other(c)] = "DONE"
<1> DEFINE o == Other(c)
<1>1. /\ h[c].state = "GETTING_FILE" /\ Open(c)
      /\ verdict[c] = "running" /\ life[c] = "up"
      /\ wire'[o] = wire[o]
      /\ UNCHANGED <<life, file, resume, cut, said, heard>>
      /\ h'[o] = h[o] /\ verdict'[o] = verdict[o] /\ h'[c].type = h[c].type
      /\ h'[c].size = h[c].size
  BY Sides, GettingFileMoves
<1>2. PICK n \in 1..Len(wire[c]) :
        /\ n <= Left(c) /\ Left(c) \in Nat
        /\ wire'[c] = SubSeq(wire[c], n + 1, Len(wire[c]))
        /\ got' = got \o Numbered(SubSeq(wire[c], 1, n))
        /\ h'[c].offset = Behind(c, n)
        /\ \/ /\ Behind(c, n) >= h[c].size /\ verdict'[c] = "DONE"
              /\ h'[c].state = "GETTING_FILE"
           \/ /\ Behind(c, n) < h[c].size /\ UNCHANGED verdict
              /\ \/ h'[c].state = "GETTING_FILE" /\ Left(c)' = Left(c) - n
                 \/ /\ h'[c].state = "READING_FILE_HEADER"
                    /\ Left(c) = n /\ h'[c].buf = <<>>
  BY Sides, GettingFileMoves
<1>3. TypeOK' /\ h'[c].state \in Getting /\ h[c].type = "GET"
      /\ h[o].state \in Sending
  BY <1>1, <1>2, Sides DEF TypeInv, TypeFits, Getting, Meets
<1>4. HeaderSound(c)'
  <2>1. SUFFICES ASSUME h'[c].state = "READING_FILE_HEADER", Open(c)'
                 PROVE  h'[c].buf = <<>>
    BY DEF HeaderSound
  <2> QED
    BY <1>2, <2>1 DEF Open
<1>5. StreamLeads(c)'
      /\ (~cut => /\ h'[c].offset = Pos' /\ GotIntact'
                  /\ Pos' <= h[o].offset
                  /\ verdict'[c] = "DONE" =>
                       Pos' = file.stat /\ verdict[o] = "DONE")
  <2>1. CASE cut
    BY <1>1, <2>1 DEF StreamLeads
  <2>2. CASE ~cut
    <3>1. PICK x \in Nodes, y \in Nodes :
            Stands(c, x) /\ Stops(o, y) /\ Path(x, wire[c], y, said[o])
      BY <1>1, <2>2, Sides DEF StreamLeads
    <3>2. x = Node("chunk", Left(c), Pos)
      BY <1>1, <3>1 DEF Stands
    <3>3. x.at = "chunk" /\ x.left = Left(c) /\ x.pos = Pos
      BY <3>2 DEF Node
    <3>4. /\ Pos \in Nat /\ Len(got) \in Nat /\ resume \in Nat
          /\ got \in Seq(Nat) /\ wire[c] \in Seq(Items) /\ Len(wire[c]) \in Nat
          /\ n \in Nat /\ n >= 1 /\ n \in 0..Len(wire[c])
      <4>1. wire[c] \in Seq(Items) /\ Len(wire[c]) \in Nat
        BY Sides, Typed, LenProperties
      <4>2. /\ Pos \in Nat /\ Len(got) \in Nat /\ resume \in Nat
            /\ got \in Seq(Nat)
        BY Sides, PosNat
      <4>3. n \in Nat /\ n >= 1 /\ n \in 0..Len(wire[c])
        BY <4>1
      <4> QED
        BY <4>1, <4>2, <4>3
    <3>5. PICK z \in Nodes :
            /\ Path(x, SubSeq(wire[c], 1, n), z, said[o])
            /\ Path(z, SubSeq(wire[c], n + 1, Len(wire[c])), y, said[o])
      BY <3>1, <3>4, PathCut
    <3> DEFINE p == SubSeq(wire[c], 1, n)
    <3>6. p \in Seq(Items) /\ Len(p) = n
      BY <3>4, Sides, Typed, TakenType
    <3>7. got' = got \o Numbered(p) /\ Path(x, p, z, said[o])
      BY <1>2, <3>5
    <3> HIDE DEF p
    <3>8. z = Ahead(x, n) /\ \A i \in 1..n : p[i] = Unit(x, i)
      <4>1. n <= Left(c)
        BY <1>2
      <4>2. x.at \in {"chunk", "voice"} /\ Len(p) <= x.left
        BY <3>3, <3>6, <4>1
      <4>3. Path(x, p, z, said[o]) /\ p \in Seq(Items) /\ x \in Nodes
        BY <3>6, <3>7
      <4>4. z = Ahead(x, Len(p)) /\ \A i \in 1..Len(p) : p[i] = Unit(x, i)
        BY <4>2, <4>3, PathUnits
      <4> QED
        BY <3>6, <4>4
    <3>9. z = Node("chunk", Left(c) - n, Pos + n) /\ z.at = "chunk"
          /\ z.pos = Pos + n
      BY <3>3, <3>8 DEF Ahead, Node
    <3>10. \A i \in 1..n : p[i] = Item("data", Pos + i)
      BY <3>3, <3>8 DEF Unit
    <3>11. \A i \in 1..n : Numbered(p)[i] = Pos + i
      <4>1. \A i \in 1..n : Numbered(p)[i] = p[i].val
        BY <3>6, NumberedItems
      <4>2. TAKE i \in 1..n
      <4>3. Numbered(p)[i] = p[i].val /\ p[i] = Item("data", Pos + i)
        BY <3>10, <4>1
      <4>4. p[i].val = Pos + i
        BY <4>3 DEF Item
      <4> QED
        BY <4>3, <4>4
    <3> DEFINE q == Numbered(p)
    <3>12. q \in Seq(Nat) /\ Len(q) = n /\ got' = got \o q
      BY <3>6, <3>7, NumberedItems
    <3>13. \A i \in 1..n : q[i] = Pos + i
      BY <3>11
    <3> HIDE DEF q
    <3>14. /\ Len(got') = Len(got) + n /\ got' \in Seq(Nat)
           /\ \A i \in 1..Len(got) : got'[i] = got[i]
           /\ \A i \in Len(got) + 1 .. Len(got) + n : got'[i] = q[i - Len(got)]
      <4>1. got' \in Seq(Nat)
        BY <1>3 DEF TypeOK
      <4>2. Len(got') = Len(got) + Len(q)
            /\ \A i \in 1 .. Len(got) + Len(q) :
                 got'[i] = IF i <= Len(got) THEN got[i] ELSE q[i - Len(got)]
        BY <3>4, <3>12, ConcatProperties
      <4> QED
        BY <3>4, <3>12, <4>1, <4>2
    <3>15. Pos' = Pos + n
      BY <1>1, <3>4, <3>14 DEF Pos
    <3>16. GotIntact'
      <4>1. \A i \in DOMAIN got' : got'[i] = resume' + i
        <5>1. TAKE i \in DOMAIN got'
        <5>2. i \in 1 .. Len(got) + n
          BY <3>14, LenProperties
        <5>3. CASE i <= Len(got)
          <6>1. i \in 1..Len(got) /\ i \in DOMAIN got
            BY <3>4, <5>2, <5>3, LenProperties
          <6>2. got[i] = resume + i
            BY <2>2, <6>1 DEF FileInv, GotIntact
          <6> QED
            BY <1>1, <3>14, <6>1, <6>2
        <5>4. CASE i > Len(got)
          <6>1. i \in Len(got) + 1 .. Len(got) + n /\ i - Len(got) \in 1..n
            BY <3>4, <5>2, <5>4
          <6>2. got'[i] = Pos + (i - Len(got))
            BY <3>13, <3>14, <6>1
          <6> QED
            BY <1>1, <3>4, <6>1, <6>2 DEF Pos
        <5> QED
          BY <3>4, <5>2, <5>3, <5>4
      <4> QED
        BY <4>1 DEF GotIntact
    <3>17. Pos + n <= h[o].offset /\ h[o].offset \in Nat
      <4>1. wire'[c] \in Seq(Items)
        BY <1>3 DEF TypeOK
      <4>2. z.pos <= y.pos /\ y.at \in FileNodes
        <5>1. Path(z, wire'[c], y, said[o]) /\ z.at \in FileNodes
          BY <1>2, <3>5, <3>9 DEF FileNodes
        <5>2. y.at \in FileNodes
          BY <1>3, <3>1, Sides, Typed, StopsAt
        <5> QED
          BY <4>1, <5>1, <5>2, PathData
      <4>3. y.pos = h[o].offset
        BY <1>3, <3>1 DEF Stops, Wrote, Broken, Node, Sending, Answering, Getting,
          Talking
      <4>4. h[o].offset \in Nat
        BY Sides DEF Structs
      <4> QED
        BY <3>9, <4>2, <4>3, <4>4
    <3>18. /\ h[o].offset <= file.stat
           /\ h[o].offset = file.stat => verdict[o] = "DONE"
      <4>1. h[o].offset # resume
        BY <3>4, <3>17 DEF Pos
      <4> QED
        BY <1>3, <2>2, <4>1, Sides DEF FileInv, FileKnown
    <3>19. file.stat \in Nat /\ file.stat < Word /\ Word \in Nat \ {0}
           /\ h[c].offset = Pos /\ h[c].size = file.stat
      <4>1. file.stat \in Nat
        BY Sides, Typed
      <4>2. h[c].offset = Pos /\ h[c].size = file.stat
        BY <1>1, <2>2 DEF FileInv, FileKnown, Getting
      <4> QED
        BY <4>1, <4>2, SizesAssumption DEF FileInv, NumbersFit
    <3>20. Behind(c, n) = Pos + n
      <4>1. Pos + n \in Nat /\ Pos + n < Word
        BY <3>4, <3>17, <3>18, <3>19
      <4> QED
        BY <3>19, <4>1, Unwrapped DEF Behind
    <3>21. verdict'[c] = "DONE" => Pos' = file.stat /\ verdict[o] = "DONE"
      <4>1. verdict'[c] = "DONE" => Behind(c, n) >= h[c].size
        BY <1>1, <1>2
      <4> QED
        BY <3>4, <3>15, <3>17, <3>18, <3>19, <3>20, <4>1
    <3>22. StreamLeads(c)'
      <4>1. SUFFICES ASSUME Open(c)'
                     PROVE  StreamLeads(c)'
        BY DEF StreamLeads
      <4>2. Stops(o, y)'
        BY <1>1, <1>3, <3>1, Sides, OtherStops
      <4>3. Stands(c, z)'
        <5>1. \/ h'[c].state = "GETTING_FILE" /\ Left(c)' = Left(c) - n
              \/ /\ h'[c].state = "READING_FILE_HEADER"
                 /\ Left(c) - n = 0 /\ h'[c].buf = <<>>
          BY <1>2, <4>1 DEF Open
        <5> QED
          BY <3>9, <3>15, <5>1 DEF Stands, Offering, Sending
      <4> QED
        BY <1>1, <1>2, <3>5, <4>2, <4>3, StreamsRead
    <3> QED
      BY <1>2, <3>15, <3>16, <3>17, <3>20, <3>21, <3>22
  <2> QED
    BY <2>1, <2>2
<1>6. Roles'
  <2>1. TypeFits(c)'
    BY <1>1, <1>3 DEF TypeFits, Early, Dialling, Sending, Getting, Answering,
      Talking
  <2>2. Meets(h'[c].state, h[o].state) /\ Meets(h[o].state, h'[c].state)
    BY <1>3 DEF Meets, Early, Sending, Getting, Talking, Offering,
      Answering
  <2>3. h'[c].state # "READING_FILE_INFO" /\ h'[c].state # "SENDING_FILE_INFO"
    BY <1>3 DEF Getting
  <2>4. c = "caller" \/ ~cut \/ h'[c].state \in Sending \cup Talking
    BY <1>1, Sides DEF Roles, CutLate, Sending, Talking, Clients
  <2> QED
    BY <1>1, <1>3, <2>1, <2>2, <2>3, <2>4, Sides, RolesMove
<1>7. StreamLeads(o)'
  <2>1. \A y \in Nodes : Stops(c, y) => Stops(c, y)'
    <3>1. TAKE y \in Nodes
    <3>2. HAVE Stops(c, y)
    <3>3. y = Node("answered", 0, resume)
      BY <1>1, <3>2, RunningStops DEF Wrote, Getting
    <3> QED
      BY <1>1, <1>3, <3>3 DEF Stops, Wrote, Getting, Answering, Talking
  <2>2. \A x \in Nodes : Stands(o, x) => Stands(o, x)'
    BY <1>1, <1>3 DEF Stands, Sending, Offering
  <2>3. Open(o)' => Open(o)
    BY <1>1 DEF Open
  <2> HIDE DEF o
  <2> QED
    BY <1>1, <2>1, <2>2, <2>3, Sides, StreamsKept DEF o
<1>8. h'[c].state \notin {"READING_VOICE_HEADER", "READING_VOICE_ACK"}
  BY <1>3 DEF Getting
<1>9. Streams'
  BY <1>5, <1>6, <1>7, <1>8, StreamsStep
<1> QED
  BY <1>3, <1>4, <1>5, <1>9

(***************************************************************************)
(* The conversation.                                                       *)
(***************************************************************************)
LEMMA StreamsBoth ==
  ASSUME TypeInv', Roles', NEW c \in Clients, StreamLeads(c)',
         StreamLeads(Other(c))', Hushed(c)', Hushed(Other(c))'
  PROVE  Streams'
<1>1. \A d \in Clients : d = c \/ d = Other(c)
  BY OtherClient
<1> QED
  BY <1>1 DEF Streams

LEMMA SendingVoiceRequestStreams ==
  ASSUME Streams, TypeInv', NEW c \in Clients, WatchSendingVoiceRequest(c)
  PROVE  /\ Streams' /\ ~cut /\ UNCHANGED <<life, verdict, data>>
         /\ h[c].state = "SENDING_VOICE_REQUEST"
         /\ h'[c].state = "READING_VOICE_ACK"
<1> DEFINE o == Other(c)
<1>1. TypeOK'
  BY DEF TypeInv
<1>2. /\ wire' = Sent(c, Packet(c)) /\ UNCHANGED <<life, verdict, data>>
      /\ h[c].state = "SENDING_VOICE_REQUEST" /\ Open(c)
      /\ verdict[c] = "running"
      /\ life[c] = "up" /\ Packet(c) \in Seq(Items)
  BY Sides, WritesAlone DEF WatchSendingVoiceRequest, Writing
<1>3. /\ h'[c].state = "READING_VOICE_ACK" /\ h'[c].type = h[c].type
      /\ h'[o] = h[o]
  BY Sides, Moved DEF WatchSendingVoiceRequest, States, Checks
<1>4. h[c].type = "VOICE" /\ h[o].state \in {"READING_TYPE", "READING_REQUEST"}
  BY Sides, <1>2 DEF TypeFits, Meets
<1>5. ~cut
  BY Sides, <1>2, NotCut DEF Offering
<1>6. Roles'
  <2>1. TypeFits(c)'
    BY <1>3, <1>4 DEF TypeFits, Early, Dialling, Sending, Getting, Answering,
      Talking
  <2>2. Meets(h'[c].state, h[o].state) /\ Meets(h[o].state, h'[c].state)
    BY <1>3, <1>4 DEF Meets, Early, Sending, Getting, Talking, Offering,
      Answering
  <2>3. h'[c].state # "READING_FILE_INFO" /\ h'[c].state # "SENDING_FILE_INFO"
    BY <1>3
  <2> QED
    BY Sides, <1>1, <1>2, <1>3, <1>5, <2>1, <2>2, <2>3, RolesMove DEF data
<1>7. PICK y \in Nodes : y = At("offers")
  BY NodeType DEF Names
<1>8. PICK z \in Nodes : z = At("asked")
  <2>1. "asked" \in Names
    BY DEF Names
  <2>2. At("asked") \in Nodes
    BY <2>1, NodeType
  <2> QED
    BY <2>2
<1>9. Path(y, Packet(c), z, said[c])
  <2>1. Packet(c) = <<Item("small", 3)>>
    BY <1>2 DEF Packet
  <2>2. Item("small", 3) \in Items
    BY ItemType
  <2>3. y.at = "offers"
    BY <1>7 DEF At, Node
  <2>4. Leads(y, Item("small", 3), z, said[c])
    BY <1>8, <2>3 DEF Leads, OfferLeads
  <2> QED
    BY <2>1, <2>2, <2>4, PathOne
<1>10. \A w \in Nodes : Stops(c, w) => w = y
  BY <1>2, <1>7, RunningStops DEF Wrote
<1>11. Stops(c, z)'
  BY <1>3, <1>8 DEF Stops, Wrote, Answering, Getting, Talking
<1>12. \A x \in Nodes : Stands(c, x) => Stands(c, x)'
  BY <1>2, <1>3 DEF Stands, Offering, Sending
<1>13. h'[c].state = "READING_VOICE_ACK"
       /\ h[o].state # "READING_VOICE_HEADER"
  BY <1>3, <1>4
<1> HIDE DEF o
<1>14. Streams'
  BY <1>2, <1>3, <1>6, <1>9, <1>10, <1>11, <1>12, <1>13, WriteStep DEF o
<1> QED
  BY <1>2, <1>3, <1>5, <1>14

LEMMA SendingVoiceAckStreams ==
  ASSUME Streams, BufInv, TypeInv', NEW c \in Clients, WatchSendingVoiceAck(c)
  PROVE  /\ Streams' /\ ~cut /\ UNCHANGED <<life, verdict, data>>
         /\ h[c].state = "SENDING_VOICE_ACK"
         /\ h'[c].state = "READING_VOICE_HEADER" /\ h'[c].type = h[c].type
         /\ h'[c].fileFd = h[c].fileFd /\ h'[c].size = h[c].size
         /\ h'[Other(c)] = h[Other(c)] /\ h[c].type = "VOICE"
<1> DEFINE o == Other(c)
<1>1. TypeOK'
  BY DEF TypeInv
<1>2. /\ wire' = Sent(c, Packet(c)) /\ UNCHANGED <<life, verdict, data>>
      /\ h[c].state = "SENDING_VOICE_ACK" /\ Open(c) /\ verdict[c] = "running"
      /\ life[c] = "up" /\ Packet(c) \in Seq(Items)
  BY Sides, WritesAlone DEF WatchSendingVoiceAck, Writing
<1>3. /\ h'[c].state = "READING_VOICE_HEADER" /\ h'[c].type = h[c].type
      /\ h'[o] = h[o] /\ h'[c].fileFd = h[c].fileFd /\ h'[c].size = h[c].size
  <2>1. Becoming(c, [h[c] EXCEPT !.state = "READING_VOICE_HEADER",
                                 !.check = "READ", !.offset = 0])
    BY Sides, Typed, SendingVoiceAckBecomes
  <2>2. h'[c] = [h[c] EXCEPT !.state = "READING_VOICE_HEADER",
                             !.check = "READ", !.offset = 0]
        /\ h'[o] = h[o] /\ h[c] \in Structs
    BY <2>1, Sides DEF Becoming
  <2> QED
    BY <2>2 DEF Structs
<1>4. h[c].type = "VOICE" /\ h[o].state = "READING_VOICE_ACK"
  BY Sides, <1>2 DEF TypeFits, Meets
<1>5. ~cut /\ ~cut'
  BY Sides, <1>2, NotCut DEF data
<1>6. Roles'
  <2>1. TypeFits(c)'
    BY <1>3, <1>4 DEF TypeFits, Early, Dialling, Sending, Getting, Answering,
      Talking
  <2>2. Meets(h'[c].state, h[o].state) /\ Meets(h[o].state, h'[c].state)
    BY <1>3, <1>4 DEF Meets, Early, Sending, Getting, Talking, Offering,
      Answering
  <2>3. h'[c].state # "READING_FILE_INFO" /\ h'[c].state # "SENDING_FILE_INFO"
    BY <1>3
  <2> QED
    BY Sides, <1>1, <1>2, <1>3, <1>5, <2>1, <2>2, <2>3, RolesMove DEF data
<1>7. PICK y \in Nodes : y = At("answers")
  BY NodeType DEF Names
<1>8. PICK z \in Nodes : z = Node("voice", 0, 0)
  BY NodeType DEF Names
<1>9. Path(y, Packet(c), z, said[c])
  <2>1. Packet(c) = <<Item("tiny", 1)>>
    BY <1>2 DEF Packet
  <2>2. Item("tiny", 1) \in Items
    BY ItemType
  <2>3. y.at = "answers" /\ z = At("voice")
    BY <1>7, <1>8 DEF At, Node
  <2>4. Leads(y, Item("tiny", 1), z, said[c])
    BY <2>3 DEF Leads, OfferLeads
  <2> QED
    BY <2>1, <2>2, <2>4, PathOne
<1>10. \A w \in Nodes : Stops(c, w) => w = y
  BY <1>2, <1>7, RunningStops DEF Wrote, Answering
<1>11. Stops(c, z)'
  <2>1. said[c] = <<>>
    BY <1>2 DEF BufInv, VoiceSound, Talking
  <2>2. Len(said'[c]) = 0
    BY <1>2, <2>1 DEF data
  <2> QED
    BY <1>3, <1>8, <2>2 DEF Stops, Wrote, Answering, Getting, Talking
<1>12. \A x \in Nodes : Stands(c, x) => Stands(c, x)'
  BY <1>2, <1>3 DEF Stands, Offering, Sending
<1>13. UNCHANGED <<cut, resume, got, said, heard, life, verdict>>
  BY <1>2 DEF data
<1>14. wire'[c] = wire[c]
  BY <1>2, Sides, Typed, SentType
<1>15. StreamLeads(c)'
  <2>1. \A w \in Nodes : Stops(o, w) => Stops(o, w)'
    BY <1>3, <1>13, Sides, OtherStops
  <2>2. Open(c)' => Open(c)
    BY <1>2
  <2> QED
    BY <1>12, <1>13, <1>14, <2>1, <2>2, Sides, StreamsKept
<1>16. StreamLeads(o)'
  <2>1. \A x \in Nodes : Stands(o, x) => Stands(o, x)'
    BY <1>3, <1>13, Sides, OtherStands
  <2>2. Open(o)' => Open(o)
    BY <1>13 DEF Open
  <2>3. \A w \in Nodes : Stops(c, w) =>
          \E v \in Nodes : Path(w, Packet(c), v, said[c]) /\ Stops(c, v)'
    BY <1>9, <1>10, <1>11
  <2> HIDE DEF o
  <2> QED
    BY <1>2, <1>13, <2>1, <2>2, <2>3, Sides, StreamsWritten DEF o
<1>17. Hushed(c)'
  <2>1. PICK x \in Nodes, w \in Nodes :
          Stands(c, x) /\ Stops(o, w) /\ Path(x, wire[c], w, said[o])
    BY <1>2, <1>5, Sides DEF StreamLeads
  <2>2. x.at = "asked"
    BY <1>2, <2>1 DEF Stands, At, Node
  <2>3. w.at = "asked"
    BY <1>4, <2>1, Sides, Typed, StopsAt
  <2>4. wire[c] \in Seq(Items)
    BY Sides, Typed
  <2>5. wire[c] = <<>>
    BY <2>1, <2>2, <2>3, <2>4, PathStill
  <2> QED
    BY <1>14, <2>5 DEF Hushed
<1>18. Hushed(o)'
  BY <1>3, <1>4 DEF Hushed
<1>19. Streams'
  BY <1>6, <1>15, <1>16, <1>17, <1>18, StreamsBoth
<1> QED
  BY <1>2, <1>3, <1>4, <1>5, <1>19

LEMMA ReadingVoiceAckStreams ==
  ASSUME Streams, BufInv, TypeInv', NEW c \in Clients, WatchReadingVoiceAck(c)
  PROVE  /\ Streams' /\ UNCHANGED <<life, data>>
         /\ h[c].state = "READING_VOICE_ACK" /\ verdict[c] = "running"
         /\ h'[Other(c)] = h[Other(c)] /\ verdict'[Other(c)] = verdict[Other(c)]
         /\ h'[c].type = h[c].type /\ h'[c].fileFd = h[c].fileFd
         /\ h'[c].size = h[c].size /\ h[c].type = "VOICE"
         /\ \/ UNCHANGED h /\ verdict'[c] = "REFUSED"
            \/ h'[c].state = "READING_VOICE_HEADER" /\ UNCHANGED verdict
<1> DEFINE o == Other(c)
<1>1. /\ TypeOK' /\ Reads(c, "READING_VOICE_ACK")
      /\ "READING_VOICE_ACK" \in DOMAIN Expected \ {"READING_FILE_ACK"}
      /\ "READING_VOICE_ACK" \in DOMAIN Expected
  BY DEF TypeInv, WatchReadingVoiceAck, Expected
<1>2. /\ wire'[o] = wire[o] /\ UNCHANGED <<life, data>>
      /\ h[c].state = "READING_VOICE_ACK" /\ Open(c) /\ verdict[c] = "running"
      /\ life[c] = "up" /\ wire[c] # <<>>
  BY <1>1, Sides, ReadsAlone
<1>3. /\ h[c].type = "VOICE"
      /\ h[o].state \in {"READING_TYPE", "READING_REQUEST",
                         "SENDING_VOICE_ACK", "READING_VOICE_HEADER"}
  BY <1>2, Sides DEF TypeFits, Meets
<1>4. CASE Ends(c, "REFUSED") /\ UNCHANGED h
  <2>1. "REFUSED" \in Verdicts \ {"running"} /\ "REFUSED" \in Verdicts
    BY DEF Verdicts, Errors
  <2>2. verdict'[c] = "REFUSED" /\ verdict'[o] = verdict[o]
    BY <1>4, <2>1, Sides, Typed, EndsVerdict
  <2>3. Streams'
    BY <1>1, <1>4, <2>1, ReadsEnd
  <2> QED
    BY <1>2, <1>3, <1>4, <2>2, <2>3
<1>5. CASE /\ \E type \in Numbers(wire[c][1], "tiny") : type = 1
           /\ Moves(c, "READING_VOICE_HEADER", "READ") /\ UNCHANGED verdict
  <2>1. /\ h'[c].state = "READING_VOICE_HEADER" /\ h'[c].type = h[c].type
        /\ h'[c].fileFd = h[c].fileFd /\ h'[c].size = h[c].size
        /\ h'[o] = h[o]
    BY <1>5, Sides, Moved DEF States, Checks
  <2>2. UNCHANGED <<cut, resume, got, said, heard, life, verdict>>
    BY <1>2, <1>5 DEF data
  <2>3. wire[c] \in Seq(Items) /\ wire[o] \in Seq(Items)
    BY Sides, Typed
  <2>4. ~cut => /\ h[o].state = "READING_VOICE_HEADER"
                /\ \E y \in Nodes :
                     /\ Stops(o, y)
                     /\ Path(Node("voice", 0, 0), wire'[c], y, said[o])
    <3>1. SUFFICES ASSUME ~cut
                   PROVE  /\ h[o].state = "READING_VOICE_HEADER"
                          /\ \E y \in Nodes :
                               /\ Stops(o, y)
                               /\ Path(Node("voice", 0, 0), wire'[c], y, said[o])
      OBVIOUS
    <3>2. PICK x \in Nodes, y \in Nodes, z \in Nodes :
            /\ Stands(c, x) /\ Stops(o, y)
            /\ Leads(x, wire[c][1], z, said[o])
            /\ Path(z, wire'[c], y, said[o])
            /\ Later(z.at, y.at)
      BY <1>1, <3>1, Sides, ReadOne
    <3>3. x.at = "answers"
      BY <1>2, <3>2 DEF Stands, Offering, At, Node
    <3>4. z \in {At("ackSize"), At("voice")}
      BY <3>2, <3>3, LeadsFrom
    <3>5. z.at \in {"ackSize", "voice"}
      BY <3>4 DEF At, Node
    <3>6. /\ h[o].state = "READING_TYPE" => y.at = "answers"
          /\ h[o].state \in {"READING_REQUEST", "SENDING_VOICE_ACK"} =>
               y.at = "answers"
          /\ h[o].state = "READING_VOICE_HEADER" => y.at = "voice"
      BY <1>3, <3>2, Sides, Typed, StopsAt DEF Talking
    <3>7. h[o].state = "READING_VOICE_HEADER" /\ y.at = "voice"
      BY <1>3, <3>2, <3>5, <3>6 DEF Later
    <3>8. z.at = "voice"
      BY <3>2, <3>5, <3>7 DEF Later
    <3>9. z = Node("voice", 0, 0)
      BY <3>4, <3>8 DEF At, Node
    <3> QED
      BY <3>2, <3>7, <3>9
  <2>5. h[o].state = "READING_VOICE_HEADER"
    BY <1>2, <2>4, Sides, NotCut DEF Offering
  <2>6. Roles'
    <3>1. TypeFits(c)'
      BY <1>3, <2>1 DEF TypeFits, Early, Dialling, Sending, Getting, Answering,
        Talking
    <3>2. Meets(h'[c].state, h[o].state) /\ Meets(h[o].state, h'[c].state)
      BY <2>1, <2>5 DEF Meets, Early, Sending, Getting, Talking, Offering,
        Answering
    <3>3. h'[c].state # "READING_FILE_INFO" /\ h'[c].state # "SENDING_FILE_INFO"
          /\ h'[c].state \in Talking
      BY <2>1 DEF Talking
    <3> QED
      BY Sides, <1>1, <1>2, <2>1, <2>2, <3>1, <3>2, <3>3, RolesMove
  <2>7. PICK u \in Nodes : u = Node("voice", 0, 0)
    BY NodeType DEF Names
  <2>8. said[c] = <<>> /\ heard[c] = <<>> /\ Len(said[c]) = 0
        /\ Len(heard[c]) = 0
    <3>1. said[c] = <<>> /\ heard[c] = <<>>
      BY <1>2 DEF BufInv, VoiceSound, Talking
    <3> QED
      BY <3>1
  <2>9. StreamLeads(c)'
    <3>1. SUFFICES ASSUME ~cut
                   PROVE  StreamLeads(c)'
      BY <2>2 DEF StreamLeads
    <3>2. PICK y \in Nodes : Stops(o, y) /\ Path(u, wire'[c], y, said[o])
      BY <2>4, <2>7, <3>1
    <3>3. Stands(c, u)'
      BY <2>1, <2>2, <2>7, <2>8 DEF Stands, Offering, Sending
    <3>4. Stops(o, y)'
      BY <2>1, <2>2, <3>2, Sides, OtherStops
    <3> QED
      BY <2>2, <3>2, <3>3, <3>4, StreamsRead
  <2>10. StreamLeads(o)'
    <3>1. SUFFICES ASSUME Open(o)', ~cut
                   PROVE  \E a, b \in Nodes : /\ Stands(o, a)' /\ Stops(c, b)'
                                              /\ Path(a, wire'[o], b, said'[c])
      BY <2>2, Sides DEF StreamLeads
    <3>2. Open(o)
      BY <2>2, <3>1 DEF Open
    <3>3. wire[o] = <<>>
      BY <1>2, <2>5, <3>2, Sides DEF Hushed, Streams
    <3>4. Len(heard[o]) = 0
      <4>1. heard[o] \in Seq(Seq(Nat))
        BY Sides, Typed
      <4>2. \A k \in DOMAIN heard[o] : k <= Len(said[c])
        BY <3>1, Sides DEF BufInv, VoiceIntact
      <4>3. Len(heard[o]) \in Nat /\ DOMAIN heard[o] = 1..Len(heard[o])
        BY <4>1, LenProperties
      <4> QED
        BY <2>8, <4>2, <4>3
    <3>5. Stands(o, u)'
      BY <2>1, <2>2, <2>5, <2>7, <3>4 DEF Stands, Offering, Sending
    <3>6. Stops(c, u)'
      BY <2>1, <2>2, <2>7, <2>8 DEF Stops, Wrote, Answering, Getting, Talking
    <3>7. Path(u, wire'[o], u, said'[c])
      BY <1>2, <3>3, PathEmpty
    <3> QED
      BY <3>5, <3>6, <3>7
  <2>11. Hushed(c)' /\ Hushed(o)'
    BY <2>1, <2>5, Sides DEF Hushed
  <2>12. Streams'
    BY <2>6, <2>9, <2>10, <2>11, StreamsBoth
  <2> QED
    BY <1>2, <1>3, <2>1, <2>2, <2>12
<1> QED
  BY <1>4, <1>5 DEF WatchReadingVoiceAck

LEMMA ReadingVoiceHeaderStreams ==
  ASSUME Streams, TypeInv', NEW c \in Clients, WatchReadingVoiceHeader(c)
  PROVE  /\ Streams' /\ UNCHANGED <<life, data>>
         /\ h[c].state = "READING_VOICE_HEADER" /\ verdict[c] = "running"
         /\ h'[Other(c)] = h[Other(c)] /\ verdict'[Other(c)] = verdict[Other(c)]
         /\ h'[c].type = h[c].type /\ h'[c].fileFd = h[c].fileFd
         /\ h'[c].size = h[c].size /\ h[c].type = "VOICE"
         /\ \/ UNCHANGED h /\ verdict'[c] = "HANDSHAKE"
            \/ h'[c].state = "READING_VOICE_SIZE" /\ UNCHANGED verdict
<1> DEFINE o == Other(c)
<1>1. /\ TypeOK' /\ Reads(c, "READING_VOICE_HEADER")
      /\ "READING_VOICE_HEADER" \in DOMAIN Expected \ {"READING_FILE_ACK"}
      /\ "READING_VOICE_HEADER" \in DOMAIN Expected
  BY DEF TypeInv, WatchReadingVoiceHeader, Expected
<1>2. /\ wire'[o] = wire[o] /\ UNCHANGED <<life, data>>
      /\ h[c].state = "READING_VOICE_HEADER" /\ Open(c)
      /\ verdict[c] = "running" /\ life[c] = "up" /\ wire[c] # <<>>
  BY <1>1, Sides, ReadsAlone
<1>3. h[c].type = "VOICE" /\ h[o].state \in Talking
  <2>1. h[c].type = "VOICE"
        /\ h[o].state \in {"READING_VOICE_ACK"} \cup Talking
    BY <1>2, Sides DEF TypeFits, Meets, Talking
  <2>2. h[o].state # "READING_VOICE_ACK"
    BY <1>2, Sides DEF Hushed, Streams
  <2> QED
    BY <2>1, <2>2
<1>4. CASE Ends(c, "HANDSHAKE") /\ UNCHANGED h
  <2>1. "HANDSHAKE" \in Verdicts \ {"running"} /\ "HANDSHAKE" \in Verdicts
    BY DEF Verdicts, Errors
  <2>2. verdict'[c] = "HANDSHAKE" /\ verdict'[o] = verdict[o]
    BY <1>4, <2>1, Sides, Typed, EndsVerdict
  <2>3. Streams'
    BY <1>1, <1>4, <2>1, ReadsEnd
  <2> QED
    BY <1>2, <1>3, <1>4, <2>2, <2>3
<1>5. CASE Moves(c, "READING_VOICE_SIZE", "READ") /\ UNCHANGED verdict
  <2>1. /\ h'[c].state = "READING_VOICE_SIZE" /\ h'[c].type = h[c].type
        /\ h'[c].fileFd = h[c].fileFd /\ h'[c].size = h[c].size
        /\ h'[o] = h[o]
    BY <1>5, Sides, Moved DEF States, Checks
  <2>2. Roles'
    <3>1. TypeFits(c)'
      BY <1>3, <2>1 DEF TypeFits, Early, Dialling, Sending, Getting, Answering,
        Talking
    <3>2. Meets(h'[c].state, h[o].state) /\ Meets(h[o].state, h'[c].state)
      BY <1>3, <2>1 DEF Meets, Early, Sending, Getting, Talking, Offering,
        Answering
    <3>3. h'[c].state # "READING_FILE_INFO" /\ h'[c].state # "SENDING_FILE_INFO"
          /\ h'[c].state \in Talking
      BY <2>1 DEF Talking
    <3> QED
      BY Sides, <1>1, <1>2, <1>5, <2>1, <3>1, <3>2, <3>3, RolesMove DEF data
  <2>3. ~cut => \E z, y \in Nodes : /\ Stands(c, z)' /\ Stops(o, y)
                                    /\ Path(z, wire'[c], y, said[o])
    <3>1. SUFFICES ASSUME ~cut
                   PROVE  \E z, y \in Nodes :
                            /\ Stands(c, z)' /\ Stops(o, y)
                            /\ Path(z, wire'[c], y, said[o])
      OBVIOUS
    <3>2. PICK x \in Nodes, y \in Nodes, z \in Nodes :
            /\ Stands(c, x) /\ Stops(o, y)
            /\ Leads(x, wire[c][1], z, said[o])
            /\ Path(z, wire'[c], y, said[o])
            /\ Later(z.at, y.at)
      BY <1>1, <3>1, Sides, ReadOne
    <3>3. x.at # "asked"
      BY <3>2, LeadsFrom
    <3>4. x = Node("voice", 0, Len(heard[c]))
      BY <1>2, <3>2, <3>3 DEF Stands, At, Node
    <3>5. x.at = "voice" /\ x.left = 0 /\ x.pos = Len(heard[c])
      BY <3>4 DEF Node
    <3>6. z = Node("size", 0, Len(heard[c]))
      BY <3>2, <3>5, LeadsFrom
    <3>7. Stands(c, z)'
      BY <1>2, <2>1, <3>6 DEF Stands, Offering, Sending, data
    <3> QED
      BY <3>2, <3>7
  <2>4. \A w \in Nodes : Stops(c, w) => Stops(c, w)'
    <3>1. \A w \in Nodes : Stops(c, w) => w = Node("voice", 0, Len(said[c]))
      BY <1>2, RunningStops DEF Wrote, Talking
    <3> QED
      BY <1>2, <2>1, <3>1 DEF Stops, Wrote, Answering, Getting, Talking, data
  <2>5. h'[c].state \notin {"READING_VOICE_HEADER", "READING_VOICE_ACK"}
        /\ (h[o].state \notin Early \/ h'[c].type = h[c].type)
    BY <2>1
  <2> HIDE DEF o
  <2>6. Streams'
    BY <1>2, <1>5, <2>1, <2>2, <2>3, <2>4, <2>5, ReadStep DEF o
  <2> QED
    BY <1>2, <1>3, <1>5, <2>1, <2>6 DEF o
<1> QED
  BY <1>4, <1>5 DEF WatchReadingVoiceHeader

LEMMA ReadingVoiceSizeStreams ==
  ASSUME Streams, TypeInv', NEW c \in Clients, WatchReadingVoiceSize(c)
  PROVE  /\ Streams' /\ UNCHANGED <<life, data>>
         /\ h[c].state = "READING_VOICE_SIZE" /\ verdict[c] = "running"
         /\ h'[Other(c)] = h[Other(c)] /\ verdict'[Other(c)] = verdict[Other(c)]
         /\ h'[c].type = h[c].type /\ h'[c].fileFd = h[c].fileFd
         /\ h'[c].size = h[c].size /\ h[c].type = "VOICE"
         /\ \/ UNCHANGED h /\ verdict'[c] = "NET"
            \/ /\ h'[c].state = "READING_VOICE_DATA" /\ UNCHANGED verdict
               /\ VoiceSound(c)'
<1> DEFINE o == Other(c)
<1>1. /\ TypeOK' /\ Reads(c, "READING_VOICE_SIZE")
      /\ "READING_VOICE_SIZE" \in DOMAIN Expected \ {"READING_FILE_ACK"}
      /\ "READING_VOICE_SIZE" \in DOMAIN Expected
  BY DEF TypeInv, WatchReadingVoiceSize, Expected
<1>2. /\ wire'[o] = wire[o] /\ UNCHANGED <<life, data>>
      /\ h[c].state = "READING_VOICE_SIZE" /\ Open(c)
      /\ verdict[c] = "running" /\ life[c] = "up" /\ wire[c] # <<>>
  BY <1>1, Sides, ReadsAlone
<1>3. h[c].type = "VOICE" /\ h[o].state \in Talking
  BY <1>2, Sides DEF TypeFits, Meets, Talking
<1>4. wire[c][1] \in Items
  BY <1>1, Sides, ReadsType
<1>5. CASE Ends(c, "NET") /\ UNCHANGED h
  <2>1. "NET" \in Verdicts \ {"running"} /\ "NET" \in Verdicts
    BY DEF Verdicts, Errors
  <2>2. verdict'[c] = "NET" /\ verdict'[o] = verdict[o]
    BY <1>5, <2>1, Sides, Typed, EndsVerdict
  <2>3. Streams'
    BY <1>1, <1>5, <2>1, ReadsEnd
  <2> QED
    BY <1>2, <1>3, <1>5, <2>2, <2>3
<1>6. CASE \E n \in Numbers(wire[c][1], "small") :
             /\ n \in Nat /\ MinFrame <= n /\ n <= BufSize
             /\ UNCHANGED verdict
             /\ Becoming(c, [h[c] EXCEPT !.state = "READING_VOICE_DATA",
                                !.check = "READ", !.chunkSize = n,
                                !.chunkOffset = 0, !.buf = <<>>])
  <2>1. PICK n \in Numbers(wire[c][1], "small") :
             /\ n \in Nat /\ UNCHANGED verdict
             /\ Becoming(c, [h[c] EXCEPT !.state = "READING_VOICE_DATA",
                                !.check = "READ", !.chunkSize = n,
                                !.chunkOffset = 0, !.buf = <<>>])
    BY <1>6
  <2>2. /\ h'[c].state = "READING_VOICE_DATA" /\ h'[c].type = h[c].type
        /\ h'[c].fileFd = h[c].fileFd /\ h'[c].size = h[c].size
        /\ h'[c].chunkSize = n /\ h'[c].chunkOffset = 0 /\ h'[c].buf = <<>>
        /\ h'[o] = h[o]
    <3>1. h'[c] = [h[c] EXCEPT !.state = "READING_VOICE_DATA",
                                !.check = "READ", !.chunkSize = n,
                                !.chunkOffset = 0, !.buf = <<>>]
          /\ h'[o] = h[o] /\ h[c] \in Structs
      BY <2>1, Sides DEF Becoming
    <3> QED
      BY <3>1 DEF Structs
  <2>3. Roles'
    <3>1. TypeFits(c)'
      BY <1>3, <2>2 DEF TypeFits, Early, Dialling, Sending, Getting, Answering,
        Talking
    <3>2. Meets(h'[c].state, h[o].state) /\ Meets(h[o].state, h'[c].state)
      BY <1>3, <2>2 DEF Meets, Early, Sending, Getting, Talking, Offering,
        Answering
    <3>3. h'[c].state # "READING_FILE_INFO" /\ h'[c].state # "SENDING_FILE_INFO"
          /\ h'[c].state \in Talking
      BY <2>2 DEF Talking
    <3> QED
      BY Sides, <1>1, <1>2, <2>1, <2>2, <3>1, <3>2, <3>3, RolesMove DEF data
  <2>4. ~cut =>
          /\ Len(heard[c]) < Len(said[o]) /\ n = said[o][Len(heard[c]) + 1]
          /\ \E z, y \in Nodes : /\ Stands(c, z)' /\ Stops(o, y)
                                 /\ Path(z, wire'[c], y, said[o])
    <3>1. SUFFICES ASSUME ~cut
                   PROVE  /\ Len(heard[c]) < Len(said[o])
                          /\ n = said[o][Len(heard[c]) + 1]
                          /\ \E z, y \in Nodes :
                               /\ Stands(c, z)' /\ Stops(o, y)
                               /\ Path(z, wire'[c], y, said[o])
      OBVIOUS
    <3>2. PICK x \in Nodes, y \in Nodes, z \in Nodes :
            /\ Stands(c, x) /\ Stops(o, y)
            /\ Leads(x, wire[c][1], z, said[o])
            /\ Path(z, wire'[c], y, said[o])
            /\ Later(z.at, y.at)
      BY <1>1, <3>1, Sides, ReadOne
    <3>3. x.at = "size" /\ x.pos = Len(heard[c])
      BY <1>2, <3>2 DEF Stands, Node
    <3>4. /\ wire[c][1].kind = "small" /\ x.pos < Len(said[o])
          /\ wire[c][1].val = said[o][x.pos + 1]
          /\ z = Node("voice", wire[c][1].val, x.pos + 1)
      BY <3>2, <3>3, LeadsFrom
    <3>5. n = wire[c][1].val
      BY <2>1, <3>4 DEF Numbers
    <3>6. Left(c)' = n
      BY <2>1, <2>2 DEF Left
    <3>7. Stands(c, z)'
      BY <1>2, <2>2, <3>3, <3>4, <3>5, <3>6 DEF Stands, Offering, Sending, data
    <3> QED
      BY <3>2, <3>3, <3>4, <3>5, <3>7
  <2>5. \A w \in Nodes : Stops(c, w) => Stops(c, w)'
    <3>1. \A w \in Nodes : Stops(c, w) => w = Node("voice", 0, Len(said[c]))
      BY <1>2, RunningStops DEF Wrote, Talking
    <3> QED
      BY <1>2, <2>2, <3>1 DEF Stops, Wrote, Answering, Getting, Talking, data
  <2>6. VoiceSound(c)'
    <3>1. Len(<<>>) = 0 /\ DOMAIN <<>> = {}
      OBVIOUS
    <3> QED
      BY <1>2, <2>2, <2>4, <3>1 DEF VoiceSound, Talking, data
  <2>7. h'[c].state \notin {"READING_VOICE_HEADER", "READING_VOICE_ACK"}
        /\ (h[o].state \notin Early \/ h'[c].type = h[c].type)
        /\ verdict'[o] = verdict[o]
    BY <2>1, <2>2
  <2> HIDE DEF o
  <2>8. Streams'
    BY <1>2, <2>1, <2>2, <2>3, <2>4, <2>5, <2>7, ReadStep DEF o
  <2> QED
    BY <1>2, <1>3, <2>1, <2>2, <2>6, <2>8 DEF o
<1>7. \/ Ends(c, "NET") /\ UNCHANGED h
      \/ \E n \in Numbers(wire[c][1], "small") :
             /\ n \in Nat /\ MinFrame <= n /\ n <= BufSize
             /\ UNCHANGED verdict
             /\ Becoming(c, [h[c] EXCEPT !.state = "READING_VOICE_DATA",
                                !.check = "READ", !.chunkSize = n,
                                !.chunkOffset = 0, !.buf = <<>>])
  BY <1>4, Sides, Typed, ReadingVoiceSizeBecomes
<1> QED
  BY <1>5, <1>6, <1>7

\* What a read of a frame does, whole or in part.
LEMMA VoiceDataMoves ==
  ASSUME TypeInv, NEW c \in Clients, WatchReadingVoiceData(c)
  PROVE  /\ h[c].state = "READING_VOICE_DATA" /\ Open(c)
         /\ verdict[c] = "running" /\ life[c] = "up"
         /\ wire'[Other(c)] = wire[Other(c)]
         /\ UNCHANGED <<life, verdict, file, resume, got, cut, said>>
         /\ h'[Other(c)] = h[Other(c)]
         /\ h'[c].type = h[c].type /\ h'[c].fileFd = h[c].fileFd
         /\ h'[c].size = h[c].size
         /\ \E n \in 1..Len(wire[c]) :
              /\ n <= Left(c) /\ Left(c) \in Nat
              /\ wire'[c] = SubSeq(wire[c], n + 1, Len(wire[c]))
              /\ \/ /\ h'[c].state = "READING_VOICE_DATA" /\ UNCHANGED heard
                    /\ h'[c].chunkSize = h[c].chunkSize
                    /\ h'[c].chunkOffset = h[c].chunkOffset + n
                    /\ h'[c].buf = Buffered(c, n) /\ Left(c)' = Left(c) - n
                 \/ /\ h'[c].state = "READING_VOICE_HEADER" /\ Left(c) = n
                    /\ heard' = [heard EXCEPT ![c] =
                                   Append(@, Numbered(Buffered(c, n)))]
<1> DEFINE o == Other(c)
<1>1. TypeOK /\ Polled(c, "READING_VOICE_DATA")
      /\ UNCHANGED <<life, verdict, file, resume, got, cut, said>>
  BY DEF TypeInv, WatchReadingVoiceData
<1>2. /\ h[c].state = "READING_VOICE_DATA" /\ Open(c)
      /\ verdict[c] = "running" /\ life[c] = "up"
  BY <1>1, PolledOpen
<1>3. PICK n \in 1..Least({h[c].chunkSize - h[c].chunkOffset, Len(wire[c])}) :
        /\ wire' = Taken(c, n)
        /\ \/ /\ ~ChunkDone(c, n)
              /\ h' = [h EXCEPT ![c].chunkOffset = @ + n,
                                ![c].buf = Buffered(c, n)]
              /\ UNCHANGED heard
           \/ /\ ChunkDone(c, n)
              /\ h' = [h EXCEPT ![c].chunkOffset = @ + n, ![c].buf = <<>>,
                                ![c].state = "READING_VOICE_HEADER"]
              /\ heard' = [heard EXCEPT ![c] = Append(@, Numbered(Buffered(c, n)))]
  BY DEF WatchReadingVoiceData
<1>4. /\ h \in [Clients -> Structs] /\ h[c] \in Structs
      /\ h[c].chunkSize \in Nat /\ h[c].chunkOffset \in Nat
      /\ o \in Clients /\ o # c
  <2>1. h[c] \in Structs /\ h \in [Clients -> Structs]
    BY <1>1, Typed
  <2> QED
    BY <2>1, OtherClient DEF Structs
<1>5. Left(c) \in Int /\ Left(c) = h[c].chunkSize - h[c].chunkOffset
  BY <1>4 DEF Left
<1>6. n \in 1..Len(wire[c]) /\ n <= Left(c) /\ Len(wire[c]) \in Nat
  BY <1>1, <1>3, <1>5, CanTake
<1>7. n \in Nat /\ n >= 1 /\ n <= Left(c) /\ Left(c) \in Nat
      /\ n \in 0..Len(wire[c])
  BY <1>5, <1>6
<1>8. wire'[c] = SubSeq(wire[c], n + 1, Len(wire[c])) /\ wire'[o] = wire[o]
  BY <1>1, <1>3, <1>7, Typed, TakenType
<1>9. Buffered(c, n) \in Seq(Items)
  BY <1>1, <1>6, BufferedType
<1>10. CASE ~ChunkDone(c, n)
  <2>1. h' = [h EXCEPT ![c].chunkOffset = @ + n, ![c].buf = Buffered(c, n)]
        /\ UNCHANGED heard
    BY <1>3, <1>10
  <2>2. Becoming(c, [h[c] EXCEPT !.chunkOffset = h[c].chunkOffset + n,
                                 !.buf = Buffered(c, n)])
    BY <1>4, <1>7, <1>9, <2>1, PartBecomes
  <2>3. h'[c] = [h[c] EXCEPT !.chunkOffset = h[c].chunkOffset + n,
                             !.buf = Buffered(c, n)]
        /\ h'[o] = h[o]
    BY <2>2 DEF Becoming
  <2>4. /\ h'[c].type = h[c].type /\ h'[c].fileFd = h[c].fileFd
        /\ h'[c].size = h[c].size /\ h'[c].state = h[c].state
        /\ h'[c].chunkSize = h[c].chunkSize
        /\ h'[c].chunkOffset = h[c].chunkOffset + n
        /\ h'[c].buf = Buffered(c, n)
    BY <1>4, <2>3 DEF Structs
  <2>5. Left(c)' = Left(c) - n
    BY <1>4, <1>5, <1>7, <2>4 DEF Left
  <2> QED
    BY <1>1, <1>2, <1>6, <1>7, <1>8, <2>1, <2>3, <2>4, <2>5
<1>11. CASE ChunkDone(c, n)
  <2>1. /\ h' = [h EXCEPT ![c].chunkOffset = @ + n, ![c].buf = <<>>,
                          ![c].state = "READING_VOICE_HEADER"]
        /\ heard' = [heard EXCEPT ![c] = Append(@, Numbered(Buffered(c, n)))]
    BY <1>3, <1>11
  <2>2. Becoming(c, [h[c] EXCEPT !.chunkOffset = h[c].chunkOffset + n,
                       !.buf = <<>>, !.state = "READING_VOICE_HEADER"])
    BY <1>4, <1>7, <2>1, FrameBecomes
  <2>3. h'[c] = [h[c] EXCEPT !.chunkOffset = h[c].chunkOffset + n,
                       !.buf = <<>>, !.state = "READING_VOICE_HEADER"]
        /\ h'[o] = h[o]
    BY <2>2 DEF Becoming
  <2>4. /\ h'[c].type = h[c].type /\ h'[c].fileFd = h[c].fileFd
        /\ h'[c].size = h[c].size /\ h'[c].state = "READING_VOICE_HEADER"
    BY <1>4, <2>3 DEF Structs
  <2>5. Left(c) = n
    BY <1>4, <1>5, <1>7, <1>11 DEF ChunkDone
  <2> QED
    BY <1>1, <1>2, <1>6, <1>7, <1>8, <2>1, <2>3, <2>4, <2>5
<1> QED
  BY <1>10, <1>11

\* Every unit of a frame that arrives belongs to the frame that is due.
LEMMA ReadingVoiceDataStreams ==
  ASSUME Streams, BufInv, TypeInv', NEW c \in Clients, WatchReadingVoiceData(c)
  PROVE  /\ Streams' /\ h[c].type = "VOICE"
         /\ VoiceSound(c)' /\ VoiceIntact'
         /\ h'[c].state \in Talking /\ heard'[Other(c)] = heard[Other(c)]
<1> DEFINE o == Other(c)
           k == Len(heard[c]) + 1
<1>1. /\ h[c].state = "READING_VOICE_DATA" /\ Open(c)
      /\ verdict[c] = "running" /\ life[c] = "up"
      /\ wire'[o] = wire[o]
      /\ UNCHANGED <<life, verdict, file, resume, got, cut, said>>
      /\ h'[o] = h[o] /\ h'[c].type = h[c].type
  BY Sides, VoiceDataMoves
<1>2. PICK n \in 1..Len(wire[c]) :
        /\ n <= Left(c) /\ Left(c) \in Nat
        /\ wire'[c] = SubSeq(wire[c], n + 1, Len(wire[c]))
        /\ \/ /\ h'[c].state = "READING_VOICE_DATA" /\ UNCHANGED heard
              /\ h'[c].chunkSize = h[c].chunkSize
              /\ h'[c].chunkOffset = h[c].chunkOffset + n
              /\ h'[c].buf = Buffered(c, n) /\ Left(c)' = Left(c) - n
           \/ /\ h'[c].state = "READING_VOICE_HEADER" /\ Left(c) = n
              /\ heard' = [heard EXCEPT ![c] =
                             Append(@, Numbered(Buffered(c, n)))]
  BY Sides, VoiceDataMoves
<1>3. TypeOK' /\ h'[c].state \in Talking /\ h[c].type = "VOICE"
      /\ h[o].state \in Talking
  BY <1>1, <1>2, Sides DEF TypeInv, TypeFits, Talking, Meets
<1>4. /\ heard \in [Clients -> Seq(Seq(Nat))] /\ heard[c] \in Seq(Seq(Nat))
      /\ Len(heard[c]) \in Nat /\ wire[c] \in Seq(Items)
      /\ Len(wire[c]) \in Nat /\ n \in Nat /\ n >= 1 /\ n \in 0..Len(wire[c])
      /\ said[o] \in Seq(Nat)
  <2>1. /\ heard \in [Clients -> Seq(Seq(Nat))] /\ wire[c] \in Seq(Items)
        /\ said[o] \in Seq(Nat)
    BY Sides, Typed
  <2>2. heard[c] \in Seq(Seq(Nat))
    BY <2>1
  <2>3. Len(heard[c]) \in Nat /\ Len(wire[c]) \in Nat
    BY <2>1, <2>2, LenProperties
  <2> QED
    BY <2>1, <2>2, <2>3
<1>5. heard'[o] = heard[o]
  BY <1>2, <1>4, Sides
<1>6. /\ Buffered(c, n) \in Seq(Items)
      /\ Len(Buffered(c, n)) = Len(h[c].buf) + n
      /\ \A i \in 1..Len(h[c].buf) : Buffered(c, n)[i] = h[c].buf[i]
      /\ \A i \in 1..n : Buffered(c, n)[Len(h[c].buf) + i] = wire[c][i]
  BY Sides, BufferedType
<1>7. h[c].buf \in Seq(Items) /\ Len(h[c].buf) \in Nat
      /\ h[c].chunkSize \in Nat /\ h[c].chunkOffset \in Nat
  <2>1. h[c].buf \in Seq(Items) /\ h[c].chunkSize \in Nat
        /\ h[c].chunkOffset \in Nat
    BY Sides DEF Structs
  <2> QED
    BY <2>1, LenProperties
<1>8. ~cut =>
        /\ \A i \in 1..Len(Buffered(c, n)) : Buffered(c, n)[i].val = k
        /\ \E z, y \in Nodes : /\ z = Node("voice", Left(c) - n, k)
                               /\ Stops(o, y)
                               /\ Path(z, wire'[c], y, said[o])
  <2>1. SUFFICES ASSUME ~cut
                 PROVE  /\ \A i \in 1..Len(Buffered(c, n)) :
                             Buffered(c, n)[i].val = k
                        /\ \E z, y \in Nodes :
                             /\ z = Node("voice", Left(c) - n, k)
                             /\ Stops(o, y)
                             /\ Path(z, wire'[c], y, said[o])
    OBVIOUS
  <2>2. PICK x \in Nodes, y \in Nodes :
          Stands(c, x) /\ Stops(o, y) /\ Path(x, wire[c], y, said[o])
    BY <1>1, <2>1, Sides DEF StreamLeads
  <2>3. x.at = "voice" /\ x.left = Left(c) /\ x.pos = k
    BY <1>1, <2>2 DEF Stands, Node
  <2>4. PICK z \in Nodes :
          /\ Path(x, SubSeq(wire[c], 1, n), z, said[o])
          /\ Path(z, SubSeq(wire[c], n + 1, Len(wire[c])), y, said[o])
    BY <1>4, <2>2, PathCut
  <2> DEFINE p == SubSeq(wire[c], 1, n)
  <2>5. /\ p \in Seq(Items) /\ Len(p) = n
        /\ \A i \in 1..n : p[i] = wire[c][i]
    BY <1>4, Sides, Typed, TakenType
  <2>6. Path(x, p, z, said[o])
    BY <2>4
  <2> HIDE DEF p
  <2>7. z = Ahead(x, n) /\ \A i \in 1..n : p[i] = Unit(x, i)
    <3>1. x.at \in {"chunk", "voice"} /\ Len(p) <= x.left
      BY <1>2, <2>3, <2>5
    <3> QED
      BY <2>5, <2>6, <3>1, PathUnits
  <2>8. z = Node("voice", Left(c) - n, k)
    BY <2>3, <2>7 DEF Ahead
  <2>9. \A i \in 1..n : wire[c][i].val = k
    <3>1. TAKE i \in 1..n
    <3>2. wire[c][i] = Item("voice", k)
      BY <2>3, <2>5, <2>7 DEF Unit
    <3> QED
      BY <3>2 DEF Item
  <2>10. \A i \in 1..Len(h[c].buf) : h[c].buf[i].val = k
    <3>1. \A i \in DOMAIN h[c].buf : h[c].buf[i].val = k
      BY <1>1, <2>1 DEF BufInv, VoiceSound
    <3>2. DOMAIN h[c].buf = 1..Len(h[c].buf)
      BY <1>7, LenProperties
    <3> QED
      BY <3>1, <3>2
  <2>11. \A i \in 1..Len(Buffered(c, n)) : Buffered(c, n)[i].val = k
    <3> DEFINE b == Buffered(c, n)
               l == Len(h[c].buf)
    <3>1. /\ Len(b) = l + n /\ l \in Nat
          /\ \A i \in 1..l : b[i] = h[c].buf[i]
          /\ \A i \in 1..n : b[l + i] = wire[c][i]
          /\ \A i \in 1..l : h[c].buf[i].val = k
      BY <1>6, <1>7, <2>10
    <3>0. SUFFICES \A i \in 1..Len(b) : b[i].val = k
      OBVIOUS
    <3> HIDE DEF b, l
    <3>2. TAKE i \in 1..Len(b)
    <3>3. CASE i <= l
      <4>1. i \in 1..l
        BY <1>4, <3>1, <3>2, <3>3
      <4> QED
        BY <3>1, <4>1
    <3>4. CASE i > l
      <4>1. i - l \in 1..n /\ l + (i - l) = i
        BY <1>4, <3>1, <3>2, <3>4
      <4>2. b[l + (i - l)] = wire[c][i - l]
        BY <3>1, <4>1
      <4> QED
        BY <2>9, <4>1, <4>2
    <3> QED
      BY <1>4, <3>1, <3>2, <3>3, <3>4
  <2> QED
    BY <1>2, <2>2, <2>4, <2>8, <2>11
<1>9. ~cut =>
        /\ Len(h[c].buf) = h[c].chunkOffset
        /\ Len(heard[c]) < Len(said[o])
        /\ h[c].chunkSize = said[o][k]
  BY <1>1 DEF BufInv, VoiceSound
<1>10. VoiceSound(c)'
  <2>1. SUFFICES ASSUME ~cut, h'[c].state = "READING_VOICE_DATA"
                 PROVE  /\ Len(h'[c].buf) = h'[c].chunkOffset
                        /\ Len(heard'[c]) < Len(said'[o])
                        /\ h'[c].chunkSize = said'[o][Len(heard'[c]) + 1]
                        /\ \A i \in DOMAIN h'[c].buf :
                             h'[c].buf[i].val = Len(heard'[c]) + 1
    BY <1>1, <1>3 DEF VoiceSound
  <2>2. /\ UNCHANGED heard /\ h'[c].chunkSize = h[c].chunkSize
        /\ h'[c].chunkOffset = h[c].chunkOffset + n
        /\ h'[c].buf = Buffered(c, n)
    BY <1>2, <2>1
  <2>3. DOMAIN Buffered(c, n) = 1..Len(Buffered(c, n))
    BY <1>6, LenProperties
  <2> QED
    BY <1>1, <1>6, <1>8, <1>9, <2>1, <2>2, <2>3
<1>11. VoiceIntact'
  <2>1. CASE UNCHANGED heard
    BY <1>1, <2>1 DEF BufInv, VoiceIntact
  <2>2. CASE heard' = [heard EXCEPT ![c] = Append(@, Numbered(Buffered(c, n)))]
             /\ Left(c) = n
    <3>1. SUFFICES ASSUME ~cut, NEW d \in Clients, NEW j \in DOMAIN heard'[d]
                   PROVE  /\ j <= Len(said[Other(d)])
                          /\ heard'[d][j]
                               = [i \in 1..said[Other(d)][j] |-> j]
      BY <1>1 DEF VoiceIntact
    <3>2. \A e \in Clients : \A i \in DOMAIN heard[e] :
            /\ i <= Len(said[Other(e)])
            /\ heard[e][i] = [m \in 1..said[Other(e)][i] |-> i]
      BY <3>1 DEF BufInv, VoiceIntact
    <3>3. CASE d # c
      <4>1. heard'[d] = heard[d]
        BY <1>4, <2>2, <3>3
      <4> QED
        BY <3>1, <3>2, <4>1
    <3>4. CASE d = c
      <4> DEFINE f == Numbered(Buffered(c, n))
      <4>1. /\ f \in Seq(Nat) /\ Len(f) = Len(Buffered(c, n))
            /\ \A i \in 1..Len(Buffered(c, n)) : f[i] = Buffered(c, n)[i].val
        BY <1>6, NumberedItems
      <4>2. heard'[c] = Append(heard[c], f)
        BY <1>4, <2>2
      <4>3. Len(f) = h[c].chunkSize /\ Len(f) = said[o][k]
        <5>1. h[c].chunkSize - h[c].chunkOffset = n
          BY <2>2 DEF Left
        <5>2. Len(f) = h[c].chunkOffset + n
          BY <1>6, <1>9, <3>1, <4>1
        <5>3. h[c].chunkOffset + n = h[c].chunkSize
          BY <1>4, <1>7, <5>1
        <5> QED
          BY <1>9, <3>1, <5>2, <5>3
      <4>4. \A i \in 1..Len(f) : f[i] = k
        BY <1>8, <3>1, <4>1
      <4> HIDE DEF f
      <4>5. f = [i \in 1..said[o][k] |-> k]
        <5>1. f = [i \in 1..Len(f) |-> f[i]]
          BY <4>1
        <5>2. [i \in 1..Len(f) |-> f[i]] = [i \in 1..Len(f) |-> k]
          BY <4>4
        <5> QED
          BY <4>3, <5>1, <5>2
      <4>6. /\ DOMAIN heard'[c] = 1..k
            /\ \A i \in 1..Len(heard[c]) : heard'[c][i] = heard[c][i]
            /\ heard'[c][k] = f
        BY <1>4, <4>1, <4>2, AppendProperties
      <4>7. CASE j = k
        BY <1>4, <1>9, <3>1, <3>4, <4>5, <4>6, <4>7
      <4>8. CASE j # k
        <5>1. j \in 1..Len(heard[c]) /\ j \in DOMAIN heard[c]
          <6>1. j \in 1..Len(heard[c])
            BY <1>4, <3>1, <3>4, <4>6, <4>8
          <6> QED
            BY <1>4, <6>1, LenProperties
        <5>2. heard'[c][j] = heard[c][j]
          BY <4>6, <5>1
        <5>3. /\ j <= Len(said[Other(c)])
              /\ heard[c][j] = [m \in 1..said[Other(c)][j] |-> j]
          BY <3>2, <5>1
        <5> QED
          BY <3>4, <5>2, <5>3
      <4> QED
        BY <4>7, <4>8
    <3> QED
      BY <3>3, <3>4
  <2> QED
    BY <1>2, <2>1, <2>2
<1>12. StreamLeads(c)'
  <2>1. SUFFICES ASSUME ~cut
                 PROVE  StreamLeads(c)'
    BY <1>1 DEF StreamLeads
  <2>2. PICK z \in Nodes, y \in Nodes :
          /\ z = Node("voice", Left(c) - n, k) /\ Stops(o, y)
          /\ Path(z, wire'[c], y, said[o])
    BY <1>8, <2>1
  <2>3. Stops(o, y)'
    BY <1>1, <1>3, <2>2, Sides, OtherStops
  <2>4. Stands(c, z)'
    <3>1. CASE /\ h'[c].state = "READING_VOICE_DATA" /\ UNCHANGED heard
               /\ Left(c)' = Left(c) - n
      BY <2>2, <3>1 DEF Stands, Offering, Sending
    <3>2. CASE /\ h'[c].state = "READING_VOICE_HEADER" /\ Left(c) = n
               /\ heard' = [heard EXCEPT ![c] =
                              Append(@, Numbered(Buffered(c, n)))]
      <4>1. Numbered(Buffered(c, n)) \in Seq(Nat)
        BY <1>6, NumberedItems
      <4>2. heard'[c] = Append(heard[c], Numbered(Buffered(c, n)))
        BY <1>4, <3>2
      <4>3. Len(heard'[c]) = k
        BY <1>4, <4>1, <4>2, AppendProperties
      <4>4. Left(c) - n = 0
        BY <1>2, <3>2
      <4> QED
        BY <2>2, <3>2, <4>3, <4>4 DEF Stands, Offering, Sending
    <3> QED
      BY <1>2, <3>1, <3>2
  <2> QED
    BY <1>1, <2>2, <2>3, <2>4, StreamsRead
<1>13. StreamLeads(o)'
  <2>1. \A w \in Nodes : Stops(c, w) => Stops(c, w)'
    <3>1. \A w \in Nodes : Stops(c, w) => w = Node("voice", 0, Len(said[c]))
      BY <1>1, RunningStops DEF Wrote, Talking
    <3> QED
      BY <1>1, <1>3, <3>1 DEF Stops, Wrote, Answering, Getting, Talking
  <2>2. h'[o] = h[o] /\ verdict'[o] = verdict[o] /\ life'[o] = life[o]
        /\ cut' = cut /\ wire'[o] = wire[o] /\ UNCHANGED <<resume, got, said>>
    BY <1>1
  <2> HIDE DEF o
  <2> QED
    BY <1>5, <2>1, <2>2, Sides, OtherKept DEF o
<1>14. Hushed(c)' /\ Hushed(o)'
  BY <1>1, <1>3, Sides DEF Hushed, Talking
<1>15. Roles'
  <2>1. TypeFits(c)'
    BY <1>1, <1>3 DEF TypeFits, Early, Dialling, Sending, Getting, Answering,
      Talking
  <2>2. Meets(h'[c].state, h[o].state) /\ Meets(h[o].state, h'[c].state)
    BY <1>3 DEF Meets, Early, Sending, Getting, Talking, Offering, Answering
  <2>3. h'[c].state # "READING_FILE_INFO" /\ h'[c].state # "SENDING_FILE_INFO"
    BY <1>3 DEF Talking
  <2> QED
    BY Sides, <1>1, <1>3, <2>1, <2>2, <2>3, RolesMove
<1>16. Streams'
  BY <1>12, <1>13, <1>14, <1>15, StreamsBoth
<1> QED
  BY <1>3, <1>5, <1>10, <1>11, <1>16

LEMMA VoiceSendStreams ==
  ASSUME Streams, TypeInv', NEW c \in Clients, VoiceSend(c)
  PROVE  /\ Streams' /\ h[c].state \in Talking
         /\ \E n \in Nat : said' = [said EXCEPT ![c] = Append(@, n)]
         /\ cut => cut'
<1> DEFINE o == Other(c)
<1>1. /\ TypeOK' /\ life[c] = "up" /\ verdict[c] = "running"
      /\ h[c].type = "VOICE" /\ h[c].state \in Talking
      /\ UNCHANGED <<h, life, verdict, file, resume, got, heard>>
  BY DEF TypeInv, VoiceSend, Talks, Talking
<1>0. PICK n \in Frames :
        /\ said' = [said EXCEPT ![c] = Append(@, n)]
        /\ \E m \in 0..(n + 2) :
             /\ c = "caller" => m = n + 2
             /\ wire' = Sent(c, SubSeq(VoiceFrame(Len(said[c]) + 1, n), 1, m))
             /\ cut' = (cut \/ m < n + 2)
  BY DEF VoiceSend
<1>2. PICK m \in 0..(n + 2) :
        /\ said' = [said EXCEPT ![c] = Append(@, n)]
        /\ c = "caller" => m = n + 2
        /\ wire' = Sent(c, SubSeq(VoiceFrame(Len(said[c]) + 1, n), 1, m))
        /\ cut' = (cut \/ m < n + 2)
  BY <1>0
<1>3. /\ n \in Nat /\ Len(said[c]) \in Nat
      /\ SubSeq(VoiceFrame(Len(said[c]) + 1, n), 1, m) \in Seq(Items)
      /\ m = n + 2 => SubSeq(VoiceFrame(Len(said[c]) + 1, n), 1, m)
                        = VoiceFrame(Len(said[c]) + 1, n)
  BY Sides, FramePartType
<1>4. wire'[c] = wire[c]
      /\ wire'[o] = IF life[o] = "freed" THEN wire[o]
                    ELSE wire[o] \o SubSeq(VoiceFrame(Len(said[c]) + 1, n), 1, m)
  BY <1>2, <1>3, Sides, Typed, SentType
<1>5. /\ said[c] \in Seq(Nat) /\ said \in [Clients -> Seq(Nat)]
      /\ said'[c] = Append(said[c], n) /\ said'[o] = said[o]
  <2>1. said \in [Clients -> Seq(Nat)]
    BY Sides, Typed
  <2> QED
    BY <1>2, <2>1, Sides
<1>6. Len(said'[c]) = Len(said[c]) + 1
  BY <1>3, <1>5, AppendProperties
<1>7. h[o].state \in {"READING_VOICE_ACK"} \cup Talking
  BY <1>1, Sides DEF Meets, Talking
<1>8. Roles'
  <2>1. CutLate'
    <3>1. CASE c = "callee"
      BY <1>1, <3>1 DEF CutLate
    <3>2. CASE c = "caller"
      <4>1. m = n + 2
        BY <1>2, <3>2
      <4>2. cut' = cut
        <5>1. cut \in BOOLEAN
          BY Sides, Typed
        <5>2. ~(m < n + 2)
          BY <1>3, <4>1
        <5> QED
          BY <1>2, <5>1, <5>2
      <4>3. CutLate
        BY DEF Streams, Roles
      <4> QED
        BY <1>1, <4>2, <4>3 DEF CutLate
    <3> QED
      BY <3>1, <3>2 DEF Clients
  <2>2. RolesAgree'
    BY <1>1, Sides DEF Roles, RolesAgree
  <2>3. ASSUME NEW d \in Clients
        PROVE  TypeFits(d)' /\ Together(d)' /\ LifeFits(d)'
    <3>1. TypeFits(d) /\ Together(d) /\ LifeFits(d)
      BY Sides DEF Roles
    <3>2. TypeFits(d)'
      BY <1>1, <3>1 DEF TypeFits
    <3>3. Together(d)'
      BY <1>1, <3>1 DEF Together
    <3>4. LifeFits(d)'
      BY <1>1, <3>1 DEF LifeFits
    <3> QED
      BY <3>2, <3>3, <3>4
  <2> QED
    BY <2>1, <2>2, <2>3 DEF Roles
<1>9. Hushed(c)' /\ Hushed(o)'
  <2>1. Hushed(c)
    BY DEF Streams
  <2>2. Hushed(c)'
    BY <1>1, <1>4, <2>1 DEF Hushed, Open
  <2>3. Hushed(o)'
    BY <1>1, Sides DEF Hushed, Talking
  <2> QED
    BY <2>2, <2>3
<1>10. StreamLeads(c)' /\ StreamLeads(o)'
  <2>1. CASE cut'
    BY <2>1 DEF StreamLeads
  <2>2. CASE ~cut'
    <3>1. ~cut /\ m = n + 2
      <4>1. ~cut /\ ~(m < n + 2)
        BY <1>2, <2>2
      <4> QED
        BY <1>3, <4>1
    <3>2. cut' = cut
      <4>1. cut \in BOOLEAN /\ cut' \in BOOLEAN
        BY <1>2, Sides, Typed
      <4> QED
        BY <2>2, <3>1, <4>1
    <3>3. StreamLeads(c)'
      <4>1. \A x \in Nodes : Stands(c, x) => Stands(c, x)'
        BY <1>1, OtherStands
      <4>2. \A y \in Nodes : Stops(o, y) => Stops(o, y)'
        BY <1>1, <1>5, Sides, OtherStops
      <4>3. Open(c)' => Open(c)
        BY <1>1 DEF Open
      <4> QED
        BY <1>4, <1>5, <3>2, <4>1, <4>2, <4>3, Sides, StreamsKept
    <3>4. StreamLeads(o)'
      <4>1. SUFFICES ASSUME Open(o)'
                     PROVE  \E a, b \in Nodes : /\ Stands(o, a)' /\ Stops(c, b)'
                                                /\ Path(a, wire'[o], b, said'[c])
        BY Sides DEF StreamLeads
      <4>2. Open(o) /\ life[o] # "freed"
        BY <1>1, <4>1 DEF Open
      <4>3. PICK x \in Nodes, y \in Nodes :
              Stands(o, x) /\ Stops(c, y) /\ Path(x, wire[o], y, said[c])
        BY <3>1, <4>2, Sides DEF StreamLeads
      <4>4. y = Node("voice", 0, Len(said[c]))
        BY <1>1, <4>3, RunningStops DEF Wrote
      <4>5. PICK z \in Nodes : z = Node("voice", 0, Len(said[c]) + 1)
        BY <1>3, NodeType DEF Names
      <4>6. PICK q \in Seq(Items) : q = VoiceFrame(Len(said[c]) + 1, n)
        <5>1. Len(said[c]) + 1 \in Nat
          BY <1>3
        <5> QED
          BY <1>3, <5>1, VoiceFrameItems
      <4>7. Path(y, q, z, Append(said[c], n))
        BY <1>3, <1>5, <4>4, <4>5, <4>6, FramePath
      <4>8. wire[o] \in Seq(Items)
        BY Sides, Typed
      <4>9. Path(x, wire[o], y, Append(said[c], n))
        BY <1>3, <1>5, <4>3, <4>8, PathSpoken
      <4>10. Path(x, wire[o] \o q, z, Append(said[c], n))
        BY <4>7, <4>8, <4>9, PathJoined
      <4>11. wire'[o] = wire[o] \o q
        BY <1>3, <1>4, <3>1, <4>2, <4>6
      <4>12. Path(x, wire'[o], z, said'[c])
        BY <1>5, <4>10, <4>11
      <4>13. Stands(o, x)'
        BY <1>1, <4>3, Sides, OtherStands
      <4>14. Stops(c, z)'
        BY <1>1, <1>6, <4>5 DEF Stops, Wrote, Answering, Getting, Talking
      <4> QED
        BY <4>12, <4>13, <4>14
    <3> QED
      BY <3>3, <3>4
  <2> QED
    BY <2>1, <2>2
<1>11. Streams'
  BY <1>8, <1>9, <1>10, StreamsBoth
<1> QED
  BY <1>1, <1>2, <1>3, <1>11

-----------------------------------------------------------------------------
(***************************************************************************)
(* What the two sides know of the file, and what is in their buffers.      *)
(***************************************************************************)
LEMMA FileStep ==
  ASSUME FileInv, NEW c \in Clients, UNCHANGED <<file, resume, got>>,
         cut => cut',
         h'[Other(c)] = h[Other(c)], verdict'[Other(c)] = verdict[Other(c)],
         verdict[c] = "DONE" => verdict'[c] = "DONE",
         h[c].state \in Sending => h'[c].state \in Sending,
         FileKnown(c)', DoneKnown(c)', DoneGot(c)'
  PROVE  FileInv'
<1> DEFINE o == Other(c)
<1>1. o \in Clients /\ Other(o) = c /\ \A d \in Clients : d = c \/ d = o
  BY OtherClient
<1>2. NumbersFit' /\ GotIntact'
  BY DEF FileInv, NumbersFit, GotIntact
<1>3. NoFileYet'
  <2>1. CASE got = <<>>
    BY <2>1 DEF NoFileYet
  <2>2. CASE got # <<>>
    <3>1. PICK d \in Clients : h[d].state \in Sending
      BY <2>2 DEF FileInv, NoFileYet
    <3>2. h'[d].state \in Sending
      BY <1>1, <3>1
    <3> QED
      BY <3>2 DEF NoFileYet
  <2> QED
    BY <2>1, <2>2
<1>4. FileKnown(o)' /\ DoneKnown(o)' /\ DoneGot(o)'
  <2>1. FileKnown(o) /\ DoneKnown(o) /\ DoneGot(o)
    BY <1>1 DEF FileInv
  <2>2. Pos' = Pos
    BY DEF Pos
  <2>3. FileKnown(o)'
    BY <2>1, <2>2 DEF FileKnown
  <2>4. DoneKnown(o)'
    BY <2>1 DEF DoneKnown
  <2>5. DoneGot(o)'
    BY <1>1, <2>1, <2>2 DEF DoneGot
  <2> QED
    BY <2>3, <2>4, <2>5
<1> HIDE DEF o
<1> QED
  BY <1>1, <1>2, <1>3, <1>4 DEF FileInv

LEMMA BufStep ==
  ASSUME BufInv, NEW c \in Clients, UNCHANGED <<said, heard>>, cut => cut',
         h'[Other(c)] = h[Other(c)], Open(Other(c))' => Open(Other(c)),
         HeaderSound(c)', VoiceSound(c)'
  PROVE  BufInv'
<1> DEFINE o == Other(c)
<1>1. o \in Clients /\ Other(o) = c /\ \A d \in Clients : d = c \/ d = o
  BY OtherClient
<1>2. VoiceIntact'
  BY DEF BufInv, VoiceIntact
<1>3. HeaderSound(o)' /\ VoiceSound(o)'
  <2>1. HeaderSound(o) /\ VoiceSound(o)
    BY <1>1 DEF BufInv
  <2>2. HeaderSound(o)'
    BY <2>1 DEF HeaderSound
  <2>3. VoiceSound(o)'
    BY <2>1 DEF VoiceSound
  <2> QED
    BY <2>2, <2>3
<1> HIDE DEF o
<1> QED
  BY <1>1, <1>2, <1>3 DEF BufInv

\* A step of the handshake or of a conversation.
LEMMA PlainKeeps ==
  ASSUME FileInv, BufInv, NEW c \in Clients, UNCHANGED <<life, data>>,
         h'[Other(c)] = h[Other(c)], verdict'[Other(c)] = verdict[Other(c)],
         h'[c].fileFd = h[c].fileFd, h'[c].size = h[c].size,
         \/ h'[c].type = h[c].type
         \/ h[c].type \in {"DCC", "GET"} \/ ~h[c].fileFd,
         verdict[c] = "running", verdict'[c] = "running",
         h[c].state \notin Sending \cup Getting \cup {"SENDING_FILE_ACK"},
         h'[c].state \notin Sending \cup Getting
           \cup {"SENDING_FILE_ACK", "READING_FILE_ACK", "READING_VOICE_DATA"},
         h[c].state \in Talking => h'[c].state \in Talking
  PROVE  FileInv' /\ BufInv'
<1>1. FileKnown(c) /\ VoiceSound(c)
  BY DEF FileInv, BufInv
<1>2. FileKnown(c)'
  <2>1. UNCHANGED file
    BY DEF data
  <2> QED
    BY <1>1, <2>1 DEF FileKnown
<1>3. DoneKnown(c)' /\ DoneGot(c)'
  BY DEF DoneKnown, DoneGot
<1>4. FileInv'
  BY <1>2, <1>3, FileStep DEF data
<1>5. HeaderSound(c)'
  BY DEF HeaderSound, Getting
<1>6. VoiceSound(c)'
  BY <1>1 DEF VoiceSound, data
<1>7. BufInv'
  BY <1>5, <1>6, BufStep DEF data, Open
<1> QED
  BY <1>4, <1>7

\* A step that changes no client but for its end.
LEMMA EndsKeep ==
  ASSUME FileInv, BufInv, NEW c \in Clients, TypeFits(c),
         UNCHANGED <<h, data>>, verdict'[Other(c)] = verdict[Other(c)],
         \A d \in Clients : Open(d)' => Open(d),
         \/ verdict'[c] = verdict[c]
         \/ /\ verdict[c] = "running"
            /\ verdict'[c] = "DONE" => h[c].state = "SENDING_FILE"
                                       /\ h[c].offset >= h[c].size
  PROVE  FileInv' /\ BufInv'
<1>1. FileKnown(c) /\ DoneKnown(c) /\ DoneGot(c) /\ HeaderSound(c)
      /\ VoiceSound(c)
  BY DEF FileInv, BufInv
<1>2. UNCHANGED <<file, resume, got, cut, said, heard>>
  BY DEF data
<1>3. Pos' = Pos
  BY <1>2 DEF Pos
<1>4. FileKnown(c)'
  BY <1>1, <1>2, <1>3 DEF FileKnown
<1>5. DoneKnown(c)'
  BY <1>1 DEF DoneKnown
<1>6. DoneGot(c)'
  <2>1. CASE verdict'[c] = verdict[c]
    BY <1>1, <1>2, <1>3, <2>1 DEF DoneGot
  <2>2. CASE verdict'[c] = "DONE" => h[c].state = "SENDING_FILE"
    BY <2>2 DEF DoneGot, TypeFits, Sending
  <2> QED
    BY <2>1, <2>2
<1>7. FileInv'
  BY <1>2, <1>4, <1>5, <1>6, FileStep
<1>8. HeaderSound(c)'
  BY <1>1, <1>2 DEF HeaderSound
<1>9. VoiceSound(c)'
  BY <1>1, <1>2 DEF VoiceSound
<1>10. Open(Other(c))' => Open(Other(c))
  BY OtherClient
<1>11. BufInv'
  BY <1>2, <1>8, <1>9, <1>10, BufStep
<1> QED
  BY <1>7, <1>11

DccInv == Streams /\ FileInv /\ BufInv

\* A packet that ends the connection when it is read.
LEMMA ReadsEndKeeps ==
  ASSUME DccInv, NEW c \in Clients, NEW state \in DOMAIN Expected,
         Reads(c, state), NEW event \in Verdicts \ {"running", "DONE"},
         Ends(c, event), UNCHANGED h
  PROVE  FileInv' /\ BufInv'
<1>1. Streams /\ FileInv /\ BufInv
  BY DEF DccInv
<1>2. /\ UNCHANGED <<life, data>> /\ verdict[c] = "running" /\ TypeFits(c)
      /\ Open(c)
  BY <1>1, Sides, ReadsAlone
<1>3. verdict'[c] = event /\ verdict'[Other(c)] = verdict[Other(c)]
  BY <1>1, Sides, Typed, EndsVerdict
<1>4. \A d \in Clients : Open(d)' => Open(d)
  BY <1>2, <1>3, OtherClient DEF Open
<1> QED
  BY <1>1, <1>2, <1>3, <1>4, EndsKeep

LEMMA HandshakeFailsKeeps ==
  ASSUME DccInv, NEW c \in Clients, HandshakeFails(c)
  PROVE  FileInv' /\ BufInv'
<1>1. Streams /\ FileInv /\ BufInv
  BY DEF DccInv
<1>2. PICK state : Polled(c, state)
  BY DEF HandshakeFails
<1>3. Open(c) /\ verdict[c] = "running"
  BY <1>2, PolledOpen
<1>4. UNCHANGED <<h, life, data>> /\ Ends(c, "HANDSHAKE")
  BY DEF HandshakeFails
<1>5. "HANDSHAKE" \in Verdicts
  BY DEF Verdicts, Errors
<1>6. verdict'[c] = "HANDSHAKE" /\ verdict'[Other(c)] = verdict[Other(c)]
  BY <1>1, <1>4, <1>5, Sides, Typed, EndsVerdict
<1>7. \A d \in Clients : Open(d)' => Open(d)
  BY <1>3, <1>4, <1>6, OtherClient DEF Open
<1> QED
  BY <1>1, <1>3, <1>4, <1>6, <1>7, Sides, EndsKeep

LEMMA HandshakeKeeps ==
  ASSUME DccInv, TypeInv', NEW c \in Clients, Handshake(c)
  PROVE  DccInv'
<1> DEFINE o == Other(c)
<1>0. Streams /\ FileInv /\ BufInv
  BY DEF DccInv
<1>1. CASE WatchConnecting(c) \/ WatchSendingAck(c)
  <2>1. PICK state \in {"CONNECTING", "SENDING_ACK"} :
          /\ Writes(c, state) /\ UNCHANGED verdict
          /\ \E next \in {"READING_ACK", "READING_TYPE"} : Moves(c, next, "READ")
    BY <1>1 DEF WatchConnecting, WatchSendingAck
  <2>2. PICK next \in {"READING_ACK", "READING_TYPE"} : Moves(c, next, "READ")
    BY <2>1
  <2>3. /\ UNCHANGED <<life, data>> /\ h[c].state = state
        /\ verdict[c] = "running"
    BY <1>0, <2>1, Sides, WritesAlone DEF Writing
  <2>4. /\ h'[c].state = next /\ h'[c].type = h[c].type
        /\ h'[c].fileFd = h[c].fileFd /\ h'[c].size = h[c].size /\ h'[o] = h[o]
    BY <1>0, <2>2, Sides, Moved DEF States, Checks
  <2>5. /\ h[c].state \notin Sending \cup Getting \cup {"SENDING_FILE_ACK"}
        /\ h[c].state \notin Talking
        /\ h'[c].state \notin Sending \cup Getting
             \cup {"SENDING_FILE_ACK", "READING_FILE_ACK", "READING_VOICE_DATA"}
    BY <2>3, <2>4 DEF Sending, Getting, Talking
  <2>6. FileInv' /\ BufInv'
    BY <1>0, <2>1, <2>3, <2>4, <2>5, PlainKeeps
  <2>7. Streams'
    BY <1>0, <1>1, ConnectingStreams, SendingAckStreams
  <2> QED
    BY <2>6, <2>7 DEF DccInv
<1>2. CASE WatchReadingUin(c)
  <2>1. PICK state \in {"READING_UIN_1", "READING_UIN_2"} :
          /\ Reads(c, state) /\ UNCHANGED verdict
          /\ \E next \in {"READING_UIN_2", "SENDING_ACK"}, check \in Checks :
               Moves(c, next, check)
    BY <1>2 DEF WatchReadingUin, Checks
  <2>2. PICK next \in {"READING_UIN_2", "SENDING_ACK"}, check \in Checks :
          Moves(c, next, check)
    BY <2>1
  <2>3. /\ UNCHANGED <<life, data>> /\ h[c].state = state
        /\ verdict[c] = "running"
    <3>1. state \in DOMAIN Expected
      BY DEF Expected
    <3> QED
      BY <1>0, <2>1, <3>1, Sides, ReadsAlone
  <2>4. /\ h'[c].state = next /\ h'[c].type = h[c].type
        /\ h'[c].fileFd = h[c].fileFd /\ h'[c].size = h[c].size /\ h'[o] = h[o]
    BY <1>0, <2>2, Sides, Moved DEF States
  <2>5. /\ h[c].state \notin Sending \cup Getting \cup {"SENDING_FILE_ACK"}
        /\ h[c].state \notin Talking
        /\ h'[c].state \notin Sending \cup Getting
             \cup {"SENDING_FILE_ACK", "READING_FILE_ACK", "READING_VOICE_DATA"}
    BY <2>3, <2>4 DEF Sending, Getting, Talking
  <2>6. FileInv' /\ BufInv'
    BY <1>0, <2>1, <2>3, <2>4, <2>5, PlainKeeps
  <2>7. Streams'
    BY <1>0, <1>2, ReadingUinStreams
  <2> QED
    BY <2>6, <2>7 DEF DccInv
<1>3. CASE WatchReadingAck(c)
  <2>1. Reads(c, "READING_ACK") /\ "READING_ACK" \in DOMAIN Expected
    BY <1>3 DEF WatchReadingAck, Expected
  <2>2. /\ UNCHANGED <<life, data>> /\ h[c].state = "READING_ACK"
        /\ verdict[c] = "running"
    BY <1>0, <2>1, Sides, ReadsAlone
  <2>3. ASSUME Moves(c, "SENDING_REQUEST", "WRITE"), UNCHANGED verdict
        PROVE  FileInv' /\ BufInv'
    <3>1. /\ h'[c].state = "SENDING_REQUEST" /\ h'[c].type = h[c].type
          /\ h'[c].fileFd = h[c].fileFd /\ h'[c].size = h[c].size
          /\ h'[o] = h[o]
      BY <1>0, <2>3, Sides, Moved DEF States, Checks
    <3>2. /\ h[c].state \notin Sending \cup Getting \cup {"SENDING_FILE_ACK"}
          /\ h[c].state \notin Talking
          /\ h'[c].state \notin Sending \cup Getting
               \cup {"SENDING_FILE_ACK", "READING_FILE_ACK",
                     "READING_VOICE_DATA"}
      BY <2>2, <3>1 DEF Sending, Getting, Talking
    <3>3. verdict'[c] = "running" /\ verdict'[o] = verdict[o]
      BY <2>2, <2>3
    <3> QED
      BY <1>0, <2>2, <3>1, <3>2, <3>3, PlainKeeps
  <2>4. ASSUME Ends(c, "HANDSHAKE"), UNCHANGED h
        PROVE  FileInv' /\ BufInv'
    <3>1. "HANDSHAKE" \in Verdicts \ {"running", "DONE"}
      BY DEF Verdicts, Errors
    <3> QED
      BY <2>1, <2>4, <3>1, ReadsEndKeeps
  <2>5. FileInv' /\ BufInv'
    BY <1>3, <2>3, <2>4 DEF WatchReadingAck
  <2>6. Streams'
    BY <1>0, <1>3, ReadingAckStreams
  <2> QED
    BY <2>5, <2>6 DEF DccInv
<1>4. CASE WatchSendingRequest(c)
  <2>1. /\ Writes(c, "SENDING_REQUEST") /\ UNCHANGED verdict
        /\ \/ h[c].type = "DCC" /\ UNCHANGED h
           \/ \E next \in {"READING_REQUEST", "SENDING_FILE_INFO",
                           "SENDING_VOICE_REQUEST"}, check \in Checks :
                Moves(c, next, check)
    BY <1>0, <1>4, Sides DEF WatchSendingRequest, Checks, Structs, Types
  <2>2. /\ UNCHANGED <<life, data>> /\ h[c].state = "SENDING_REQUEST"
        /\ verdict[c] = "running"
    BY <1>0, <2>1, Sides, WritesAlone DEF Writing
  <2>3. h[c].type # "DCC"
    BY <1>0, <2>2, Sides DEF TypeFits, Early
  <2>4. PICK next \in {"READING_REQUEST", "SENDING_FILE_INFO",
                       "SENDING_VOICE_REQUEST"}, check \in Checks :
          Moves(c, next, check)
    BY <2>1, <2>3
  <2>5. /\ h'[c].state = next /\ h'[c].type = h[c].type
        /\ h'[c].fileFd = h[c].fileFd /\ h'[c].size = h[c].size /\ h'[o] = h[o]
    BY <1>0, <2>4, Sides, Moved DEF States
  <2>6. /\ h[c].state \notin Sending \cup Getting \cup {"SENDING_FILE_ACK"}
        /\ h[c].state \notin Talking
        /\ h'[c].state \notin Sending \cup Getting
             \cup {"SENDING_FILE_ACK", "READING_FILE_ACK", "READING_VOICE_DATA"}
    BY <2>2, <2>5 DEF Sending, Getting, Talking
  <2>7. FileInv' /\ BufInv'
    BY <1>0, <2>1, <2>2, <2>5, <2>6, PlainKeeps
  <2>8. Streams'
    BY <1>0, <1>4, SendingRequestStreams
  <2> QED
    BY <2>7, <2>8 DEF DccInv
<1>5. CASE WatchReadingType(c) \/ WatchReadingRequest(c)
  <2>1. PICK state \in {"READING_TYPE", "READING_REQUEST"} :
          /\ Reads(c, state)
          /\ \/ \E type \in Types, check \in Checks,
                   next \in {"SENDING_FILE_INFO", "READING_REQUEST",
                             "READING_FILE_INFO", "SENDING_VOICE_ACK"} :
                  Becomes(c, type, next, check)
             \/ Ends(c, "HANDSHAKE") /\ UNCHANGED h
    BY <1>0, <1>5, Sides
    DEF WatchReadingType, WatchReadingRequest, Types, Checks, Structs
  <2>2. state \in DOMAIN Expected
    BY DEF Expected
  <2>3. /\ UNCHANGED <<life, data>> /\ h[c].state = state
        /\ verdict[c] = "running"
    BY <1>0, <2>1, <2>2, Sides, ReadsAlone
  <2>4. ASSUME Ends(c, "HANDSHAKE"), UNCHANGED h
        PROVE  FileInv' /\ BufInv'
    <3>1. "HANDSHAKE" \in Verdicts \ {"running", "DONE"}
      BY DEF Verdicts, Errors
    <3> QED
      BY <2>1, <2>2, <2>4, <3>1, ReadsEndKeeps
  <2>5. ASSUME \E type \in Types, check \in Checks,
                 next \in {"SENDING_FILE_INFO", "READING_REQUEST",
                           "READING_FILE_INFO", "SENDING_VOICE_ACK"} :
                Becomes(c, type, next, check)
        PROVE  FileInv' /\ BufInv'
    <3>1. PICK type \in Types, check \in Checks,
               next \in {"SENDING_FILE_INFO", "READING_REQUEST",
                         "READING_FILE_INFO", "SENDING_VOICE_ACK"} :
            Becomes(c, type, next, check)
      BY <2>5
    <3>2. /\ h'[c].state = next /\ h'[c].fileFd = h[c].fileFd
          /\ h'[c].size = h[c].size /\ h'[o] = h[o] /\ UNCHANGED verdict
      BY <1>0, <3>1, Sides, Retitled DEF States
    <3>3. h[c].type \in {"DCC", "GET"}
      BY <1>0, <2>3, Sides DEF TypeFits, Early, Answering
    <3>4. /\ h[c].state \notin Sending \cup Getting \cup {"SENDING_FILE_ACK"}
          /\ h[c].state \notin Talking
          /\ h'[c].state \notin Sending \cup Getting
               \cup {"SENDING_FILE_ACK", "READING_FILE_ACK",
                     "READING_VOICE_DATA"}
      BY <2>3, <3>2 DEF Sending, Getting, Talking
    <3>5. verdict'[c] = "running" /\ verdict'[o] = verdict[o]
      BY <2>3, <3>2
    <3> QED
      BY <1>0, <2>3, <3>2, <3>3, <3>4, <3>5, PlainKeeps
  <2>6. FileInv' /\ BufInv'
    BY <2>1, <2>4, <2>5
  <2>7. Streams'
    BY <1>0, <1>5, ReadingTypeStreams, ReadingRequestStreams
  <2> QED
    BY <2>6, <2>7 DEF DccInv
<1>6. CASE HandshakeFails(c)
  BY <1>0, <1>6, HandshakeFailsKeeps, HandshakeFailsStreams DEF DccInv
<1> QED
  BY <1>1, <1>2, <1>3, <1>4, <1>5, <1>6 DEF Handshake

LEMMA ListenKeeps ==
  ASSUME DccInv, TypeInv', Listen
  PROVE  DccInv'
<1>1. Streams /\ FileInv /\ BufInv /\ "callee" \in Clients
  BY DEF DccInv, Clients
<1>2. /\ UNCHANGED <<h, data, verdict>> /\ life["callee"] = "none"
      /\ life \in [Clients -> {"none", "up", "freed"}]
      /\ \E to \in {"up", "freed"} : life' = [life EXCEPT !["callee"] = to]
  BY <1>1, Sides, Typed DEF Listen, Accept, AcceptFails
<1>3. \A d \in Clients : Open(d)' => Open(d)
  BY <1>2 DEF Open
<1>4. FileInv' /\ BufInv'
  BY <1>1, <1>2, <1>3, Sides, EndsKeep
<1> QED
  BY <1>1, <1>4, ListenStreams DEF DccInv

LEMMA FreeKeeps ==
  ASSUME DccInv, TypeInv', NEW c \in Clients, FreeDcc(c)
  PROVE  DccInv'
<1>1. Streams /\ FileInv /\ BufInv
  BY DEF DccInv
<1>2. /\ UNCHANGED <<h, data, verdict>>
      /\ life \in [Clients -> {"none", "up", "freed"}]
      /\ life' = [life EXCEPT ![c] = "freed"]
  BY <1>1, Sides, Typed DEF FreeDcc
<1>3. \A d \in Clients : Open(d)' => Open(d)
  BY <1>2 DEF Open
<1>4. FileInv' /\ BufInv'
  BY <1>1, <1>2, <1>3, Sides, EndsKeep
<1> QED
  BY <1>1, <1>4, FreeStreams DEF DccInv

LEMMA SetVoiceKeeps ==
  ASSUME DccInv, TypeInv', NEW c \in Clients, SetVoice(c)
  PROVE  DccInv'
<1>1. Streams /\ FileInv /\ BufInv
  BY DEF DccInv
<1>2. /\ verdict[c] = "running" /\ h[c].state = "SENDING_FILE_INFO"
      /\ ~h[c].fileFd /\ UNCHANGED <<life, verdict, data>>
  BY DEF SetVoice
<1>3. h' = [h EXCEPT ![c] = [h[c] EXCEPT !.type = "VOICE",
                               !.state = "SENDING_VOICE_REQUEST"]]
  BY <1>1, Sides DEF SetVoice
<1>4. /\ h'[c] = [h[c] EXCEPT !.type = "VOICE", !.state = "SENDING_VOICE_REQUEST"]
      /\ h'[Other(c)] = h[Other(c)] /\ h[c] \in Structs
  BY <1>1, <1>3, Sides, Typed
<1>5. /\ h'[c].state = "SENDING_VOICE_REQUEST" /\ h'[c].fileFd = h[c].fileFd
      /\ h'[c].size = h[c].size
  BY <1>4 DEF Structs
<1>6. /\ h[c].state \notin Sending \cup Getting \cup {"SENDING_FILE_ACK"}
      /\ h[c].state \notin Talking
      /\ h'[c].state \notin Sending \cup Getting
           \cup {"SENDING_FILE_ACK", "READING_FILE_ACK", "READING_VOICE_DATA"}
  BY <1>2, <1>5 DEF Sending, Getting, Talking
<1>7. verdict'[c] = "running" /\ verdict'[Other(c)] = verdict[Other(c)]
      /\ UNCHANGED <<life, data>>
  BY <1>2
<1>8. FileInv' /\ BufInv'
  BY <1>1, <1>2, <1>4, <1>5, <1>6, <1>7, PlainKeeps
<1> QED
  BY <1>1, <1>8, SetVoiceStreams DEF DccInv

LEMMA TransferEndsKeeps ==
  ASSUME DccInv, TypeInv', NEW c \in Clients,
         \/ WatchSendingFileEnds(c) \/ WatchGettingFileFails(c)
         \/ WatchReadingVoiceDataFails(c)
  PROVE  DccInv'
<1>1. Streams /\ FileInv /\ BufInv
  BY DEF DccInv
<1>2. /\ Streams' /\ UNCHANGED <<h, life, wire, data>>
      /\ h[c].state \in {"SENDING_FILE", "READING_FILE_HEADER",
                         "GETTING_FILE", "READING_VOICE_DATA"}
      /\ Open(c) /\ verdict[c] = "running"
      /\ verdict'[Other(c)] = verdict[Other(c)]
      /\ verdict'[c] \in Verdicts \ {"running"}
      /\ verdict'[c] = "DONE" =>
           /\ h[c].state = "SENDING_FILE"
           /\ h[c].size = 0 \/ (FromFile(c) > 0 /\ ToSend(c) < 1)
  BY <1>1, TransferEndsStreams
<1>3. h[c].size = 0 \/ (FromFile(c) > 0 /\ ToSend(c) < 1) =>
        h[c].offset >= h[c].size
  <2>1. h[c].size \in Nat /\ h[c].offset \in Nat /\ FromFile(c) \in Int
    BY <1>1, Sides, ToSendType DEF Structs
  <2>2. CASE h[c].size = 0
    BY <2>1, <2>2
  <2>3. CASE FromFile(c) > 0 /\ ToSend(c) < 1
    <3>1. ToSend(c) = h[c].size - h[c].offset
      BY <2>1, <2>3 DEF ToSend
    <3> QED
      BY <2>1, <2>3, <3>1
  <2> QED
    BY <2>2, <2>3
<1>4. \A d \in Clients : Open(d)' => Open(d)
  BY <1>1, <1>2, Sides, OtherClient DEF Open
<1>5. UNCHANGED <<h, data>>
  BY <1>2
<1>6. FileInv' /\ BufInv'
  BY <1>1, <1>2, <1>3, <1>4, <1>5, Sides, EndsKeep
<1> QED
  BY <1>2, <1>6 DEF DccInv

\* A conversation's step: what c reads next, or an error.
LEMMA TalkKeeps ==
  ASSUME DccInv, NEW c \in Clients, UNCHANGED <<life, data>>,
         verdict[c] = "running", h[c].type = "VOICE",
         h'[Other(c)] = h[Other(c)], verdict'[Other(c)] = verdict[Other(c)],
         h'[c].type = h[c].type, h'[c].fileFd = h[c].fileFd,
         h'[c].size = h[c].size,
         \/ UNCHANGED h /\ verdict'[c] \in Errors
         \/ /\ UNCHANGED verdict
            /\ h'[c].state \in Talking \cup {"READING_VOICE_ACK"}
            /\ h[c].state \in Talking => h'[c].state \in Talking
            /\ h'[c].state = "READING_VOICE_DATA" => VoiceSound(c)'
  PROVE  FileInv' /\ BufInv'
<1>1. Streams /\ FileInv /\ BufInv
  BY DEF DccInv
<1>2. CASE UNCHANGED h /\ verdict'[c] \in Errors
  <2>1. UNCHANGED <<h, data>>
    BY <1>2
  <2>2. \A d \in Clients : Open(d)' => Open(d)
    BY <1>1, Sides, OtherClient DEF Open
  <2>3. verdict'[c] # "DONE"
    BY <1>2 DEF Errors
  <2> QED
    BY <1>1, <2>1, <2>2, <2>3, Sides, EndsKeep
<1>3. CASE /\ UNCHANGED verdict
           /\ h'[c].state \in Talking \cup {"READING_VOICE_ACK"}
           /\ h[c].state \in Talking => h'[c].state \in Talking
           /\ h'[c].state = "READING_VOICE_DATA" => VoiceSound(c)'
  <2>1. UNCHANGED <<file, resume, got, cut, said, heard>>
    BY DEF data
  <2>2. FileKnown(c)'
    BY <1>3 DEF FileKnown, Talking, Getting, Sending
  <2>3. DoneKnown(c)' /\ DoneGot(c)'
    BY <1>3 DEF DoneKnown, DoneGot
  <2>4. h[c].state \notin Sending
    BY <1>1, Sides DEF TypeFits
  <2>5. FileInv'
    BY <1>1, <1>3, <2>1, <2>2, <2>3, <2>4, FileStep
  <2>6. HeaderSound(c)'
    BY <1>3 DEF HeaderSound, Talking
  <2>7. VoiceSound(c)'
    <3>1. CASE h'[c].state = "READING_VOICE_DATA"
      BY <1>3, <3>1
    <3>2. CASE h'[c].state # "READING_VOICE_DATA"
      <4>1. VoiceSound(c)
        BY <1>1 DEF BufInv
      <4> QED
        BY <1>3, <2>1, <3>2, <4>1 DEF VoiceSound
    <3> QED
      BY <3>1, <3>2
  <2>8. Open(Other(c))' => Open(Other(c))
    BY DEF Open
  <2>9. BufInv'
    BY <1>1, <2>1, <2>6, <2>7, <2>8, BufStep
  <2> QED
    BY <2>5, <2>9
<1> QED
  BY <1>2, <1>3

LEMMA TalkStepKeeps ==
  ASSUME DccInv, TypeInv', NEW c \in Clients,
         \/ WatchSendingVoiceRequest(c) \/ WatchSendingVoiceAck(c)
         \/ WatchReadingVoiceAck(c) \/ WatchReadingVoiceHeader(c)
         \/ WatchReadingVoiceSize(c)
  PROVE  DccInv'
<1>1. Streams /\ FileInv /\ BufInv
  BY DEF DccInv
<1>2. {"REFUSED", "HANDSHAKE", "NET"} \subseteq Errors
  BY DEF Errors
<1>3. CASE WatchSendingVoiceRequest(c)
  <2>1. /\ Streams' /\ UNCHANGED <<life, verdict, data>>
        /\ h[c].state = "SENDING_VOICE_REQUEST"
        /\ h'[c].state = "READING_VOICE_ACK"
    BY <1>1, <1>3, SendingVoiceRequestStreams
  <2>2. Moves(c, "READING_VOICE_ACK", "READ") /\ verdict[c] = "running"
    BY <1>3 DEF WatchSendingVoiceRequest, Writes, Polled
  <2>3. h'[c].type = h[c].type /\ h'[c].fileFd = h[c].fileFd
        /\ h'[c].size = h[c].size /\ h'[Other(c)] = h[Other(c)]
    BY <1>1, <2>2, Sides, Moved DEF States, Checks
  <2>4. h[c].type = "VOICE" /\ h[c].state \notin Talking
    BY <1>1, <2>1, Sides DEF TypeFits, Talking
  <2>5. FileInv' /\ BufInv'
    BY <2>1, <2>2, <2>3, <2>4, TalkKeeps
  <2> QED
    BY <2>1, <2>5 DEF DccInv
<1>4. CASE WatchSendingVoiceAck(c)
  <2>1. /\ Streams' /\ UNCHANGED <<life, verdict, data>>
        /\ h[c].state = "SENDING_VOICE_ACK"
        /\ h'[c].state = "READING_VOICE_HEADER" /\ h'[c].type = h[c].type
        /\ h'[c].fileFd = h[c].fileFd /\ h'[c].size = h[c].size
        /\ h'[Other(c)] = h[Other(c)] /\ h[c].type = "VOICE"
    BY <1>1, <1>4, SendingVoiceAckStreams
  <2>2. verdict[c] = "running" /\ h'[c].state \in Talking
    BY <1>4, <2>1 DEF WatchSendingVoiceAck, Writes, Polled, Talking
  <2>3. FileInv' /\ BufInv'
    BY <2>1, <2>2, TalkKeeps
  <2> QED
    BY <2>1, <2>3 DEF DccInv
<1>5. CASE WatchReadingVoiceAck(c)
  <2>1. /\ Streams' /\ UNCHANGED <<life, data>>
        /\ h[c].state = "READING_VOICE_ACK" /\ verdict[c] = "running"
        /\ h'[Other(c)] = h[Other(c)] /\ verdict'[Other(c)] = verdict[Other(c)]
        /\ h'[c].type = h[c].type /\ h'[c].fileFd = h[c].fileFd
        /\ h'[c].size = h[c].size /\ h[c].type = "VOICE"
        /\ \/ UNCHANGED h /\ verdict'[c] = "REFUSED"
           \/ h'[c].state = "READING_VOICE_HEADER" /\ UNCHANGED verdict
    BY <1>1, <1>5, ReadingVoiceAckStreams
  <2>2. "READING_VOICE_HEADER" \in Talking
    BY DEF Talking
  <2>3. FileInv' /\ BufInv'
    BY <1>2, <2>1, <2>2, TalkKeeps
  <2> QED
    BY <2>1, <2>3 DEF DccInv
<1>6. CASE WatchReadingVoiceHeader(c)
  <2>1. /\ Streams' /\ UNCHANGED <<life, data>>
        /\ h[c].state = "READING_VOICE_HEADER" /\ verdict[c] = "running"
        /\ h'[Other(c)] = h[Other(c)] /\ verdict'[Other(c)] = verdict[Other(c)]
        /\ h'[c].type = h[c].type /\ h'[c].fileFd = h[c].fileFd
        /\ h'[c].size = h[c].size /\ h[c].type = "VOICE"
        /\ \/ UNCHANGED h /\ verdict'[c] = "HANDSHAKE"
           \/ h'[c].state = "READING_VOICE_SIZE" /\ UNCHANGED verdict
    BY <1>1, <1>6, ReadingVoiceHeaderStreams
  <2>2. "READING_VOICE_SIZE" \in Talking
    BY DEF Talking
  <2>3. FileInv' /\ BufInv'
    BY <1>2, <2>1, <2>2, TalkKeeps
  <2> QED
    BY <2>1, <2>3 DEF DccInv
<1>7. CASE WatchReadingVoiceSize(c)
  <2>1. /\ Streams' /\ UNCHANGED <<life, data>>
        /\ h[c].state = "READING_VOICE_SIZE" /\ verdict[c] = "running"
        /\ h'[Other(c)] = h[Other(c)] /\ verdict'[Other(c)] = verdict[Other(c)]
        /\ h'[c].type = h[c].type /\ h'[c].fileFd = h[c].fileFd
        /\ h'[c].size = h[c].size /\ h[c].type = "VOICE"
        /\ \/ UNCHANGED h /\ verdict'[c] = "NET"
           \/ /\ h'[c].state = "READING_VOICE_DATA" /\ UNCHANGED verdict
              /\ VoiceSound(c)'
    BY <1>1, <1>7, ReadingVoiceSizeStreams
  <2>2. "READING_VOICE_DATA" \in Talking
    BY DEF Talking
  <2>3. FileInv' /\ BufInv'
    BY <1>2, <2>1, <2>2, TalkKeeps
  <2> QED
    BY <2>1, <2>3 DEF DccInv
<1> QED
  BY <1>3, <1>4, <1>5, <1>6, <1>7

LEMMA ReadingVoiceDataKeeps ==
  ASSUME DccInv, TypeInv', NEW c \in Clients, WatchReadingVoiceData(c)
  PROVE  DccInv'
<1> DEFINE o == Other(c)
<1>1. Streams /\ FileInv /\ BufInv
  BY DEF DccInv
<1>2. /\ Streams' /\ h[c].type = "VOICE" /\ VoiceSound(c)' /\ VoiceIntact'
      /\ h'[c].state \in Talking /\ heard'[o] = heard[o]
  BY <1>1, ReadingVoiceDataStreams
<1>3. /\ h[c].state = "READING_VOICE_DATA" /\ verdict[c] = "running"
      /\ UNCHANGED <<life, verdict, file, resume, got, cut, said>>
      /\ h'[o] = h[o] /\ h'[c].type = h[c].type /\ h'[c].fileFd = h[c].fileFd
      /\ h'[c].size = h[c].size
  BY <1>1, Sides, VoiceDataMoves
<1>4. FileInv'
  <2>1. FileKnown(c)'
    BY <1>2, <1>3 DEF FileKnown, Talking, Getting, Sending
  <2>2. DoneKnown(c)' /\ DoneGot(c)'
    BY <1>3 DEF DoneKnown, DoneGot
  <2>3. h[c].state \notin Sending
    BY <1>3 DEF Sending
  <2> QED
    BY <1>1, <1>3, <2>1, <2>2, <2>3, FileStep
<1>5. BufInv'
  <2>1. o \in Clients /\ Other(o) = c /\ \A d \in Clients : d = c \/ d = o
    BY OtherClient
  <2>2. HeaderSound(o) /\ VoiceSound(o)
    BY <1>1, <2>1 DEF BufInv
  <2>3. HeaderSound(o)' /\ VoiceSound(o)'
    <3>1. HeaderSound(o)'
      BY <1>3, <2>2 DEF HeaderSound, Open
    <3>2. VoiceSound(o)'
      BY <1>2, <1>3, <2>2 DEF VoiceSound, Open
    <3> QED
      BY <3>1, <3>2
  <2>4. HeaderSound(c)'
    BY <1>2 DEF HeaderSound, Talking
  <2> HIDE DEF o
  <2> QED
    BY <1>2, <2>1, <2>3, <2>4 DEF BufInv
<1> QED
  BY <1>2, <1>4, <1>5 DEF DccInv

LEMMA VoiceSendKeeps ==
  ASSUME DccInv, TypeInv', NEW c \in Clients, VoiceSend(c)
  PROVE  DccInv'
<1> DEFINE o == Other(c)
<1>1. Streams /\ FileInv /\ BufInv
  BY DEF DccInv
<1>2. Streams' /\ h[c].state \in Talking /\ (cut => cut')
  BY <1>1, VoiceSendStreams
<1>3. PICK n \in Nat : said' = [said EXCEPT ![c] = Append(@, n)]
  BY <1>1, VoiceSendStreams
<1>4. UNCHANGED <<h, life, verdict, file, resume, got, heard>>
  BY DEF VoiceSend
<1>5. o \in Clients /\ Other(o) = c /\ o # c
      /\ \A d \in Clients : d = c \/ d = o
  BY OtherClient
<1>6. /\ said[c] \in Seq(Nat) /\ said'[c] = Append(said[c], n)
      /\ said'[o] = said[o]
  <2>1. said \in [Clients -> Seq(Nat)]
    BY <1>1, Sides, Typed
  <2> QED
    BY <1>3, <1>5, <2>1
<1>7. /\ Len(said[c]) \in Nat /\ Len(said'[c]) = Len(said[c]) + 1
      /\ \A i \in 1..Len(said[c]) : said'[c][i] = said[c][i]
  BY <1>6, AppendProperties
<1>8. FileInv'
  <2>1. FileKnown(c) /\ DoneKnown(c) /\ DoneGot(c)
    BY <1>1 DEF FileInv
  <2>2. Pos' = Pos
    BY <1>4 DEF Pos
  <2>3. FileKnown(c)'
    BY <1>2, <1>4, <2>1, <2>2 DEF FileKnown
  <2>4. DoneKnown(c)' /\ DoneGot(c)'
    BY <1>2, <1>4, <2>1, <2>2 DEF DoneKnown, DoneGot
  <2> QED
    BY <1>1, <1>2, <1>4, <2>3, <2>4, FileStep
<1>9. \A d \in Clients : HeaderSound(d)'
  BY <1>1, <1>2, <1>4 DEF BufInv, HeaderSound, Open
<1>10. VoiceSound(c)'
  <2>1. VoiceSound(c)
    BY <1>1 DEF BufInv
  <2> QED
    BY <1>2, <1>4, <1>6, <2>1 DEF VoiceSound, Open
<1>11. Len(heard[o]) \in Nat /\ Len(heard[c]) \in Nat
       /\ heard[o] \in Seq(Seq(Nat)) /\ heard[c] \in Seq(Seq(Nat))
  BY <1>1, <1>5, Sides, Typed
<1>12. VoiceSound(o)'
  <2>1. VoiceSound(o)
    BY <1>1, <1>5 DEF BufInv
  <2>2. h[o].state \notin Talking => said'[o] = <<>> /\ heard'[o] = <<>>
    BY <1>4, <1>6, <2>1 DEF VoiceSound
  <2>3. ASSUME Open(o)', ~cut', h'[o].state = "READING_VOICE_DATA"
        PROVE  /\ Len(h'[o].buf) = h'[o].chunkOffset
               /\ Len(heard'[o]) < Len(said'[c])
               /\ h'[o].chunkSize = said'[c][Len(heard'[o]) + 1]
               /\ \A i \in DOMAIN h'[o].buf : h'[o].buf[i].val = Len(heard'[o]) + 1
    <3>1. Open(o) /\ ~cut /\ h[o].state = "READING_VOICE_DATA"
      BY <1>2, <1>4, <2>3 DEF Open
    <3>2. /\ Len(h[o].buf) = h[o].chunkOffset /\ Len(heard[o]) < Len(said[c])
          /\ h[o].chunkSize = said[c][Len(heard[o]) + 1]
          /\ \A i \in DOMAIN h[o].buf : h[o].buf[i].val = Len(heard[o]) + 1
      BY <1>5, <2>1, <3>1 DEF VoiceSound
    <3>3. Len(heard[o]) + 1 \in 1..Len(said[c])
      BY <1>7, <1>11, <3>2
    <3>4. said'[c][Len(heard[o]) + 1] = said[c][Len(heard[o]) + 1]
      BY <1>7, <3>3
    <3>5. Len(heard[o]) < Len(said'[c])
      BY <1>7, <1>11, <3>2
    <3> QED
      BY <1>4, <3>2, <3>4, <3>5
  <2> HIDE DEF o
  <2> QED
    BY <1>4, <1>5, <2>2, <2>3 DEF VoiceSound
<1>13. VoiceIntact'
  <2>1. SUFFICES ASSUME ~cut', NEW d \in Clients, NEW k \in DOMAIN heard'[d]
                 PROVE  /\ k <= Len(said'[Other(d)])
                        /\ heard'[d][k] = [i \in 1..said'[Other(d)][k] |-> k]
    BY DEF VoiceIntact
  <2>2. k \in DOMAIN heard[d] /\ ~cut
    BY <1>2, <1>4, <2>1
  <2>3. k <= Len(said[Other(d)])
        /\ heard[d][k] = [i \in 1..said[Other(d)][k] |-> k]
    BY <1>1, <2>2 DEF BufInv, VoiceIntact
  <2>4. k \in Nat /\ k >= 1
    BY <1>5, <1>11, <2>2
  <2>5. CASE d = c
    BY <1>4, <1>6, <2>3, <2>5
  <2>6. CASE d = o
    <3>1. k <= Len(said[c]) /\ heard[d][k] = [i \in 1..said[c][k] |-> k]
      BY <1>5, <2>3, <2>6
    <3>2. said'[c][k] = said[c][k] /\ k <= Len(said'[c])
      BY <1>7, <2>4, <3>1
    <3>3. Other(d) = c
      BY <1>5, <2>6
    <3> QED
      BY <1>4, <3>1, <3>2, <3>3
  <2> QED
    BY <1>5, <2>5, <2>6
<1> HIDE DEF o
<1>14. BufInv'
  BY <1>5, <1>9, <1>10, <1>12, <1>13 DEF BufInv
<1> QED
  BY <1>2, <1>8, <1>14 DEF DccInv

LEMMA ModZero ==
  ASSUME NEW a \in Int, NEW w \in Nat \ {0}, -w < a, a < w, a % w = 0
  PROVE  a = 0
OBVIOUS

\* A step towards the transfer of a file, or of its sender.
LEMMA FileBufKeeps ==
  ASSUME BufInv, NEW c \in Clients, UNCHANGED <<said, heard>>, cut => cut',
         h'[Other(c)] = h[Other(c)], Open(Other(c))' => Open(Other(c)),
         h[c].state \notin Talking, h'[c].state \notin Talking, HeaderSound(c)'
  PROVE  BufInv'
<1>1. VoiceSound(c)
  BY DEF BufInv
<1>2. VoiceSound(c)'
  BY <1>1 DEF VoiceSound, Talking
<1> QED
  BY <1>2, BufStep

LEMMA SendingFileInfoKeeps ==
  ASSUME DccInv, TypeInv', NEW c \in Clients, WatchSendingFileInfo(c)
  PROVE  DccInv'
<1>1. Streams /\ FileInv /\ BufInv /\ FileKnown(c)
  BY DEF DccInv, FileInv
<1>2. Writes(c, "SENDING_FILE_INFO") /\ "SENDING_FILE_INFO" \in Writing
      /\ Moves(c, "READING_FILE_ACK", "READ") /\ UNCHANGED verdict
  BY DEF WatchSendingFileInfo, Writing
<1>3. /\ UNCHANGED <<life, data>> /\ h[c].state = "SENDING_FILE_INFO"
      /\ verdict[c] = "running" /\ Prepared(c)
  BY <1>1, <1>2, Sides, WritesAlone
<1>4. /\ h'[c].state = "READING_FILE_ACK" /\ h'[c].type = h[c].type
      /\ h'[c].fileFd = h[c].fileFd /\ h'[c].size = h[c].size
      /\ h'[Other(c)] = h[Other(c)]
  BY <1>1, <1>2, Sides, Moved DEF States, Checks
<1>5. h[c].fileFd /\ h[c].type = "SEND"
  BY <1>1, <1>3, Sides DEF Prepared, TypeFits
<1>6. FileKnown(c)'
  BY <1>1, <1>3, <1>4, <1>5 DEF FileKnown, Sending, Getting, data
<1>7. DoneKnown(c)' /\ DoneGot(c)'
  BY <1>2, <1>3 DEF DoneKnown, DoneGot
<1>8. FileInv'
  BY <1>1, <1>2, <1>3, <1>4, <1>6, <1>7, FileStep DEF data, Sending
<1>9. HeaderSound(c)' /\ h[c].state \notin Talking /\ h'[c].state \notin Talking
  BY <1>3, <1>4 DEF HeaderSound, Talking
<1>10. BufInv'
  BY <1>1, <1>2, <1>3, <1>4, <1>9, FileBufKeeps DEF data, Open
<1> QED
  BY <1>1, <1>8, <1>10, SendingFileInfoStreams DEF DccInv

LEMMA ReadingFileInfoKeeps ==
  ASSUME DccInv, TypeInv', NEW c \in Clients, WatchReadingFileInfo(c)
  PROVE  DccInv'
<1>1. Streams /\ FileInv /\ BufInv /\ FileKnown(c)
  BY DEF DccInv, FileInv
<1>2. Reads(c, "READING_FILE_INFO") /\ "READING_FILE_INFO" \in DOMAIN Expected
      /\ UNCHANGED verdict
  BY DEF WatchReadingFileInfo, Expected
<1>3. /\ UNCHANGED <<life, data>> /\ h[c].state = "READING_FILE_INFO"
      /\ verdict[c] = "running" /\ wire[c] # <<>>
  BY <1>1, <1>2, Sides, ReadsAlone
<1>4. wire[c][1] \in Items
  <2>1. wire[c] \in Seq(Items)
    BY <1>1, Sides, Typed
  <2> QED
    BY <1>3, <2>1
<1>5. PICK n \in Numbers(wire[c][1], "info") :
        Becoming(c, [h[c] EXCEPT !.size = n, !.check = "WRITE",
                                 !.state = "SENDING_FILE_ACK"])
  BY <1>1, <1>4, Sides, Typed, ReadingFileInfoBecomes
<1>6. /\ h'[c] = [h[c] EXCEPT !.size = n, !.check = "WRITE",
                              !.state = "SENDING_FILE_ACK"]
      /\ h'[Other(c)] = h[Other(c)] /\ h[c] \in Structs
  BY <1>1, <1>5, Sides DEF Becoming
<1>7. /\ h'[c].state = "SENDING_FILE_ACK" /\ h'[c].type = h[c].type
      /\ h'[c].fileFd = h[c].fileFd
  BY <1>6 DEF Structs
<1>8. h[c].type = "GET" /\ ~h[c].fileFd
  <2>1. h[c].type = "GET"
    BY <1>1, <1>3, Sides DEF TypeFits, Answering
  <2> QED
    BY <1>1, <1>3, <2>1 DEF FileKnown, Getting
<1>9. FileKnown(c)'
  BY <1>7, <1>8 DEF FileKnown, Sending, Getting
<1>10. DoneKnown(c)' /\ DoneGot(c)'
  BY <1>2, <1>3 DEF DoneKnown, DoneGot
<1>11. FileInv'
  BY <1>1, <1>2, <1>3, <1>6, <1>9, <1>10, FileStep DEF data, Sending
<1>12. HeaderSound(c)' /\ h[c].state \notin Talking /\ h'[c].state \notin Talking
  BY <1>3, <1>7 DEF HeaderSound, Talking
<1>13. BufInv'
  BY <1>1, <1>2, <1>3, <1>6, <1>12, FileBufKeeps DEF data, Open
<1> QED
  BY <1>1, <1>11, <1>13, ReadingFileInfoStreams DEF DccInv

LEMMA AnswerFileKeeps ==
  ASSUME DccInv, TypeInv', NEW c \in Clients, AnswerFile(c)
  PROVE  DccInv'
<1> DEFINE o == Other(c)
<1>1. Streams /\ FileInv /\ BufInv
  BY DEF DccInv
<1>2. /\ Streams' /\ h[c].state = "SENDING_FILE_ACK" /\ ~cut
      /\ h[o].state = "READING_FILE_ACK"
      /\ h'[o] = h[o] /\ h'[c].state = h[c].state
      /\ h'[c].type = "GET" /\ h'[c].size = h[c].size
      /\ h'[c].fileFd /\ h'[c].offset = resume'
  BY <1>1, AnswerFileStreams
<1>3. o \in Clients /\ Other(o) = c /\ \A d \in Clients : d = c \/ d = o
  BY OtherClient
<1>4. verdict[c] = "running"
      /\ UNCHANGED <<life, verdict, wire, file, got, cut, said, heard>>
  BY DEF AnswerFile
<1>5. got = <<>> /\ Len(got) = 0
  BY <1>1, <1>2, <1>3, NothingGot DEF Sending
<1>6. resume' \in Nat /\ resume' \in 0..(Word - 1) /\ Word \in Nat
  <2>1. h \in [Clients -> Structs]
    BY <1>1, Sides, Typed
  <2>2. Word \in Nat
    BY SizesAssumption
  <2>3. resume' \in Nat /\ resume' \in 0..(Word - 1)
    BY <2>1, AnswerFileBecomes
  <2> QED
    BY <2>2, <2>3
<1>7. Pos' = resume'
  <2>1. Len(got') = 0
    BY <1>4, <1>5
  <2>2. Pos' = resume' + Len(got')
    BY DEF Pos
  <2>3. resume' \in Nat
    BY <1>6
  <2>4. Pos' = resume' + 0
    BY <2>1, <2>2
  <2>5. \A n \in Nat : n + 0 = n
    OBVIOUS
  <2> QED
    BY <2>3, <2>4, <2>5
<1>8. NumbersFit' /\ NoFileYet' /\ GotIntact'
  <2>1. NumbersFit'
    BY <1>1, <1>4, <1>6 DEF FileInv, NumbersFit
  <2>2. NoFileYet' /\ GotIntact'
    BY <1>4, <1>5 DEF NoFileYet, GotIntact
  <2> QED
    BY <2>1, <2>2
<1>9. FileKnown(c)' /\ DoneKnown(c)' /\ DoneGot(c)'
  <2>1. FileKnown(c)'
    BY <1>2, <1>7 DEF FileKnown, Sending, Getting
  <2> QED
    BY <1>4, <2>1 DEF DoneKnown, DoneGot
<1>10. FileKnown(o)' /\ DoneKnown(o)' /\ DoneGot(o)'
  <2>1. FileKnown(o) /\ DoneKnown(o) /\ h[o].type = "SEND"
    BY <1>1, <1>2, <1>3, Sides DEF FileInv, TypeFits
  <2>2. FileKnown(o)'
    BY <1>2, <1>4, <2>1 DEF FileKnown, Sending, Getting
  <2> QED
    BY <1>2, <1>4, <2>1, <2>2 DEF DoneKnown, DoneGot
<1> HIDE DEF o
<1>11. FileInv'
  BY <1>3, <1>8, <1>9, <1>10 DEF FileInv
<1>12. HeaderSound(c)' /\ h[c].state \notin Talking /\ h'[c].state \notin Talking
  BY <1>2 DEF HeaderSound, Talking
<1>13. BufInv'
  BY <1>1, <1>2, <1>4, <1>12, FileBufKeeps DEF Open, o
<1> QED
  BY <1>2, <1>11, <1>13 DEF DccInv

LEMMA FillFileInfoKeeps ==
  ASSUME DccInv, TypeInv', NEW c \in Clients, FillFileInfo(c)
  PROVE  DccInv'
<1> DEFINE o == Other(c)
<1>1. Streams /\ FileInv /\ BufInv
  BY DEF DccInv
<1>2. /\ Streams' /\ h[c].state \in Dialling \cup {"SENDING_FILE_INFO"}
      /\ ~cut /\ h[o].state \notin Getting \cup {"READING_FILE_ACK"}
      /\ h'[o] = h[o] /\ h'[c].state = h[c].state
      /\ h'[c].type = "SEND" /\ h[c].type = "SEND"
      /\ h'[c].fileFd /\ h'[c].size = file'.stat
      /\ h'[c].offset = h[c].offset
  BY <1>1, FillFileInfoStreams
<1>3. o \in Clients /\ Other(o) = c /\ \A d \in Clients : d = c \/ d = o
  BY OtherClient
<1>4. verdict[c] = "running"
      /\ UNCHANGED <<life, verdict, wire, resume, got, cut, said, heard>>
  BY DEF FillFileInfo
<1>5. h[o].type # "SEND"
  BY <1>1, <1>2, Sides, AgreeBoth, Typed DEF Agree, Roles
<1>6. h[c].state \notin Sending /\ h[o].state \notin Sending
  BY <1>1, <1>2, <1>5, Sides DEF TypeFits, Sending, Dialling
<1>7. got = <<>>
  BY <1>1, <1>6, NothingGot
<1>8. /\ file' \in [stat : 0..(Word - 1), actual : 0..(Word - 1)]
      /\ Word \in Nat
  BY <1>1, Sides, Typed, FillFileInfoBecomes, SizesAssumption
<1>9. NumbersFit' /\ NoFileYet' /\ GotIntact'
  <2>1. NumbersFit'
    BY <1>1, <1>4, <1>8 DEF FileInv, NumbersFit
  <2>2. NoFileYet' /\ GotIntact'
    BY <1>4, <1>7 DEF NoFileYet, GotIntact
  <2> QED
    BY <2>1, <2>2
<1>10. FileKnown(c)' /\ DoneKnown(c)' /\ DoneGot(c)'
  <2>1. FileKnown(c)'
    BY <1>2 DEF FileKnown, Sending, Getting, Dialling
  <2> QED
    BY <1>4, <2>1 DEF DoneKnown, DoneGot
<1>11. FileKnown(o)' /\ DoneKnown(o)' /\ DoneGot(o)'
  <2>1. FileKnown(o) /\ DoneKnown(o)
    BY <1>1, <1>3 DEF FileInv
  <2>2. Pos' = Pos
    BY <1>4 DEF Pos
  <2>3. FileKnown(o)'
    BY <1>2, <1>4, <1>5, <1>6, <2>1, <2>2 DEF FileKnown
  <2>4. verdict[o] # "DONE"
    BY <1>2, <1>6, <2>1 DEF DoneKnown, Sending
  <2> QED
    BY <1>4, <2>3, <2>4 DEF DoneKnown, DoneGot
<1>12. HeaderSound(c)' /\ h[c].state \notin Talking /\ h'[c].state \notin Talking
  BY <1>2 DEF HeaderSound, Talking, Dialling
<1> HIDE DEF o
<1>13. FileInv'
  BY <1>3, <1>9, <1>10, <1>11 DEF FileInv
<1>14. BufInv'
  BY <1>1, <1>2, <1>4, <1>12, FileBufKeeps DEF Open, o
<1> QED
  BY <1>2, <1>13, <1>14 DEF DccInv

LEMMA SendingFileAckKeeps ==
  ASSUME DccInv, TypeInv', NEW c \in Clients, WatchSendingFileAck(c)
  PROVE  DccInv'
<1> DEFINE o == Other(c)
<1>1. /\ Streams /\ FileInv /\ BufInv /\ FileKnown(c)
      /\ o \in Clients /\ Other(o) = c /\ FileKnown(o)
  BY OtherClient DEF DccInv, FileInv
<1>2. Writes(c, "SENDING_FILE_ACK") /\ "SENDING_FILE_ACK" \in Writing
      /\ UNCHANGED verdict
  BY DEF WatchSendingFileAck, Writing
<1>3. /\ UNCHANGED <<life, data>> /\ h[c].state = "SENDING_FILE_ACK"
      /\ verdict[c] = "running" /\ Answered(c) /\ Open(c)
  BY <1>1, <1>2, Sides, WritesAlone
<1>4. /\ h'[c].state = "READING_FILE_HEADER" /\ h'[c].type = h[c].type
      /\ h'[c].fileFd = h[c].fileFd /\ h'[c].size = h[c].size
      /\ h'[c].offset = h[c].offset /\ h'[c].buf = <<>> /\ h'[o] = h[o]
  <2>1. Becoming(c, [h[c] EXCEPT !.state = "READING_FILE_HEADER",
                       !.check = "READ", !.chunkSize = 2, !.chunkOffset = 0,
                       !.buf = <<>>])
    BY <1>1, Sides, Typed, SendingFileAckBecomes
  <2>2. /\ h'[c] = [h[c] EXCEPT !.state = "READING_FILE_HEADER",
                      !.check = "READ", !.chunkSize = 2, !.chunkOffset = 0,
                      !.buf = <<>>]
        /\ h'[o] = h[o] /\ h[c] \in Structs
    BY <1>1, <2>1, Sides DEF Becoming
  <2> QED
    BY <2>2 DEF Structs
<1>5. h[c].fileFd /\ h[c].type = "GET" /\ h[o].state = "READING_FILE_ACK"
      /\ h[o].type = "SEND"
  BY <1>1, <1>3, Sides DEF Answered, TypeFits, Answering, Meets
<1>6. ~cut
  BY <1>1, <1>3, <1>5, Sides, NotCut DEF Answering
<1>7. h[c].size = file.stat
  <2>1. PICK x \in Nodes, y \in Nodes :
          /\ Stands(c, x) /\ Stops(o, y) /\ Path(x, wire[c], y, said[o])
    BY <1>1, <1>3, <1>6 DEF Streams, StreamLeads
  <2>2. x = Node("told", 0, h[c].size)
    BY <1>3, <2>1 DEF Stands
  <2>3. y = Node("told", 0, h[o].size)
    BY <1>5, <2>1 DEF Stops, Wrote, Broken
  <2>4. h[c].size \in Nat /\ h[o].size \in Nat /\ wire[c] \in Seq(Items)
    BY <1>1, Sides, Typed DEF Structs
  <2>5. x.at = "told" /\ y.at = "told" /\ x.pos = h[c].size /\ y.pos = h[o].size
    BY <2>2, <2>3, <2>4 DEF Node
  <2>6. x = y
    BY <2>1, <2>4, <2>5, PathStill
  <2>7. h[o].size = file.stat
    BY <1>1, <1>5 DEF FileKnown
  <2> QED
    BY <2>5, <2>6, <2>7
<1>8. FileKnown(c)'
  <2>1. UNCHANGED file /\ Pos' = Pos
    BY <1>3 DEF data, Pos
  <2>2. h[c].offset = Pos
    BY <1>1, <1>3, <1>5, <1>6 DEF FileKnown
  <2> QED
    BY <1>4, <1>5, <1>7, <2>1, <2>2 DEF FileKnown, Sending, Getting
<1>9. DoneKnown(c)' /\ DoneGot(c)'
  BY <1>2, <1>3 DEF DoneKnown, DoneGot
<1>10. FileInv'
  BY <1>1, <1>2, <1>3, <1>4, <1>8, <1>9, FileStep DEF data, Sending
<1>11. HeaderSound(c)' /\ h[c].state \notin Talking /\ h'[c].state \notin Talking
  BY <1>3, <1>4 DEF HeaderSound, Talking
<1>12. BufInv'
  BY <1>1, <1>2, <1>3, <1>4, <1>11, FileBufKeeps DEF data, Open
<1> QED
  BY <1>1, <1>10, <1>12, SendingFileAckStreams DEF DccInv

LEMMA ReadingFileAckKeeps ==
  ASSUME DccInv, TypeInv', NEW c \in Clients, WatchReadingFileAck(c)
  PROVE  DccInv'
<1>1. Streams /\ FileInv /\ BufInv /\ FileKnown(c)
  BY DEF DccInv, FileInv
<1>2. /\ Streams' /\ ~cut /\ h[Other(c)].state = "READING_FILE_HEADER"
      /\ h[c].state = "READING_FILE_ACK"
      /\ h'[Other(c)] = h[Other(c)] /\ h'[c].state = "SENDING_FILE_HEADER"
      /\ h'[c].type = "SEND" /\ h'[c].type = h[c].type
      /\ h'[c].fileFd = h[c].fileFd
      /\ h'[c].size = h[c].size /\ h'[c].offset = resume
  BY <1>1, ReadingFileAckStreams
<1>3. UNCHANGED <<life, verdict, data>> /\ verdict[c] = "running"
  BY DEF WatchReadingFileAck, Reads, Polled
<1>4. UNCHANGED <<file, resume, got, cut, said, heard>> /\ resume \in Nat
  BY <1>1, <1>3, Sides, Typed DEF data
<1>5. h[c].fileFd /\ h[c].size = file.stat
  BY <1>1, <1>2 DEF FileKnown
<1>6. FileKnown(c)'
  BY <1>2, <1>4, <1>5 DEF FileKnown, Sending, Getting
<1>7. DoneKnown(c)' /\ DoneGot(c)'
  BY <1>3 DEF DoneKnown, DoneGot
<1>8. FileInv'
  BY <1>1, <1>2, <1>3, <1>4, <1>6, <1>7, FileStep DEF Sending
<1>9. HeaderSound(c)' /\ h[c].state \notin Talking /\ h'[c].state \notin Talking
  BY <1>2 DEF HeaderSound, Talking
<1>10. BufInv'
  BY <1>1, <1>2, <1>3, <1>4, <1>9, FileBufKeeps DEF Open
<1> QED
  BY <1>2, <1>8, <1>10 DEF DccInv

LEMMA SendingFileHeaderKeeps ==
  ASSUME DccInv, TypeInv', NEW c \in Clients, WatchSendingFileHeader(c)
  PROVE  DccInv'
<1>1. Streams /\ FileInv /\ BufInv /\ FileKnown(c)
  BY DEF DccInv, FileInv
<1>2. /\ Streams' /\ UNCHANGED <<life, verdict, data>>
      /\ h[c].state = "SENDING_FILE_HEADER" /\ verdict[c] = "running"
      /\ h'[Other(c)] = h[Other(c)] /\ h'[c].state = "SENDING_FILE"
      /\ h'[c].type = h[c].type /\ h'[c].fileFd = h[c].fileFd
      /\ h'[c].size = h[c].size /\ h'[c].offset = h[c].offset
      /\ h'[c].chunkSize = ChunkToSend(c) /\ h'[c].chunkOffset = 0
  BY <1>1, SendingFileHeaderStreams
<1>3. UNCHANGED <<file, resume, got, cut, said, heard>>
  BY <1>2 DEF data
<1>4. h[c].fileFd /\ h[c].type = "SEND" /\ h[c].size = file.stat
  BY <1>1, <1>2, Sides DEF FileKnown, TypeFits, Sending
<1>5. ASSUME ~cut, ChunkToSend(c) = 0
      PROVE  h[c].offset = file.stat
  <2>1. /\ h[c].size \in Nat /\ h[c].offset \in Nat /\ resume \in Nat
        /\ Word \in Nat \ {0} /\ MaxChunk \in Nat \ {0}
    BY <1>1, Sides, Typed, SizesAssumption DEF Structs
  <2>2. file.stat < Word /\ resume < Word
    BY <1>1 DEF FileInv, NumbersFit
  <2>3. h[c].offset = resume \/ h[c].offset <= file.stat
    BY <1>1, <1>2, <1>5 DEF FileKnown, Sending
  <2> DEFINE left == (h[c].size - h[c].offset) % Word
  <2>4. left \in Int
    BY <2>1
  <2>5. ChunkToSend(c) = Least({left, MaxChunk})
    BY DEF ChunkToSend
  <2> HIDE DEF left
  <2>6. left = 0
    BY <1>5, <2>1, <2>4, <2>5, LeastOf
  <2>7. /\ h[c].size - h[c].offset \in Int /\ -Word < h[c].size - h[c].offset
        /\ h[c].size - h[c].offset < Word
    BY <1>4, <2>1, <2>2, <2>3
  <2>8. h[c].size - h[c].offset = 0
    BY <2>1, <2>6, <2>7, ModZero DEF left
  <2> QED
    BY <1>4, <2>1, <2>8
<1>6. FileKnown(c)'
  BY <1>1, <1>2, <1>3, <1>4, <1>5 DEF FileKnown, Sending, Getting
<1>7. DoneKnown(c)' /\ DoneGot(c)'
  BY <1>2 DEF DoneKnown, DoneGot
<1>8. FileInv'
  BY <1>1, <1>2, <1>3, <1>6, <1>7, FileStep DEF Sending
<1>9. HeaderSound(c)' /\ h[c].state \notin Talking /\ h'[c].state \notin Talking
  BY <1>2 DEF HeaderSound, Talking
<1>10. BufInv'
  BY <1>1, <1>2, <1>3, <1>9, FileBufKeeps DEF Open
<1> QED
  BY <1>2, <1>8, <1>10 DEF DccInv

LEMMA SendingFileKeeps ==
  ASSUME DccInv, TypeInv', NEW c \in Clients, WatchSendingFile(c)
  PROVE  DccInv'
<1>1. Streams /\ FileInv /\ BufInv /\ FileKnown(c)
  BY DEF DccInv, FileInv
<1> DEFINE n == ToSend(c)
<1>2. /\ h[c].state = "SENDING_FILE" /\ verdict[c] = "running"
      /\ h[c].type = "SEND" /\ h[c].fileFd /\ n \in Nat /\ n >= 1
      /\ h[c].chunkSize # 0 /\ h[c].size = file.stat
      /\ h[c].offset \in Nat /\ h[c].offset + n <= h[c].size
      /\ h'[Other(c)] = h[Other(c)] /\ verdict'[Other(c)] = verdict[Other(c)]
      /\ h'[c].type = h[c].type /\ h'[c].fileFd = h[c].fileFd
      /\ h'[c].size = h[c].size /\ h'[c].offset = h[c].offset + n
      /\ h'[c].chunkSize = h[c].chunkSize
      /\ \/ /\ h'[c].offset = h[c].size /\ verdict'[c] = "DONE"
            /\ h'[c].state = "SENDING_FILE"
         \/ /\ h'[c].offset < h[c].size /\ UNCHANGED verdict
            /\ h'[c].state \in {"SENDING_FILE", "SENDING_FILE_HEADER"}
  BY <1>1, SendingFileMoves
<1> HIDE DEF n
<1>3. UNCHANGED <<life, file, resume, got, said, heard>> /\ (cut => cut')
  BY DEF WatchSendingFile
<1>4. h[c].state \in Sending /\ h'[c].state \in Sending
  BY <1>2 DEF Sending
<1>5. FileKnown(c)'
  <2>1. ~cut' => resume <= h'[c].offset
    <3>1. ~cut => resume <= h[c].offset
      BY <1>1, <1>4 DEF FileKnown
    <3>2. resume \in Nat
      BY <1>1, Sides, Typed
    <3> QED
      BY <1>2, <1>3, <3>1, <3>2
  <2>2. h'[c].offset <= file.stat
        /\ (h'[c].offset = file.stat => verdict'[c] = "DONE")
    BY <1>2
  <2> QED
    BY <1>2, <1>3, <1>4, <2>1, <2>2 DEF FileKnown, Sending, Getting
<1>6. DoneKnown(c)' /\ DoneGot(c)'
  BY <1>2 DEF DoneKnown, DoneGot
<1>7. FileInv'
  BY <1>1, <1>2, <1>3, <1>4, <1>5, <1>6, FileStep
<1>8. HeaderSound(c)' /\ h[c].state \notin Talking /\ h'[c].state \notin Talking
  BY <1>4 DEF HeaderSound, Talking, Sending
<1>9. Open(Other(c))' => Open(Other(c))
  BY <1>2, <1>3 DEF Open
<1>10. BufInv'
  BY <1>1, <1>2, <1>3, <1>8, <1>9, FileBufKeeps
<1> QED
  BY <1>1, <1>7, <1>10, SendingFileStreams DEF DccInv

LEMMA ReadingFileHeaderKeeps ==
  ASSUME DccInv, TypeInv', NEW c \in Clients, WatchReadingFileHeader(c)
  PROVE  DccInv'
<1>1. Streams /\ FileInv /\ BufInv /\ FileKnown(c)
  BY DEF DccInv, FileInv
<1>2. /\ Streams' /\ h[Other(c)].state \in Sending /\ h'[c].state \in Getting
      /\ HeaderSound(c)'
      /\ ~cut /\ verdict'[c] = "DONE" =>
           /\ Pos = file.stat
           /\ resume # file.stat => verdict[Other(c)] = "DONE"
  BY <1>1, ReadingFileHeaderStreams
<1>3. /\ h[c].state = "READING_FILE_HEADER" /\ verdict[c] = "running"
      /\ UNCHANGED <<life, data>>
      /\ h'[Other(c)] = h[Other(c)] /\ verdict'[Other(c)] = verdict[Other(c)]
      /\ h'[c].type = h[c].type /\ h'[c].fileFd = h[c].fileFd
      /\ h'[c].size = h[c].size /\ h'[c].offset = h[c].offset
  BY <1>1, Sides, HeaderMoves
<1>4. UNCHANGED <<file, resume, got, cut, said, heard>> /\ Pos' = Pos
  BY <1>3 DEF data, Pos
<1>5. h[c].state \in Getting /\ h[c].type = "GET"
  BY <1>1, <1>3, Sides DEF Getting, TypeFits
<1>6. FileKnown(c)'
  BY <1>1, <1>2, <1>3, <1>4, <1>5 DEF FileKnown, Sending, Getting
<1>7. DoneKnown(c)' /\ DoneGot(c)'
  BY <1>2, <1>3, <1>4 DEF DoneKnown, DoneGot
<1>8. FileInv'
  BY <1>1, <1>3, <1>4, <1>6, <1>7, FileStep DEF Sending
<1>9. h[c].state \notin Talking /\ h'[c].state \notin Talking
  BY <1>2, <1>3 DEF Talking, Getting
<1>10. Open(Other(c))' => Open(Other(c))
  BY <1>3 DEF Open
<1>11. BufInv'
  BY <1>1, <1>2, <1>3, <1>4, <1>9, <1>10, FileBufKeeps
<1> QED
  BY <1>2, <1>8, <1>11 DEF DccInv

LEMMA GettingFileKeeps ==
  ASSUME DccInv, TypeInv', NEW c \in Clients, WatchGettingFile(c)
  PROVE  DccInv'
<1> DEFINE o == Other(c)
<1>1. Streams /\ FileInv /\ BufInv
  BY DEF DccInv
<1>2. /\ Streams' /\ h[o].state \in Sending /\ h'[c].state \in Getting
      /\ HeaderSound(c)'
      /\ ~cut => /\ h'[c].offset = Pos' /\ GotIntact'
                 /\ verdict'[c] = "DONE" =>
                      Pos' = file.stat /\ verdict[o] = "DONE"
  BY <1>1, GettingFileStreams
<1>3. /\ h[c].state = "GETTING_FILE" /\ verdict[c] = "running"
      /\ UNCHANGED <<life, file, resume, cut, said, heard>>
      /\ h'[o] = h[o] /\ verdict'[o] = verdict[o]
      /\ h'[c].type = h[c].type /\ h'[c].fileFd = h[c].fileFd
      /\ h'[c].size = h[c].size
  BY <1>1, Sides, GettingFileMoves
<1>4. /\ o \in Clients /\ Other(o) = c /\ \A d \in Clients : d = c \/ d = o
      /\ h[c].type = "GET" /\ h[o].type = "SEND" /\ h[c].state \in Getting
  BY <1>1, <1>2, <1>3, Sides, OtherClient DEF Getting, TypeFits
<1>5. FileKnown(c) /\ FileKnown(o) /\ DoneKnown(o)
  BY <1>1, <1>4 DEF FileInv
<1>6. NumbersFit' /\ NoFileYet' /\ GotIntact'
  <2>1. NumbersFit'
    BY <1>1, <1>3 DEF FileInv, NumbersFit
  <2>2. NoFileYet'
    BY <1>2, <1>3, <1>4 DEF NoFileYet
  <2>3. GotIntact'
    <3>1. CASE cut
      BY <1>3, <3>1 DEF GotIntact
    <3>2. CASE ~cut
      BY <1>2, <3>2
    <3> QED
      BY <3>1, <3>2
  <2> QED
    BY <2>1, <2>2, <2>3
<1>7. FileKnown(c)' /\ DoneKnown(c)' /\ DoneGot(c)'
  <2>1. FileKnown(c)'
    BY <1>2, <1>3, <1>4, <1>5 DEF FileKnown, Sending, Getting
  <2>2. DoneKnown(c)'
    BY <1>2 DEF DoneKnown
  <2>3. DoneGot(c)'
    BY <1>2, <1>3 DEF DoneGot
  <2> QED
    BY <2>1, <2>2, <2>3
<1>8. FileKnown(o)' /\ DoneKnown(o)' /\ DoneGot(o)'
  <2>1. h[o].state \notin Getting \cup {"SENDING_FILE_ACK"}
    BY <1>2 DEF Sending, Getting
  <2>2. FileKnown(o)'
    BY <1>3, <1>5, <2>1 DEF FileKnown
  <2> QED
    BY <1>3, <1>4, <1>5, <2>2 DEF DoneKnown, DoneGot
<1>9. h[c].state \notin Talking /\ h'[c].state \notin Talking
  BY <1>2, <1>3 DEF Talking, Getting
<1>10. Open(o)' => Open(o)
  BY <1>3 DEF Open
<1>11. BufInv'
  BY <1>1, <1>2, <1>3, <1>9, <1>10, FileBufKeeps
<1> HIDE DEF o
<1>12. FileInv'
  BY <1>4, <1>6, <1>7, <1>8 DEF FileInv
<1> QED
  BY <1>2, <1>11, <1>12 DEF DccInv

-----------------------------------------------------------------------------
(***************************************************************************)
(* The invariant, and what follows from it.                                *)
(***************************************************************************)
LEMMA DccInvInit == Init => DccInv
<1> SUFFICES ASSUME Init
             PROVE  DccInv
  OBVIOUS
<1>1. PICK type \in {"SEND", "GET", "VOICE"} :
        h = [c \in Clients |-> IF c = "caller"
                               THEN Fresh(type, "CONNECTING", "WRITE")
                               ELSE Fresh("DCC", "READING_UIN_1", "READ")]
  BY DEF Init
<1>2. Clients = {"caller", "callee"} /\ Other("caller") = "callee"
      /\ Other("callee") = "caller"
  BY DEF Clients, Other
<1>3. /\ h["caller"] = Fresh(type, "CONNECTING", "WRITE")
      /\ h["callee"] = Fresh("DCC", "READING_UIN_1", "READ")
  BY <1>1, <1>2
<1>4. /\ h["caller"].state = "CONNECTING" /\ h["caller"].type = type
      /\ h["callee"].state = "READING_UIN_1" /\ h["callee"].type = "DCC"
      /\ ~h["caller"].fileFd /\ ~h["callee"].fileFd
  BY <1>3 DEF Fresh
<1>5. /\ life["caller"] = "up" /\ life["callee"] = "none"
      /\ \A c \in Clients : /\ verdict[c] = "running" /\ wire[c] = <<>>
                            /\ said[c] = <<>> /\ heard[c] = <<>>
      /\ file.stat = 0 /\ file.actual = 0 /\ resume = 0 /\ got = <<>> /\ ~cut
  BY <1>2 DEF Init
<1>6. TypeInv
  BY TypeInvInit
<1>7. Roles
  <2>1. TypeFits("caller") /\ TypeFits("callee")
    BY <1>4 DEF TypeFits, Early, Dialling, Sending, Getting, Answering, Talking
  <2>2. Together("caller") /\ Together("callee")
    BY <1>2, <1>4 DEF Together, Meets, Early, Offering, Answering, Sending,
      Talking
  <2>3. LifeFits("caller") /\ LifeFits("callee")
    BY <1>2, <1>4, <1>5 DEF LifeFits
  <2>4. CutLate
    BY <1>5 DEF CutLate
  <2>5. RolesAgree
    BY <1>1, <1>4 DEF RolesAgree
  <2> QED
    BY <1>2, <2>1, <2>2, <2>3, <2>4, <2>5 DEF Roles
<1>8. StreamLeads("caller")
  <2>1. PICK x \in Nodes :
          x = At(IF type = "GET" THEN "silentOffered" ELSE "silentAnswered")
    BY NodeType DEF Names
  <2>2. Stands("caller", x)
    BY <1>4, <2>1 DEF Stands, Offering, Sending
  <2>3. Stops("callee", x)
    BY <1>2, <1>4, <2>1 DEF Stops, Wrote, Answering, Getting, Talking
  <2>4. Path(x, wire["caller"], x, said["callee"])
    BY <1>2, <1>5, PathEmpty
  <2> QED
    BY <1>2, <2>2, <2>3, <2>4 DEF StreamLeads
<1>9. StreamLeads("callee")
  <2>1. PICK x \in Nodes : x = At("start")
    BY NodeType DEF Names
  <2>2. Stands("callee", x)
    BY <1>4, <2>1 DEF Stands, Offering, Sending
  <2>3. Stops("caller", x)
    BY <1>2, <1>4, <2>1 DEF Stops, Wrote, Answering, Getting, Talking
  <2>4. Path(x, wire["callee"], x, said["caller"])
    BY <1>2, <1>5, PathEmpty
  <2> QED
    BY <1>2, <2>2, <2>3, <2>4 DEF StreamLeads
<1>10. Hushed("caller") /\ Hushed("callee")
  BY <1>4 DEF Hushed
<1>11. Streams
  BY <1>2, <1>6, <1>7, <1>8, <1>9, <1>10 DEF Streams
<1>12. FileInv
  <2>1. NumbersFit
    BY <1>5, SizesAssumption DEF NumbersFit
  <2>2. NoFileYet /\ GotIntact
    BY <1>5 DEF NoFileYet, GotIntact
  <2>3. FileKnown("caller") /\ FileKnown("callee")
    BY <1>4 DEF FileKnown, Sending, Getting
  <2>4. \A c \in Clients : DoneKnown(c) /\ DoneGot(c)
    BY <1>5 DEF DoneKnown, DoneGot
  <2> QED
    BY <1>2, <2>1, <2>2, <2>3, <2>4 DEF FileInv
<1>13. BufInv
  <2>1. VoiceIntact
    BY <1>5 DEF VoiceIntact
  <2>2. HeaderSound("caller") /\ HeaderSound("callee")
    BY <1>4 DEF HeaderSound
  <2>3. VoiceSound("caller") /\ VoiceSound("callee")
    BY <1>2, <1>4, <1>5 DEF VoiceSound, Talking
  <2> QED
    BY <1>2, <2>1, <2>2, <2>3 DEF BufInv
<1> QED
  BY <1>11, <1>12, <1>13 DEF DccInv

LEMMA StutterKeeps ==
  ASSUME DccInv, TypeInv', UNCHANGED vars
  PROVE  DccInv'
<1>1. Streams /\ FileInv /\ BufInv /\ "caller" \in Clients
  BY DEF DccInv, Clients
<1>2. UNCHANGED <<h, data>> /\ UNCHANGED <<life, verdict, wire>>
  BY DEF vars
<1>3. \A d \in Clients : Open(d)' => Open(d)
  BY <1>2 DEF Open
<1>4. Streams'
  BY <1>1, <1>2, <1>3, QuietStep
<1>5. FileInv' /\ BufInv'
  BY <1>1, <1>2, <1>3, Sides, EndsKeep
<1> QED
  BY <1>4, <1>5 DEF DccInv

LEMMA DccInvStep == DccInv /\ [Next]_vars => DccInv'
<1> SUFFICES ASSUME DccInv, [Next]_vars
             PROVE  DccInv'
  OBVIOUS
<1>1. TypeInv'
  BY TypeInvStep DEF DccInv, Streams
<1>2. CASE Listen
  BY <1>1, <1>2, ListenKeeps
<1>3. ASSUME NEW c \in Clients, Handshake(c)
      PROVE  DccInv'
  BY <1>1, <1>3, HandshakeKeeps
<1>4. ASSUME NEW c \in Clients, Transfer(c)
      PROVE  DccInv'
  BY <1>1, <1>4, SendingFileInfoKeeps, ReadingFileInfoKeeps,
    SendingFileAckKeeps, ReadingFileAckKeeps, SendingFileHeaderKeeps,
    SendingFileKeeps, ReadingFileHeaderKeeps, GettingFileKeeps,
    TransferEndsKeeps DEF Transfer
<1>5. ASSUME NEW c \in Clients, Talk(c)
      PROVE  DccInv'
  BY <1>1, <1>5, TalkStepKeeps, ReadingVoiceDataKeeps, TransferEndsKeeps DEF Talk
<1>6. ASSUME NEW c \in Clients, Prepare(c) \/ SetVoice(c) \/ VoiceSend(c)
                                  \/ FreeDcc(c)
      PROVE  DccInv'
  BY <1>1, <1>6, FillFileInfoKeeps, AnswerFileKeeps, SetVoiceKeeps,
    VoiceSendKeeps, FreeKeeps DEF Prepare
<1>7. CASE UNCHANGED vars
  BY <1>1, <1>7, StutterKeeps
<1> QED
  BY <1>2, <1>3, <1>4, <1>5, <1>6, <1>7 DEF Next, Watch

LEMMA DccInvariant == Spec => []DccInv
<1>1. Init => DccInv
  BY DccInvInit
<1>2. DccInv /\ [Next]_vars => DccInv'
  BY DccInvStep
<1> QED
  BY <1>1, <1>2, PTL DEF Spec

\* What leads on from where a client reads, to where the other one stands,
\* is of the kind that it reads next.
LEMMA NextDue ==
  ASSUME Streams, NEW c \in Clients, h[c].state \notin Writing,
         NEW x \in Nodes, Stands(c, x), NEW y \in Nodes, Stops(Other(c), y),
         NEW z \in Nodes, NEW item \in Items, Leads(x, item, z, said[Other(c)]),
         Later(z.at, y.at), Open(c)
  PROVE  item.kind \in Due(c)
<1> DEFINE o == Other(c)
           state == h[c].state
<1>1. /\ h[c] \in Structs /\ TypeFits(c) /\ TypeFits(o) /\ Meets(state, h[o].state)
      /\ ChunkSound(c)
  BY Sides DEF TypeInv
<1>2. x.at \notin {"told", "asked", "answered", "last"}
  BY LeadsAway
<1>3. state \in States
  BY <1>1 DEF Structs
<1> HIDE DEF state
<1>4. CASE state \in {"READING_UIN_1", "READING_UIN_2"}
  <2>1. x.at \in {"start", "uin"}
    BY <1>4 DEF Stands, state, At, Node
  <2>2. item.kind = "uin"
    BY <2>1 DEF Leads, GreetingLeads, OfferLeads, FileLeads, VoiceLeads
  <2> QED
    BY <1>4, <2>2 DEF Due, Expected, state
<1>5. CASE state = "READING_ACK"
  <2>1. x.at \in {"silentOffered", "silentAnswered"}
    BY <1>5 DEF Stands, state, At, Node
  <2>2. item.kind = "ack"
    BY <2>1 DEF Leads, GreetingLeads, OfferLeads, FileLeads, VoiceLeads
  <2> QED
    BY <1>5, <2>2 DEF Due, Expected, state
<1>6. CASE state \in {"READING_TYPE", "READING_REQUEST", "READING_VOICE_SIZE"}
  <2>1. x.at \in {"greeted", "offers", "size"}
    BY <1>6 DEF Stands, state, At, Node
  <2>2. item.kind = "small"
    BY <2>1 DEF Leads, GreetingLeads, OfferLeads, FileLeads, VoiceLeads, Item
  <2> QED
    BY <1>6, <2>2 DEF Due, Expected, state
<1>7. CASE state = "READING_FILE_INFO"
  <2>1. x.at = "info"
    BY <1>7 DEF Stands, state, At, Node
  <2>2. item.kind = "info"
    BY <2>1 DEF Leads, GreetingLeads, OfferLeads, FileLeads, VoiceLeads
  <2> QED
    BY <1>7, <2>2 DEF Due, Expected, state
<1>8. CASE state \in {"READING_FILE_ACK", "READING_VOICE_ACK"}
  <2>1. x.at = "answers"
    BY <1>8 DEF Stands, state, At, Node, Offering
  <2>2. \/ item.kind = "bigType" /\ z.at = "ackSize"
        \/ item.kind = "tiny" /\ z.at = "voice"
    BY <2>1 DEF Leads, GreetingLeads, OfferLeads, FileLeads, VoiceLeads, Item,
      At, Node
  <2>3. CASE state = "READING_FILE_ACK"
    <3>1. h[o].state \in {"READING_TYPE", "READING_FILE_HEADER"} \cup Answering
      BY <1>1, <2>3 DEF Meets
    <3>2. y.at \in {"offers", "answers", "answered", "ackSize"}
      BY <3>1 DEF Stops, Wrote, Broken, Answering, At, Node, Getting
    <3>3. item.kind = "bigType"
      BY <2>2, <3>2 DEF Later
    <3> QED
      BY <2>3, <3>3 DEF Due, Expected, state
  <2>4. CASE state = "READING_VOICE_ACK"
    <3>1. h[o].state \in {"READING_TYPE", "READING_REQUEST",
                          "SENDING_VOICE_ACK", "READING_VOICE_HEADER"}
      BY <1>1, <2>4 DEF Meets
    <3>2. y.at \in {"offers", "answers", "voice"}
      BY <3>1 DEF Stops, Wrote, Broken, Answering, At, Node, Talking
    <3>3. item.kind = "tiny"
      BY <2>2, <3>2 DEF Later
    <3> QED
      BY <2>4, <3>3 DEF Due, Expected, state
  <2> QED
    BY <1>8, <2>3, <2>4
<1>9. CASE state = "READING_VOICE_HEADER"
  <2>1. x.at = "voice" /\ x.left = 0
    BY <1>2, <1>9 DEF Stands, state, At, Node
  <2>2. item.kind = "tiny"
    BY <2>1 DEF Leads, GreetingLeads, OfferLeads, FileLeads, VoiceLeads, Item
  <2> QED
    BY <1>9, <2>2 DEF Due, Expected, state
<1>10. CASE state = "READING_FILE_HEADER"
  <2>1. \/ h[c].buf = <<>> /\ x.at = "chunk" /\ x.left = 0
        \/ h[c].buf # <<>> /\ x.at = "header"
    BY <1>2, <1>10 DEF Stands, state, At, Node
  <2>2. item.kind = IF h[c].buf = <<>> THEN "bigType" ELSE "bigSize"
    BY <2>1 DEF Leads, GreetingLeads, OfferLeads, FileLeads, VoiceLeads
  <2> QED
    BY <1>10, <2>2 DEF Due, Expected, state
<1>11. CASE state \in {"GETTING_FILE", "READING_VOICE_DATA"}
  <2>1. Left(c) \in Nat /\ Left(c) > 0
    BY <1>1, <1>11 DEF ChunkSound, Left, Structs, state
  <2>2. /\ x.left > 0
        /\ x.at = IF state = "GETTING_FILE" THEN "chunk" ELSE "voice"
    BY <1>11, <2>1 DEF Stands, state, Node
  <2>3. item.kind = IF state = "GETTING_FILE" THEN "data" ELSE "voice"
    BY <1>11, <2>2 DEF Leads, GreetingLeads, OfferLeads, FileLeads, VoiceLeads,
      Item
  <2> QED
    BY <1>11, <2>3 DEF Due, Expected, state
<1>12. CASE state = "SENDING_FILE"
  BY <1>2, <1>12 DEF Stands, Sending, Node, state
<1> QED
  BY <1>3, <1>4, <1>5, <1>6, <1>7, <1>8, <1>9, <1>10, <1>11, <1>12
  DEF States, Writing, state

\* Nothing comes to a client before it has written its packet.
LEMMA WritersHearNothing ==
  ASSUME Streams, NEW c \in Clients, h[c].state \in Writing, Open(c), ~cut
  PROVE  wire[c] = <<>>
<1> DEFINE o == Other(c)
<1>1. /\ TypeFits(c) /\ TypeFits(o) /\ Meets(h[c].state, h[o].state)
      /\ wire[c] \in Seq(Items) /\ o \in Clients /\ Other(o) = c
  BY Sides, Typed
<1>2. PICK x \in Nodes, y \in Nodes :
        /\ Stands(c, x) /\ Stops(o, y) /\ Path(x, wire[c], y, said[o])
  BY DEF Streams, StreamLeads
<1>3. CASE h[c].state \in {"SENDING_FILE_HEADER", "SENDING_FILE_ACK",
                           "SENDING_VOICE_ACK"}
  <2>1. x.at \in {"told", "asked", "answered"}
    BY <1>2, <1>3 DEF Stands, Sending, Node, At
  <2>2. ASSUME wire[c] # <<>>
        PROVE  FALSE
    <3>1. PICK z \in Nodes :
            /\ Leads(x, wire[c][1], z, said[o])
            /\ Path(z, SubSeq(wire[c], 2, Len(wire[c])), y, said[o])
      BY <1>1, <1>2, <2>2, PathHead
    <3> QED
      BY <2>1, <3>1, LeadsAway
  <2> QED
    BY <2>2
<1>4. CASE h[c].state \in {"CONNECTING", "SENDING_ACK", "SENDING_REQUEST",
                           "SENDING_FILE_INFO", "SENDING_VOICE_REQUEST"}
  <2>1. x = y
    BY <1>1, <1>2, <1>4 DEF Stands, Stops, Wrote, Broken, TypeFits, Meets,
      Early, Dialling, Offering, Answering, Sending
  <2>2. x.at \notin {"chunk", "header", "voice", "size"}
    BY <1>2, <1>4 DEF Stands, Node, At, Offering
  <2> QED
    BY <1>1, <1>2, <2>1, <2>2, PathStill
<1> QED
  BY <1>3, <1>4 DEF Writing

LEMMA InStepHolds == DccInv => InStep
<1>0. DccInv => RolesAgree
  BY DEF DccInv, Streams, Roles
<1> SUFFICES ASSUME DccInv, NEW c \in Clients, Up(c), ~cut, wire[c] # <<>>
             PROVE  wire[c][1].kind \in Due(c)
  BY <1>0 DEF InStep
<1> DEFINE o == Other(c)
<1>1. Streams /\ Open(c)
  BY DEF DccInv, Up, Open
<1>2. wire[c] \in Seq(Items) /\ o \in Clients
  BY <1>1, Sides, Typed
<1>3. wire[c][1] \in Items /\ Len(wire[c]) \in Nat
      /\ SubSeq(wire[c], 2, Len(wire[c])) \in Seq(Items)
  BY <1>2
<1>4. h[c].state \notin Writing
  BY <1>1, WritersHearNothing
<1>5. PICK x \in Nodes, y \in Nodes :
        /\ Stands(c, x) /\ Stops(o, y) /\ Path(x, wire[c], y, said[o])
  BY <1>1 DEF Streams, StreamLeads
<1>6. PICK z \in Nodes :
        /\ Leads(x, wire[c][1], z, said[o])
        /\ Path(z, SubSeq(wire[c], 2, Len(wire[c])), y, said[o])
  BY <1>2, <1>5, PathHead
<1>7. Later(z.at, y.at)
  BY <1>3, <1>6, PathLater
<1> QED
  BY <1>1, <1>3, <1>4, <1>5, <1>6, <1>7, NextDue

\* Where a client of a file stands among its data.
LEMMA FileStand ==
  ASSUME NEW c \in Clients, NEW x \in Nodes, Stands(c, x), TypeOK, TypeFits(c),
         h[c].state \in States
  PROVE  /\ x.at \in FileNodes =>
              h[c].state \in Getting /\ x.pos = Pos /\ h[c].type = "GET"
         /\ h[c].state \in Getting => x.at \in FileNodes \cup {"told"}
<1>1. Pos \in Nat /\ h[c].size \in Nat
  BY PosNat, Typed DEF Structs
<1>2. CASE h[c].state \in Getting
  BY <1>1, <1>2 DEF Stands, Getting, Node, FileNodes, TypeFits
<1>3. CASE h[c].state \notin Getting
  BY <1>3 DEF Stands, Getting, Node, At, FileNodes, States, Offering, Sending
<1> QED
  BY <1>2, <1>3

LEMMA FileIntactHolds == DccInv => FileIntact
<1> SUFFICES ASSUME DccInv
             PROVE  FileIntact
  OBVIOUS
<1>1. Streams /\ GotIntact
  BY DEF DccInv, FileInv
<1>2. ASSUME NEW c \in Clients, Up(c), h[c].type = "GET", ~cut,
             NEW i \in Coming(c)
      PROVE  /\ wire[c][i].val > resume + Len(got)
             /\ \A j \in Coming(c) : i < j => wire[c][i].val < wire[c][j].val
             /\ \A n \in resume + Len(got) + 1 .. wire[c][i].val :
                  \E j \in Coming(c) : wire[c][j].val = n
  <2> DEFINE o == Other(c)
             q == wire[c]
  <2>1. /\ q \in Seq(Items) /\ TypeOK /\ TypeFits(c) /\ h[c] \in Structs
        /\ Open(c)
    BY <1>1, <1>2, Sides, Typed DEF Up, Open
  <2>2. PICK x \in Nodes, y \in Nodes :
          /\ Stands(c, x) /\ Stops(o, y) /\ Path(x, q, y, said[o])
    BY <1>1, <1>2, <2>1 DEF Streams, StreamLeads
  <2> HIDE DEF q
  <2>3. /\ Len(q) \in Nat /\ DOMAIN q = 1..Len(q)
        /\ \A k \in 1..Len(q) : q[k] \in Items
    BY <2>1
  <2>4. /\ Coming(c) \subseteq 1..Len(q)
        /\ \A k \in 1..Len(q) : k \in Coming(c) <=> q[k].kind = "data"
    BY <2>3 DEF Coming, q
  <2>5. /\ x.at \in FileNodes =>
             /\ x.pos <= y.pos
             /\ \A n \in x.pos + 1 .. y.pos :
                  \E k \in 1..Len(q) : q[k] = Item("data", n)
        /\ x.at \notin FileNodes => \A k \in 1..Len(q) : q[k].kind # "data"
        /\ \A k \in 1..Len(q) : q[k].kind = "data" =>
             q[k].val \in x.pos + 1 .. y.pos
        /\ \A j, k \in 1..Len(q) :
             j < k /\ q[j].kind = "data" /\ q[k].kind = "data" =>
               q[j].val < q[k].val
    BY <2>1, <2>2, PathData
  <2>6. i \in 1..Len(q) /\ q[i].kind = "data"
    BY <1>2, <2>4
  <2>7. x.at \in FileNodes /\ x.pos = Pos
    <3>1. x.at \in FileNodes
      BY <2>5, <2>6
    <3>2. h[c].state \in States
      BY <2>1 DEF Structs
    <3> QED
      BY <2>1, <2>2, <3>1, <3>2, FileStand
  <2>8. Pos \in Nat /\ y.pos \in Nat /\ q[i].val \in Nat
    BY <2>1, <2>3, <2>6, PosNat DEF Nodes, Items
  <2>9. q[i].val > Pos /\ q[i].val <= y.pos
    BY <2>5, <2>6, <2>7, <2>8
  <2>10. \A j \in Coming(c) : i < j => q[i].val < q[j].val
    BY <2>4, <2>5, <2>6
  <2>11. ASSUME NEW n \in Pos + 1 .. q[i].val
         PROVE  \E j \in Coming(c) : q[j].val = n
    <3>1. n \in x.pos + 1 .. y.pos
      BY <2>7, <2>8, <2>9
    <3>2. PICK k \in 1..Len(q) : q[k] = Item("data", n)
      BY <2>5, <2>7, <3>1
    <3>3. q[k].kind = "data" /\ q[k].val = n
      BY <3>2 DEF Item
    <3> QED
      BY <2>4, <3>3
  <2> QED
    BY <2>9, <2>10, <2>11 DEF q, Pos
<1> QED
  BY <1>1, <1>2 DEF FileIntact, GotIntact

LEMMA DoneIsWholeHolds == DccInv => DoneIsWhole
<1> SUFFICES ASSUME DccInv, ~cut, NEW c \in Clients, verdict[c] = "DONE"
             PROVE  /\ h[c].type = "GET" =>
                         /\ resume + Len(got) = file.stat
                         /\ resume # file.stat => verdict[Other(c)] = "DONE"
                    /\ h[c].type = "SEND" /\ Up(Other(c)) =>
                         \/ resume + Len(got) >= file.stat
                         \/ \E i \in Coming(Other(c)) :
                              wire[Other(c)][i].val = file.stat
  BY DEF DoneIsWhole
<1> DEFINE o == Other(c)
<1>1. Streams /\ DoneGot(c) /\ DoneKnown(c) /\ FileKnown(c)
  BY DEF DccInv, FileInv
<1>2. h[c].type = "GET" => /\ resume + Len(got) = file.stat
                           /\ resume # file.stat => verdict[o] = "DONE"
  BY <1>1 DEF DoneGot, Pos
<1>3. ASSUME h[c].type = "SEND", Up(o), ~(Pos >= file.stat)
      PROVE  \E i \in Coming(o) : wire[o][i].val = file.stat
  <2> DEFINE q == wire[o]
  <2>1. /\ q \in Seq(Items) /\ TypeOK /\ TypeFits(c) /\ TypeFits(o)
        /\ h[c] \in Structs /\ h[o] \in Structs /\ o \in Clients
        /\ Other(o) = c /\ Open(o) /\ Meets(h[c].state, h[o].state)
    BY <1>1, <1>3, Sides, Typed DEF Up, Open
  <2>2. h[c].state = "SENDING_FILE" /\ h[c].offset >= h[c].size
    BY <1>1, <1>3, <2>1 DEF DoneKnown, TypeFits, Getting
  <2>3. h[c].size = file.stat /\ h[c].offset \in Nat /\ file.stat \in Nat
    <3>1. h[c].size = file.stat /\ h[c].offset \in Nat
      BY <1>1, <1>3, <2>1, <2>2 DEF FileKnown, Sending, Structs
    <3> QED
      BY <2>1, <3>1, Typed
  <2>4. PICK x \in Nodes, y \in Nodes :
          /\ Stands(o, x) /\ Stops(c, y) /\ Path(x, q, y, said[c])
    BY <1>1, <2>1 DEF Streams, StreamLeads
  <2>5. y.at \in {"chunk", "last"} /\ y.pos = h[c].offset
    BY <2>2, <2>4 DEF Stops, Wrote, Broken, Node, Answering, Getting, Talking
  <2>6. h[o].state \in Getting
    BY <2>1, <2>2 DEF Meets, Sending
  <2> HIDE DEF q
  <2>7. Later(x.at, y.at)
    BY <2>1, <2>4, PathLater
  <2>8. x.at \in FileNodes
    <3>1. x.at \in FileNodes \cup {"told"}
      BY <2>1, <2>4, <2>6, FileStand DEF Structs
    <3> QED
      BY <2>5, <2>7, <3>1 DEF Later
  <2>9. x.pos = Pos
    BY <2>1, <2>4, <2>8, FileStand DEF Structs
  <2>10. file.stat \in x.pos + 1 .. y.pos
    <3>1. Pos \in Nat
      BY <2>1, PosNat
    <3> QED
      BY <1>3, <2>2, <2>3, <2>5, <2>9, <3>1
  <2>11. PICK k \in 1..Len(q) : q[k] = Item("data", file.stat)
    BY <2>1, <2>4, <2>8, <2>10, PathData
  <2>12. q[k].kind = "data" /\ q[k].val = file.stat
    BY <2>11 DEF Item
  <2>13. k \in Coming(o)
    BY <2>1, <2>12 DEF Coming, q
  <2> QED
    BY <2>12, <2>13 DEF q
<1> QED
  BY <1>2, <1>3 DEF Pos

\* Whoever dialled, one side sends the file and the other gets it, or both
\* talk: READING_TYPE and the requests settle it for every pair of clients.
THEOREM RolesSettled == Spec => []RolesAgree
<1>1. DccInv => RolesAgree
  BY DEF DccInv, Streams, Roles
<1> QED
  BY <1>1, DccInvariant, PTL

\* What comes next to a client begins with the packet its state reads, until
\* a write is cut.
THEOREM AlwaysInStep == Spec => []InStep
BY InStepHolds, DccInvariant, PTL

\* The receiver has the sender's file from the offset it asked for on, without
\* a hole or a repetition, whatever the lengths of chunks and buffers are.
THEOREM FileNeverTorn == Spec => []FileIntact
BY FileIntactHolds, DccInvariant, PTL

\* A client that is told DONE by gg_dcc_watch_fd() has the whole file, or has
\* handed over all of it.
THEOREM DoneMeansWhole == Spec => []DoneIsWhole
BY DoneIsWholeHolds, DccInvariant, PTL

\* The voice frames a client is given are those the other one spoke, whole and
\* in order.
THEOREM FramesIntact == Spec => []VoiceIntact
<1>1. DccInv => VoiceIntact
  BY DEF DccInv, BufInv
<1> QED
  BY <1>1, DccInvariant, PTL

-----------------------------------------------------------------------------
(***************************************************************************)
(* A direct connection keeps FileContract: every step is one of its steps  *)
(* or changes nothing that it speaks of.                                   *)
(***************************************************************************)
LEMMA OpenedBy ==
  ASSUME NEW c \in Clients, NEW type
  PROVE  Opened(type) <=> \/ h[c].type = type /\ h[c].fileFd
                          \/ h[Other(c)].type = type /\ h[Other(c)].fileFd
BY OtherClient DEF Opened

LEMMA ToldBy ==
  ASSUME NEW c \in Clients, NEW type
  PROVE  type \in Told <=>
           \/ verdict[c] = "DONE" /\ h[c].type = type
           \/ verdict[Other(c)] = "DONE" /\ h[Other(c)].type = type
BY OtherClient DEF Told

LEMMA PhaseKept ==
  ASSUME NEW c \in Clients, h'[Other(c)] = h[Other(c)],
         h'[c].fileFd = h[c].fileFd, h[c].fileFd => h'[c].type = h[c].type
  PROVE  Phase' = Phase
<1>1. \A d \in Clients : d = c \/ d = Other(c)
  BY OtherClient
<1>2. ASSUME NEW d \in Clients, NEW type
      PROVE  h'[d].type = type /\ h'[d].fileFd <=> h[d].type = type /\ h[d].fileFd
  BY <1>1
<1>3. \A type : Opened(type)' <=> Opened(type)
  BY <1>2 DEF Opened
<1> QED
  BY <1>3 DEF Phase

LEMMA ToldKept ==
  ASSUME NEW c \in Clients, h'[Other(c)] = h[Other(c)],
         verdict'[Other(c)] = verdict[Other(c)],
         verdict[c] = "running", verdict'[c] # "DONE"
  PROVE  Told' = Told
<1>1. \A d \in Clients : d = c \/ d = Other(c)
  BY OtherClient
<1>2. \A d \in Clients : verdict'[d] = "DONE" <=> verdict[d] = "DONE"
  BY <1>1
<1>3. \A d \in Clients : verdict[d] = "DONE" => h'[d].type = h[d].type
  BY <1>1
<1> QED
  BY <1>2, <1>3 DEF Told

LEMMA HandedKept ==
  ASSUME NEW c \in Clients, UNCHANGED resume, h'[Other(c)] = h[Other(c)],
         h'[c].state \in Sending <=> h[c].state \in Sending,
         h[c].state \in Sending => h'[c].offset = h[c].offset
  PROVE  HandedOver' = HandedOver
<1>1. \A d \in Clients : d = c \/ d = Other(c)
  BY OtherClient
<1>2. Sender' = Sender
  BY <1>1 DEF Sender, Sending
<1>3. \A d \in Sender : h'[d].offset = h[d].offset
  BY <1>1 DEF Sender, Sending
<1>4. Sender # {} => (CHOOSE d \in Sender : TRUE) \in Sender
  OBVIOUS
<1> QED
  BY <1>2, <1>3, <1>4 DEF HandedOver

\* How far the file was handed over, before and after a step of either side.
LEMMA HandedOverBy ==
  ASSUME NEW c \in Clients, h[Other(c)].state \notin Sending
  PROVE  HandedOver = IF h[c].state \in Sending THEN h[c].offset ELSE resume
<1>1. \A d \in Clients : d = c \/ d = Other(c)
  BY OtherClient
<1>2. Sender = IF h[c].state \in Sending THEN {c} ELSE {}
  BY <1>1 DEF Sender, Sending
<1> QED
  BY <1>2 DEF HandedOver

LEMMA HandedOverNext ==
  ASSUME NEW c \in Clients, h'[Other(c)].state \notin Sending
  PROVE  HandedOver' = IF h'[c].state \in Sending THEN h'[c].offset ELSE resume'
<1>1. \A d \in Clients : d = c \/ d = Other(c)
  BY OtherClient
<1>2. Sender' = IF h'[c].state \in Sending THEN {c} ELSE {}
  BY <1>1 DEF Sender, Sending
<1> QED
  BY <1>2 DEF HandedOver

Kept == UNCHANGED Contract!fileVars

\* A step that has nothing to do with a file.
Plain(c) ==
  /\ UNCHANGED <<file, resume, got, cut>>
  /\ h'[Other(c)] = h[Other(c)] /\ verdict'[Other(c)] = verdict[Other(c)]
  /\ verdict[c] = "running" /\ verdict'[c] # "DONE"
  /\ h'[c].fileFd = h[c].fileFd
  /\ h[c].fileFd => h'[c].type = h[c].type
  /\ h'[c].state \in Sending <=> h[c].state \in Sending
  /\ h[c].state \in Sending => h'[c].offset = h[c].offset

LEMMA PlainKept ==
  ASSUME NEW c \in Clients, Plain(c)
  PROVE  Kept
<1>1. Phase' = Phase
  BY PhaseKept DEF Plain
<1>2. Told' = Told
  BY ToldKept DEF Plain
<1>3. HandedOver' = HandedOver
  BY HandedKept DEF Plain
<1> QED
  BY <1>1, <1>2, <1>3 DEF Kept, Contract!fileVars, Plain

\* A client whose connection has not opened a file, and does not open one.
LEMMA PlainMove ==
  ASSUME Streams, FileInv, NEW c \in Clients, UNCHANGED <<data, verdict>>,
         verdict[c] = "running", h'[Other(c)] = h[Other(c)],
         h'[c].fileFd = h[c].fileFd,
         \/ h'[c].type = h[c].type
         \/ h[c].state \in {"READING_TYPE", "READING_REQUEST"},
         h[c].state \notin Sending, h'[c].state \notin Sending
  PROVE  Plain(c)
<1>1. FileKnown(c) /\ TypeFits(c)
  BY Sides DEF FileInv
<1>2. h[c].state \in {"READING_TYPE", "READING_REQUEST"} => ~h[c].fileFd
  BY <1>1 DEF FileKnown, TypeFits, Early, Answering, Getting
<1> QED
  BY <1>2 DEF Plain, data

\* A client that is told of an error.
LEMMA PlainEnd ==
  ASSUME Streams, NEW c \in Clients, UNCHANGED <<h, data>>,
         verdict[c] = "running", NEW event \in Verdicts \ {"DONE"},
         Ends(c, event)
  PROVE  Plain(c)
<1>1. verdict'[c] = event /\ verdict'[Other(c)] = verdict[Other(c)]
  BY Sides, Typed, EndsVerdict
<1> QED
  BY <1>1 DEF Plain, data

LEMMA HandshakePlain ==
  ASSUME DccInv, NEW c \in Clients, Handshake(c)
  PROVE  Plain(c)
<1>0. Streams /\ FileInv
  BY DEF DccInv
<1>1. CASE WatchConnecting(c) \/ WatchSendingAck(c)
  <2>1. PICK state \in {"CONNECTING", "SENDING_ACK"},
             next \in {"READING_ACK", "READING_TYPE"} :
          Writes(c, state) /\ UNCHANGED verdict /\ Moves(c, next, "READ")
    BY <1>1 DEF WatchConnecting, WatchSendingAck
  <2>2. UNCHANGED data /\ h[c].state = state /\ verdict[c] = "running"
    BY <1>0, <2>1, Sides, WritesAlone DEF Writing
  <2>3. /\ h'[c].state = next /\ h'[c].type = h[c].type
        /\ h'[c].fileFd = h[c].fileFd /\ h'[Other(c)] = h[Other(c)]
    BY <1>0, <2>1, Sides, Moved DEF States, Checks
  <2> QED
    BY <1>0, <2>1, <2>2, <2>3, PlainMove DEF Sending
<1>2. CASE WatchReadingUin(c)
  <2>1. PICK state \in {"READING_UIN_1", "READING_UIN_2"},
             next \in {"READING_UIN_2", "SENDING_ACK"}, check \in Checks :
          Reads(c, state) /\ UNCHANGED verdict /\ Moves(c, next, check)
    BY <1>2 DEF WatchReadingUin, Checks
  <2>2. state \in DOMAIN Expected
    BY DEF Expected
  <2>3. UNCHANGED data /\ h[c].state = state /\ verdict[c] = "running"
    BY <1>0, <2>1, <2>2, Sides, ReadsAlone
  <2>4. /\ h'[c].state = next /\ h'[c].type = h[c].type
        /\ h'[c].fileFd = h[c].fileFd /\ h'[Other(c)] = h[Other(c)]
    BY <1>0, <2>1, Sides, Moved DEF States
  <2> QED
    BY <1>0, <2>1, <2>3, <2>4, PlainMove DEF Sending
<1>3. CASE WatchReadingAck(c)
  <2>1. Reads(c, "READING_ACK") /\ "READING_ACK" \in DOMAIN Expected
    BY <1>3 DEF WatchReadingAck, Expected
  <2>2. UNCHANGED data /\ h[c].state = "READING_ACK" /\ verdict[c] = "running"
    BY <1>0, <2>1, Sides, ReadsAlone
  <2>3. CASE Moves(c, "SENDING_REQUEST", "WRITE") /\ UNCHANGED verdict
    <3>1. /\ h'[c].state = "SENDING_REQUEST" /\ h'[c].type = h[c].type
          /\ h'[c].fileFd = h[c].fileFd /\ h'[Other(c)] = h[Other(c)]
      BY <1>0, <2>3, Sides, Moved DEF States, Checks
    <3> QED
      BY <1>0, <2>2, <2>3, <3>1, PlainMove DEF Sending
  <2>4. CASE Ends(c, "HANDSHAKE") /\ UNCHANGED h
    BY <1>0, <2>2, <2>4, PlainEnd DEF Verdicts, Errors
  <2> QED
    BY <1>3, <2>3, <2>4 DEF WatchReadingAck
<1>4. CASE WatchSendingRequest(c)
  <2>1. /\ Writes(c, "SENDING_REQUEST") /\ UNCHANGED verdict
        /\ \/ h[c].type = "DCC" /\ UNCHANGED h
           \/ \E next \in {"READING_REQUEST", "SENDING_FILE_INFO",
                           "SENDING_VOICE_REQUEST"}, check \in Checks :
                Moves(c, next, check)
    BY <1>0, <1>4, Sides DEF WatchSendingRequest, Checks, Structs, Types
  <2>2. /\ UNCHANGED data /\ h[c].state = "SENDING_REQUEST"
        /\ verdict[c] = "running"
    BY <1>0, <2>1, Sides, WritesAlone DEF Writing
  <2>3. h[c].type # "DCC"
    BY <1>0, <2>2, Sides DEF TypeFits, Early
  <2>4. PICK next \in {"READING_REQUEST", "SENDING_FILE_INFO",
                       "SENDING_VOICE_REQUEST"}, check \in Checks :
          Moves(c, next, check)
    BY <2>1, <2>3
  <2>5. /\ h'[c].state = next /\ h'[c].type = h[c].type
        /\ h'[c].fileFd = h[c].fileFd /\ h'[Other(c)] = h[Other(c)]
    BY <1>0, <2>4, Sides, Moved DEF States
  <2> QED
    BY <1>0, <2>1, <2>2, <2>5, PlainMove DEF Sending
<1>5. CASE WatchReadingType(c) \/ WatchReadingRequest(c)
  <2>1. PICK state \in {"READING_TYPE", "READING_REQUEST"} :
          /\ Reads(c, state)
          /\ \/ Ends(c, "HANDSHAKE") /\ UNCHANGED h
             \/ \E type \in Types, next \in States \ Sending, check \in Checks :
                  Becomes(c, type, next, check)
    <3>1. {"SENDING_FILE_INFO", "READING_REQUEST", "READING_FILE_INFO",
           "SENDING_VOICE_ACK"} \subseteq States \ Sending
          /\ {"SEND", "GET", "VOICE"} \subseteq Types
          /\ Checks = {"READ", "WRITE"} /\ h[c].type \in Types
      BY <1>0, Sides DEF States, Sending, Types, Checks, Structs
    <3>2. CASE WatchReadingType(c)
      BY <3>1, <3>2 DEF WatchReadingType
    <3>3. CASE WatchReadingRequest(c)
      BY <3>1, <3>3 DEF WatchReadingRequest
    <3> QED
      BY <1>5, <3>2, <3>3
  <2>2. state \in DOMAIN Expected
    BY DEF Expected
  <2>3. UNCHANGED data /\ h[c].state = state /\ verdict[c] = "running"
    BY <1>0, <2>1, <2>2, Sides, ReadsAlone
  <2>4. CASE Ends(c, "HANDSHAKE") /\ UNCHANGED h
    BY <1>0, <2>3, <2>4, PlainEnd DEF Verdicts, Errors
  <2>5. ASSUME NEW type \in Types, NEW next \in States \ Sending,
               NEW check \in Checks, Becomes(c, type, next, check)
        PROVE  Plain(c)
    <3>1. /\ h'[c].state = next /\ h'[c].fileFd = h[c].fileFd
          /\ h'[Other(c)] = h[Other(c)] /\ UNCHANGED verdict
      BY <1>0, <2>5, Sides, Retitled
    <3> QED
      BY <1>0, <2>3, <3>1, PlainMove DEF Sending
  <2> QED
    BY <2>1, <2>4, <2>5
<1>6. CASE HandshakeFails(c)
  <2>1. PICK state : Polled(c, state)
    BY <1>6 DEF HandshakeFails
  <2>2. UNCHANGED <<h, data>> /\ Ends(c, "HANDSHAKE") /\ verdict[c] = "running"
    BY <1>6, <2>1 DEF HandshakeFails, Polled
  <2> QED
    BY <1>0, <2>2, PlainEnd DEF Verdicts, Errors
<1> QED
  BY <1>1, <1>2, <1>3, <1>4, <1>5, <1>6 DEF Handshake

\* A conversation leaves a file alone, and so do the packets before it.
LEMMA TalkPlain ==
  ASSUME DccInv, TypeInv', NEW c \in Clients,
         \/ WatchSendingVoiceRequest(c) \/ WatchSendingVoiceAck(c)
         \/ WatchReadingVoiceAck(c) \/ WatchReadingVoiceHeader(c)
         \/ WatchReadingVoiceSize(c)
  PROVE  Plain(c)
<1>0. Streams /\ FileInv /\ BufInv
  BY DEF DccInv
<1>1. CASE WatchSendingVoiceRequest(c)
  <2>1. UNCHANGED <<verdict, data>> /\ h[c].state = "SENDING_VOICE_REQUEST"
        /\ h'[c].state = "READING_VOICE_ACK"
    BY <1>0, <1>1, SendingVoiceRequestStreams
  <2>2. Moves(c, "READING_VOICE_ACK", "READ") /\ verdict[c] = "running"
    BY <1>1 DEF WatchSendingVoiceRequest, Writes, Polled
  <2>3. h'[c].type = h[c].type /\ h'[c].fileFd = h[c].fileFd
        /\ h'[Other(c)] = h[Other(c)]
    BY <1>0, <2>2, Sides, Moved DEF States, Checks
  <2> QED
    BY <1>0, <2>1, <2>2, <2>3, PlainMove DEF Sending
<1>2. CASE WatchSendingVoiceAck(c)
  <2>1. /\ UNCHANGED <<verdict, data>> /\ h[c].state = "SENDING_VOICE_ACK"
        /\ h'[c].state = "READING_VOICE_HEADER" /\ h'[c].type = h[c].type
        /\ h'[c].fileFd = h[c].fileFd /\ h'[Other(c)] = h[Other(c)]
    BY <1>0, <1>2, SendingVoiceAckStreams
  <2>2. verdict[c] = "running"
    BY <1>2 DEF WatchSendingVoiceAck, Writes, Polled
  <2> QED
    BY <1>0, <2>1, <2>2, PlainMove DEF Sending
<1>3. ASSUME UNCHANGED data, h[c].state \notin Sending, verdict[c] = "running",
             h'[Other(c)] = h[Other(c)],
             verdict'[Other(c)] = verdict[Other(c)], h'[c].type = h[c].type,
             h'[c].fileFd = h[c].fileFd,
             \/ UNCHANGED h /\ verdict'[c] # "DONE"
             \/ h'[c].state \notin Sending /\ UNCHANGED verdict
      PROVE  Plain(c)
  BY <1>3 DEF Plain, data
<1>4. CASE WatchReadingVoiceAck(c)
  <2>1. /\ UNCHANGED data
        /\ h[c].state = "READING_VOICE_ACK" /\ verdict[c] = "running"
        /\ h'[Other(c)] = h[Other(c)] /\ verdict'[Other(c)] = verdict[Other(c)]
        /\ h'[c].type = h[c].type /\ h'[c].fileFd = h[c].fileFd
        /\ \/ UNCHANGED h /\ verdict'[c] = "REFUSED"
           \/ h'[c].state = "READING_VOICE_HEADER" /\ UNCHANGED verdict
    BY <1>0, <1>4, ReadingVoiceAckStreams
  <2> QED
    BY <1>3, <2>1 DEF Sending
<1>5. CASE WatchReadingVoiceHeader(c)
  <2>1. /\ UNCHANGED data
        /\ h[c].state = "READING_VOICE_HEADER" /\ verdict[c] = "running"
        /\ h'[Other(c)] = h[Other(c)] /\ verdict'[Other(c)] = verdict[Other(c)]
        /\ h'[c].type = h[c].type /\ h'[c].fileFd = h[c].fileFd
        /\ \/ UNCHANGED h /\ verdict'[c] = "HANDSHAKE"
           \/ h'[c].state = "READING_VOICE_SIZE" /\ UNCHANGED verdict
    BY <1>0, <1>5, ReadingVoiceHeaderStreams
  <2> QED
    BY <1>3, <2>1 DEF Sending
<1>6. CASE WatchReadingVoiceSize(c)
  <2>1. /\ UNCHANGED data
        /\ h[c].state = "READING_VOICE_SIZE" /\ verdict[c] = "running"
        /\ h'[Other(c)] = h[Other(c)] /\ verdict'[Other(c)] = verdict[Other(c)]
        /\ h'[c].type = h[c].type /\ h'[c].fileFd = h[c].fileFd
        /\ \/ UNCHANGED h /\ verdict'[c] = "NET"
           \/ h'[c].state = "READING_VOICE_DATA" /\ UNCHANGED verdict
    BY <1>0, <1>6, ReadingVoiceSizeStreams
  <2> QED
    BY <1>3, <2>1 DEF Sending
<1> QED
  BY <1>1, <1>2, <1>4, <1>5, <1>6

LEMMA VoiceDataPlain ==
  ASSUME DccInv, TypeInv', NEW c \in Clients, WatchReadingVoiceData(c)
  PROVE  Plain(c)
<1>0. Streams /\ FileInv /\ BufInv
  BY DEF DccInv
<1>1. /\ h[c].state = "READING_VOICE_DATA" /\ verdict[c] = "running"
      /\ UNCHANGED <<verdict, file, resume, got, cut>>
      /\ h'[Other(c)] = h[Other(c)] /\ h'[c].type = h[c].type
      /\ h'[c].fileFd = h[c].fileFd
  BY <1>0, Sides, VoiceDataMoves
<1>2. h'[c].state \in Talking
  BY <1>0, ReadingVoiceDataStreams
<1> QED
  BY <1>1, <1>2 DEF Plain, Sending, Talking

LEMMA SetVoicePlain ==
  ASSUME DccInv, NEW c \in Clients, SetVoice(c)
  PROVE  Plain(c)
<1>0. Streams /\ FileInv
  BY DEF DccInv
<1>1. /\ verdict[c] = "running" /\ h[c].state = "SENDING_FILE_INFO"
      /\ ~h[c].fileFd /\ UNCHANGED <<verdict, data>>
  BY DEF SetVoice
<1>2. Becoming(c, [h[c] EXCEPT !.type = "VOICE",
                               !.state = "SENDING_VOICE_REQUEST"])
  BY <1>0, Sides, Typed, SetVoiceBecomes
<1>3. /\ h'[c] = [h[c] EXCEPT !.type = "VOICE", !.state = "SENDING_VOICE_REQUEST"]
      /\ h'[Other(c)] = h[Other(c)] /\ h[c] \in Structs
  BY <1>0, <1>2, Sides, Typed DEF Becoming
<1>4. h'[c].state = "SENDING_VOICE_REQUEST" /\ h'[c].fileFd = h[c].fileFd
  BY <1>3 DEF Structs
<1> QED
  BY <1>1, <1>3, <1>4 DEF Plain, Sending, data

\* The packets before the file, but the answer.
LEMMA OfferPlain ==
  ASSUME DccInv, TypeInv', NEW c \in Clients,
         \/ WatchSendingFileInfo(c) \/ WatchReadingFileInfo(c)
         \/ WatchSendingFileAck(c) \/ WatchSendingFileHeader(c)
  PROVE  Plain(c)
<1>0. Streams /\ FileInv /\ BufInv
  BY DEF DccInv
<1>1. CASE WatchSendingFileInfo(c)
  <2>1. Writes(c, "SENDING_FILE_INFO") /\ "SENDING_FILE_INFO" \in Writing
        /\ Moves(c, "READING_FILE_ACK", "READ") /\ UNCHANGED verdict
    BY <1>1 DEF WatchSendingFileInfo, Writing
  <2>2. UNCHANGED data /\ h[c].state = "SENDING_FILE_INFO"
        /\ verdict[c] = "running"
    BY <1>0, <2>1, Sides, WritesAlone
  <2>3. /\ h'[c].state = "READING_FILE_ACK" /\ h'[c].type = h[c].type
        /\ h'[c].fileFd = h[c].fileFd /\ h'[Other(c)] = h[Other(c)]
    BY <1>0, <2>1, Sides, Moved DEF States, Checks
  <2> QED
    BY <1>0, <2>1, <2>2, <2>3, PlainMove DEF Sending
<1>2. CASE WatchReadingFileInfo(c)
  <2>1. Reads(c, "READING_FILE_INFO") /\ "READING_FILE_INFO" \in DOMAIN Expected
        /\ UNCHANGED verdict
    BY <1>2 DEF WatchReadingFileInfo, Expected
  <2>2. /\ UNCHANGED data /\ h[c].state = "READING_FILE_INFO"
        /\ verdict[c] = "running" /\ wire[c] # <<>>
    BY <1>0, <2>1, Sides, ReadsAlone
  <2>3. wire[c][1] \in Items
    <3>1. wire[c] \in Seq(Items)
      BY <1>0, Sides, Typed
    <3> QED
      BY <2>2, <3>1
  <2>4. PICK n \in Numbers(wire[c][1], "info") :
          Becoming(c, [h[c] EXCEPT !.size = n, !.check = "WRITE",
                                   !.state = "SENDING_FILE_ACK"])
    BY <1>0, <1>2, <2>3, Sides, Typed, ReadingFileInfoBecomes
  <2>5. /\ h'[c] = [h[c] EXCEPT !.size = n, !.check = "WRITE",
                                !.state = "SENDING_FILE_ACK"]
        /\ h'[Other(c)] = h[Other(c)] /\ h[c] \in Structs
    BY <1>0, <2>4, Sides DEF Becoming
  <2>6. /\ h'[c].state = "SENDING_FILE_ACK" /\ h'[c].type = h[c].type
        /\ h'[c].fileFd = h[c].fileFd
    BY <2>5 DEF Structs
  <2> QED
    BY <1>0, <2>1, <2>2, <2>5, <2>6, PlainMove DEF Sending
<1>3. CASE WatchSendingFileAck(c)
  <2>1. Writes(c, "SENDING_FILE_ACK") /\ "SENDING_FILE_ACK" \in Writing
        /\ UNCHANGED verdict
    BY <1>3 DEF WatchSendingFileAck, Writing
  <2>2. UNCHANGED data /\ h[c].state = "SENDING_FILE_ACK"
        /\ verdict[c] = "running"
    BY <1>0, <2>1, Sides, WritesAlone
  <2>3. Becoming(c, [h[c] EXCEPT !.state = "READING_FILE_HEADER",
                       !.check = "READ", !.chunkSize = 2, !.chunkOffset = 0,
                       !.buf = <<>>])
    BY <1>0, <1>3, Sides, Typed, SendingFileAckBecomes
  <2>4. /\ h'[c] = [h[c] EXCEPT !.state = "READING_FILE_HEADER",
                      !.check = "READ", !.chunkSize = 2, !.chunkOffset = 0,
                      !.buf = <<>>]
        /\ h'[Other(c)] = h[Other(c)] /\ h[c] \in Structs
    BY <1>0, <2>3, Sides DEF Becoming
  <2>5. /\ h'[c].state = "READING_FILE_HEADER" /\ h'[c].type = h[c].type
        /\ h'[c].fileFd = h[c].fileFd
    BY <2>4 DEF Structs
  <2> QED
    BY <1>0, <2>1, <2>2, <2>4, <2>5, PlainMove DEF Sending
<1>4. CASE WatchSendingFileHeader(c)
  <2>1. /\ UNCHANGED <<verdict, data>>
        /\ h[c].state = "SENDING_FILE_HEADER" /\ verdict[c] = "running"
        /\ h'[Other(c)] = h[Other(c)] /\ h'[c].state = "SENDING_FILE"
        /\ h'[c].type = h[c].type /\ h'[c].fileFd = h[c].fileFd
        /\ h'[c].offset = h[c].offset
    BY <1>0, <1>4, SendingFileHeaderStreams
  <2> QED
    BY <2>1 DEF Plain, Sending, data
<1> QED
  BY <1>1, <1>2, <1>3, <1>4

LEMMA OpenedNext ==
  ASSUME NEW c \in Clients, NEW type
  PROVE  Opened(type)' <=> \/ h'[c].type = type /\ h'[c].fileFd
                           \/ h'[Other(c)].type = type /\ h'[Other(c)].fileFd
BY OtherClient DEF Opened

LEMMA ToldTo ==
  ASSUME NEW c \in Clients, h'[Other(c)] = h[Other(c)],
         verdict'[Other(c)] = verdict[Other(c)], h'[c].type = h[c].type,
         verdict[c] = "running"
  PROVE  Told' = Told \cup {type \in {h[c].type} : verdict'[c] = "DONE"}
<1>1. \A d \in Clients : d = c \/ d = Other(c)
  BY OtherClient
<1>2. c \in Clients /\ Other(c) \in Clients
  BY OtherClient
<1>3. ASSUME NEW type
      PROVE  type \in Told' <=> \/ type \in Told
                                \/ type = h[c].type /\ verdict'[c] = "DONE"
  <2>1. type \in Told' <=> \E d \in Clients : verdict'[d] = "DONE" /\ h'[d].type = type
    BY DEF Told
  <2>2. type \in Told <=> \E d \in Clients : verdict[d] = "DONE" /\ h[d].type = type
    BY DEF Told
  <2> QED
    BY <1>1, <1>2, <2>1, <2>2
<1> QED
  BY <1>3

LEMMA HandedNat ==
  ASSUME DccInv
  PROVE  HandedOver \in Nat /\ resume \in Nat /\ Len(got) \in Nat
         /\ got \in Seq(Nat) /\ file.stat \in Nat /\ cut \in BOOLEAN
<1>1. "caller" \in Clients /\ Streams
  BY DEF Clients, DccInv
<1>2. resume \in Nat /\ Len(got) \in Nat /\ got \in Seq(Nat)
      /\ file.stat \in Nat /\ cut \in BOOLEAN
  BY <1>1, Sides, Typed, LenProperties DEF TypeOK
<1>3. \A d \in Sender : h[d].offset \in Nat
  BY <1>1, Sides, Typed DEF Sender, Structs
<1>4. Sender # {} => (CHOOSE d \in Sender : TRUE) \in Sender
  OBVIOUS
<1> QED
  BY <1>2, <1>3, <1>4 DEF HandedOver

\* The two sides of a file, while it is sent.
LEMMA Agreed ==
  ASSUME DccInv, NEW c \in Clients,
         h[c].state \in Sending /\ h[Other(c)].state \in Getting
  PROVE  /\ h[c].type = "SEND" /\ h[Other(c)].type = "GET"
         /\ Phase = "agreed" /\ HandedOver = h[c].offset
         /\ h[c].size = file.stat
<1>1. Streams /\ FileKnown(c) /\ FileKnown(Other(c))
  BY OtherClient DEF DccInv, FileInv
<1>2. h[c].type = "SEND" /\ h[Other(c)].type = "GET"
  BY <1>1, Sides DEF TypeFits
<1>3. Phase = "agreed"
  BY <1>1, <1>2, OpenedBy DEF Phase, FileKnown
<1>4. h[Other(c)].state \notin Sending
  BY DEF Sending, Getting
<1> QED
  BY <1>1, <1>2, <1>3, <1>4, HandedOverBy DEF FileKnown

\* A step that may lose data leaves what was written.
LEMMA Loses ==
  ASSUME DccInv, UNCHANGED <<file, resume>>, Phase' = Phase, cut', cut' \in BOOLEAN,
         Told \subseteq Told', HandedOver' \in Nat, HandedOver <= HandedOver',
         NEW q \in Seq(Nat), got' = got \o q
  PROVE  Contract!Lose
<1>1. /\ Len(got') = Len(got) + Len(q) /\ got' \in Seq(Nat)
      /\ \A i \in 1 .. Len(got) + Len(q) :
           got'[i] = IF i <= Len(got) THEN got[i] ELSE q[i - Len(got)]
  BY HandedNat, ConcatProperties
<1>2. Len(got) \in Nat /\ Len(q) \in Nat /\ got \in Seq(Nat)
  BY HandedNat, LenProperties
<1>3. \A i \in 1..Len(got) : got'[i] \in Nat /\ got'[i] = got[i]
  BY <1>1, <1>2
<1>4. /\ SubSeq(got', 1, Len(got)) \in Seq(Nat)
      /\ Len(SubSeq(got', 1, Len(got))) = Len(got)
      /\ \A i \in 1..Len(got) : SubSeq(got', 1, Len(got))[i] = got'[i]
  <2>1. /\ SubSeq(got', 1, Len(got)) \in Seq(Nat)
        /\ Len(SubSeq(got', 1, Len(got))) =
             IF 1 <= Len(got) THEN Len(got) - 1 + 1 ELSE 0
        /\ \A i \in 1 .. Len(got) - 1 + 1 :
             SubSeq(got', 1, Len(got))[i] = got'[1 + i - 1]
    BY <1>2, <1>3, SubSeqProperties
  <2> QED
    BY <1>2, <2>1
<1>5. SubSeq(got', 1, Len(got)) = got
  BY <1>2, <1>3, <1>4, SeqEqual
<1>6. Len(got) <= Len(got')
  BY <1>1, <1>2
<1> QED
  BY <1>5, <1>6 DEF Contract!Lose

LEMMA AnswerFileAgrees ==
  ASSUME DccInv, TypeInv', NEW c \in Clients, AnswerFile(c)
  PROVE  Contract!Agree
<1>1. Streams /\ FileInv
  BY DEF DccInv
<1>2. /\ h[c].state = "SENDING_FILE_ACK" /\ h[Other(c)].state = "READING_FILE_ACK"
      /\ h'[Other(c)] = h[Other(c)] /\ h'[c].state = h[c].state
      /\ h'[c].type = "GET" /\ h'[c].fileFd
  BY <1>1, AnswerFileStreams
<1>3. /\ ~h[c].fileFd /\ verdict[c] = "running"
      /\ UNCHANGED <<verdict, file, got, cut>>
  BY DEF AnswerFile
<1>4. h[c].type = "GET" /\ h[Other(c)].type = "SEND" /\ h[Other(c)].fileFd
  BY <1>1, <1>2, Sides DEF TypeFits, Answering, FileInv, FileKnown
<1>5. Phase = "offered" /\ Phase' = "agreed"
  <2>1. ~Opened("GET") /\ Opened("SEND") /\ Opened("GET")'
    BY <1>2, <1>3, <1>4, OpenedBy, OpenedNext
  <2> QED
    BY <2>1 DEF Phase
<1>6. Told' = Told
  BY <1>2, <1>3, ToldKept
<1>7. HandedOver' = resume'
  <2>1. h'[c].state \notin Sending /\ h'[Other(c)].state \notin Sending
    BY <1>2 DEF Sending
  <2> QED
    BY <2>1, HandedOverNext
<1>8. resume' \in Nat
  BY <1>1, Sides, Typed, AnswerFileBecomes
<1> QED
  BY <1>3, <1>5, <1>6, <1>7, <1>8 DEF Contract!Agree

LEMMA FillFileInfoOffers ==
  ASSUME DccInv, TypeInv', NEW c \in Clients, FillFileInfo(c)
  PROVE  Contract!Offer
<1>1. Streams /\ FileInv
  BY DEF DccInv
<1>2. /\ h[c].state \in Dialling \cup {"SENDING_FILE_INFO"}
      /\ h[Other(c)].state \notin Getting \cup {"READING_FILE_ACK"}
      /\ h'[Other(c)] = h[Other(c)] /\ h'[c].state = h[c].state
      /\ h'[c].type = "SEND" /\ h[c].type = "SEND" /\ h'[c].fileFd
  BY <1>1, FillFileInfoStreams
<1>3. /\ ~h[c].fileFd /\ verdict[c] = "running"
      /\ UNCHANGED <<verdict, resume, got, cut>>
  BY DEF FillFileInfo
<1>4. h[Other(c)].type # "SEND"
  BY <1>1, <1>2, Sides, AgreeBoth, Typed DEF Agree, Roles
<1>5. h[Other(c)].state # "SENDING_FILE_ACK"
  BY <1>1, <1>2, Sides DEF Meets, Dialling
<1>6. ~(h[Other(c)].type = "GET" /\ h[Other(c)].fileFd)
  BY <1>1, <1>2, <1>5, OtherClient DEF FileInv, FileKnown
<1>7. Phase = "idle" /\ Phase' = "offered"
  <2>1. /\ ~Opened("GET") /\ ~Opened("SEND")
        /\ ~Opened("GET")' /\ Opened("SEND")'
    BY <1>2, <1>3, <1>4, <1>6, OpenedBy, OpenedNext
  <2> QED
    BY <2>1 DEF Phase
<1>8. Told' = Told
  BY <1>2, <1>3, ToldKept
<1>9. HandedOver' = HandedOver
  <2>1. h[c].state \notin Sending /\ h'[c].state \notin Sending
    BY <1>2 DEF Sending, Dialling
  <2> QED
    BY <1>2, <1>3, <2>1, HandedKept
<1>10. file'.stat \in Nat
  BY <1>1, Sides, Typed, FillFileInfoBecomes
<1> QED
  BY <1>3, <1>7, <1>8, <1>9, <1>10 DEF Contract!Offer

LEMMA ReadingFileAckKept ==
  ASSUME DccInv, TypeInv', NEW c \in Clients, WatchReadingFileAck(c)
  PROVE  Kept
<1>1. Streams /\ FileInv
  BY DEF DccInv
<1>2. /\ h[Other(c)].state = "READING_FILE_HEADER"
      /\ h[c].state = "READING_FILE_ACK"
      /\ h'[Other(c)] = h[Other(c)] /\ h'[c].state = "SENDING_FILE_HEADER"
      /\ h'[c].type = h[c].type /\ h'[c].fileFd = h[c].fileFd
      /\ h'[c].offset = resume
  BY <1>1, ReadingFileAckStreams
<1>3. UNCHANGED <<verdict, file, resume, got, cut>> /\ verdict[c] = "running"
  BY DEF WatchReadingFileAck, Reads, Polled, data
<1>4. Phase' = Phase /\ Told' = Told
  BY <1>2, <1>3, PhaseKept, ToldKept
<1>5. HandedOver = resume
  BY <1>2, HandedOverBy DEF Sending
<1>6. HandedOver' = resume
  BY <1>2, HandedOverNext DEF Sending
<1> QED
  BY <1>3, <1>4, <1>5, <1>6 DEF Kept, Contract!fileVars

LEMMA SendingFileHands ==
  ASSUME DccInv, DccInv', NEW c \in Clients, WatchSendingFile(c)
  PROVE  Contract!HandOver \/ Contract!Lose
<1> DEFINE n == ToSend(c)
<1>1. Streams /\ FileInv /\ TypeInv'
  BY DEF DccInv, Streams
<1>2. /\ h[c].state = "SENDING_FILE" /\ verdict[c] = "running"
      /\ n \in Nat /\ n >= 1 /\ h[c].size = file.stat
      /\ h[c].offset \in Nat /\ h[c].offset + n <= h[c].size
      /\ h'[Other(c)] = h[Other(c)] /\ verdict'[Other(c)] = verdict[Other(c)]
      /\ h'[c].type = h[c].type /\ h'[c].fileFd = h[c].fileFd
      /\ h'[c].offset = h[c].offset + n
      /\ \/ /\ h'[c].offset = h[c].size /\ verdict'[c] = "DONE"
            /\ h'[c].state = "SENDING_FILE"
         \/ /\ h'[c].offset < h[c].size /\ UNCHANGED verdict
            /\ h'[c].state \in {"SENDING_FILE", "SENDING_FILE_HEADER"}
  BY <1>1, SendingFileMoves
<1> HIDE DEF n
<1>3. UNCHANGED <<file, resume, got>> /\ (cut => cut')
  BY DEF WatchSendingFile
<1>4. h[c].state \in Sending /\ h'[c].state \in Sending
  BY <1>2 DEF Sending
<1>5. h[Other(c)].state \in Getting
  BY <1>1, <1>4, Sides DEF Meets, Sending
<1>6. /\ h[c].type = "SEND" /\ h[Other(c)].type = "GET" /\ Phase = "agreed"
      /\ HandedOver = h[c].offset
  BY <1>4, <1>5, Agreed
<1>7. Phase' = Phase
  BY <1>2, PhaseKept
<1>8. HandedOver' = h[c].offset + n
  <2>1. h'[Other(c)].state \notin Sending
    BY <1>2, <1>5 DEF Sending, Getting
  <2> QED
    BY <1>2, <1>4, <2>1, HandedOverNext
<1>9. Told' = Told \cup {type \in {"SEND"} : verdict'[c] = "DONE"}
  BY <1>2, <1>6, ToldTo
<1>10. cut \in BOOLEAN /\ cut' \in BOOLEAN /\ file.stat \in Nat /\ got \in Seq(Nat)
  BY <1>1, HandedNat DEF TypeInv, TypeOK
<1>11. CASE cut'
  <2>1. <<>> \in Seq(Nat) /\ got' = got \o <<>>
    BY <1>3, <1>10, ConcatEmptySeq
  <2>2. HandedOver' \in Nat /\ HandedOver <= HandedOver'
    BY <1>2, <1>6, <1>8
  <2>3. Told \subseteq Told'
    BY <1>9
  <2>4. UNCHANGED <<file, resume>>
    BY <1>3
  <2> QED
    BY <1>7, <1>10, <1>11, <2>1, <2>2, <2>3, <2>4, Loses
<1>12. CASE ~cut'
  <2>1. "SEND" \notin Told
    BY <1>2, <1>6, ToldBy
  <2>2. cut' = cut
    BY <1>3, <1>10, <1>12
  <2>3. n \in 1..(file.stat - HandedOver) /\ HandedOver' = HandedOver + n
    <3>1. \A from, size, k \in Nat : k >= 1 /\ from + k <= size => k \in 1 .. size - from
      OBVIOUS
    <3>2. h[c].offset + n <= file.stat /\ h[c].offset \in Nat /\ n \in Nat /\ n >= 1
      BY <1>2
    <3>3. n \in 1 .. file.stat - h[c].offset
      BY <1>10, <3>1, <3>2
    <3> QED
      BY <1>6, <1>8, <3>3
  <2>4. verdict'[c] = "DONE" <=> HandedOver' = file.stat
    <3>1. HandedOver' = h'[c].offset /\ h'[c].offset \in Nat
      BY <1>2, <1>8
    <3>2. CASE h'[c].offset = h[c].size /\ verdict'[c] = "DONE"
      BY <1>2, <3>1, <3>2
    <3>3. CASE h'[c].offset < h[c].size /\ UNCHANGED verdict
      BY <1>2, <1>10, <3>1, <3>3
    <3> QED
      BY <1>2, <3>2, <3>3
  <2>5. Told' = Told \cup {side \in {"SEND"} : HandedOver' = file'.stat}
    BY <1>3, <1>9, <2>4
  <2> QED
    BY <1>3, <1>6, <1>7, <2>1, <2>2, <2>3, <2>5 DEF Contract!HandOver
<1> QED
  BY <1>11, <1>12

LEMMA GettingFileReceives ==
  ASSUME DccInv, DccInv', NEW c \in Clients, WatchGettingFile(c)
  PROVE  Contract!Receive \/ Contract!Lose
<1>1. Streams /\ FileInv /\ TypeInv'
  BY DEF DccInv, Streams
<1>2. /\ h[Other(c)].state \in Sending /\ h'[c].state \in Getting
      /\ ~cut => /\ h'[c].offset = Pos' /\ GotIntact'
                 /\ Pos' <= h[Other(c)].offset
                 /\ verdict'[c] = "DONE" => Pos' = file.stat
  BY <1>1, GettingFileStreams
<1>3. /\ h[c].state = "GETTING_FILE" /\ verdict[c] = "running"
      /\ UNCHANGED <<file, resume, cut>>
      /\ h'[Other(c)] = h[Other(c)] /\ verdict'[Other(c)] = verdict[Other(c)]
      /\ h'[c].type = h[c].type /\ h'[c].fileFd = h[c].fileFd
  BY <1>1, Sides, GettingFileMoves
<1>4. PICK n \in 1..Len(wire[c]) :
        /\ got' = got \o Numbered(SubSeq(wire[c], 1, n))
        /\ h'[c].offset = Behind(c, n)
        /\ \/ Behind(c, n) >= h[c].size /\ verdict'[c] = "DONE"
           \/ Behind(c, n) < h[c].size /\ UNCHANGED verdict
  BY <1>1, Sides, GettingFileMoves
<1> DEFINE q == Numbered(SubSeq(wire[c], 1, n))
<1>5. q \in Seq(Nat) /\ Len(q) = n /\ n \in Nat /\ n >= 1
  <2>1. wire[c] \in Seq(Items) /\ Len(wire[c]) \in Nat
        /\ wire \in [Clients -> Seq(Items)]
    BY <1>1, Sides, Typed, LenProperties DEF TypeOK
  <2>2. n \in Nat /\ n >= 1 /\ n \in 0..Len(wire[c])
    BY <2>1
  <2>3. SubSeq(wire[c], 1, n) \in Seq(Items) /\ Len(SubSeq(wire[c], 1, n)) = n
    BY <2>1, <2>2, TakenType
  <2> QED
    BY <2>2, <2>3, NumberedItems
<1>6. got' = got \o q
  BY <1>4
<1> HIDE DEF q
<1>7. /\ h[Other(c)].type = "SEND" /\ h[c].type = "GET" /\ Phase = "agreed"
      /\ HandedOver = h[Other(c)].offset
  <2>1. h[c].state \in Getting /\ Other(c) \in Clients /\ Other(Other(c)) = c
    BY <1>3, OtherClient DEF Getting
  <2> QED
    BY <1>2, <2>1, Agreed
<1>8. Phase' = Phase
  BY <1>3, PhaseKept
<1>9. HandedOver' = HandedOver
  <2>1. h[c].state \notin Sending /\ h'[c].state \notin Sending
    BY <1>2, <1>3 DEF Sending, Getting
  <2> QED
    BY <1>3, <2>1, HandedKept
<1>10. Told' = Told \cup {type \in {"GET"} : verdict'[c] = "DONE"}
  BY <1>3, <1>7, ToldTo
<1>11. /\ HandedOver \in Nat /\ resume \in Nat /\ Len(got) \in Nat
       /\ got \in Seq(Nat) /\ file.stat \in Nat /\ cut \in BOOLEAN
  BY HandedNat
<1>12. CASE cut
  <2>1. UNCHANGED <<file, resume>> /\ cut' /\ cut' \in BOOLEAN
    BY <1>3, <1>11, <1>12
  <2>2. HandedOver' \in Nat /\ HandedOver <= HandedOver' /\ Told \subseteq Told'
    BY <1>9, <1>10, <1>11
  <2> QED
    BY <1>5, <1>6, <1>8, <2>1, <2>2, Loses
<1>13. CASE ~cut
  <2>1. "GET" \notin Told
    BY <1>3, <1>7, ToldBy
  <2> DEFINE reached == resume + Len(got)
             more == [i \in 1..n |-> reached + i]
  <2>2. /\ Len(got') = Len(got) + n
        /\ \A i \in 1 .. Len(got) + n :
             got'[i] = IF i <= Len(got) THEN got[i] ELSE q[i - Len(got)]
    <3>1. /\ Len(got') = Len(got) + Len(q)
          /\ \A i \in 1 .. Len(got) + Len(q) :
               got'[i] = IF i <= Len(got) THEN got[i] ELSE q[i - Len(got)]
      BY <1>5, <1>6, <1>11, ConcatProperties
    <3> QED
      BY <1>5, <3>1
  <2>3. reached \in Nat
    BY <1>11
  <2>4. \A i \in 1..n : q[i] = reached + i
    <3>1. TAKE i \in 1..n
    <3> DEFINE k == Len(got) + i
    <3>2. k \in 1 .. Len(got) + n /\ ~(k <= Len(got)) /\ k - Len(got) = i
      BY <1>5, <1>11
    <3>3. got'[k] = q[i]
      BY <2>2, <3>2
    <3>4. got' \in Seq(Nat)
      BY <1>1 DEF TypeInv, TypeOK
    <3>5. k \in DOMAIN got'
      BY <2>2, <3>2, <3>4, LenProperties
    <3>6. got'[k] = resume' + k
      BY <1>2, <1>13, <1>3, <3>5 DEF GotIntact
    <3> QED
      BY <1>3, <1>5, <1>11, <3>3, <3>6
  <2>5. more \in Seq(Nat) /\ Len(more) = n /\ \A i \in 1..n : more[i] = reached + i
    <3>1. \A i \in 1..n : reached + i \in Nat
      BY <1>5, <2>3
    <3> HIDE DEF reached
    <3> QED
      BY <1>5, <3>1
  <2> HIDE DEF more
  <2>6. q = more
    BY <1>5, <2>4, <2>5, SeqEqual
  <2>7. Pos' = reached + n
    BY <1>3, <1>5, <1>11, <2>2 DEF Pos
  <2>8. n \in 1 .. HandedOver - reached
    BY <1>2, <1>5, <1>7, <1>11, <1>13, <2>3, <2>7
  <2>9. verdict'[c] = "DONE" <=> Pos' = file.stat
    <3>1. h[c].size = file.stat
      BY <1>1, <1>3, <1>13 DEF FileInv, FileKnown, Getting
    <3>2. Behind(c, n) = Pos'
      BY <1>2, <1>4, <1>13
    <3>3. Pos' \in Nat
      BY <1>5, <2>3, <2>7
    <3> QED
      BY <1>2, <1>3, <1>4, <1>11, <1>13, <3>1, <3>2, <3>3
  <2>10. Told' = Told \cup {side \in {"GET"} : resume' + Len(got') = file'.stat}
    BY <1>3, <1>10, <2>9 DEF Pos
  <2>11. \E k \in 1 .. HandedOver - (resume + Len(got)) :
           got' = got \o [i \in 1..k |-> resume + Len(got) + i]
    BY <1>6, <2>6, <2>8 DEF more
  <2> HIDE DEF reached
  <2>12. HandedOver' = HandedOver /\ UNCHANGED <<file, resume, cut>>
    BY <1>3, <1>9
  <2> QED
    BY <1>7, <1>8, <2>1, <2>10, <2>11, <2>12
    DEF Contract!Receive, Contract!Reached
<1> QED
  BY <1>12, <1>13

\* An end of the transfer at which nothing is written.
LEMMA TransferEndsNothingLeft ==
  ASSUME DccInv, DccInv', NEW c \in Clients,
         \/ WatchSendingFileEnds(c) \/ WatchGettingFileFails(c)
         \/ WatchReadingVoiceDataFails(c)
  PROVE  Contract!NothingLeft \/ Kept
<1>1. Streams /\ FileInv /\ TypeInv' /\ DoneKnown(c)'
  BY DEF DccInv, Streams, FileInv
<1>2. /\ UNCHANGED <<h, data>> /\ verdict[c] = "running"
      /\ verdict'[Other(c)] = verdict[Other(c)]
      /\ verdict'[c] = "DONE" => h[c].state = "SENDING_FILE"
  BY <1>1, TransferEndsStreams
<1>3. CASE verdict'[c] # "DONE"
  <2>1. Plain(c)
    BY <1>2, <1>3 DEF Plain, data
  <2> QED
    BY <2>1, PlainKept
<1>4. CASE verdict'[c] = "DONE"
  <2>1. h[c].state \in Sending /\ h[c].offset >= h[c].size
    BY <1>1, <1>2, <1>4 DEF DoneKnown, Sending, Getting
  <2>2. h[Other(c)].state \in Getting
    BY <1>1, <2>1, Sides DEF Meets, Sending
  <2>3. /\ h[c].type = "SEND" /\ h[Other(c)].type = "GET" /\ Phase = "agreed"
        /\ HandedOver = h[c].offset /\ h[c].size = file.stat
    BY <2>1, <2>2, Agreed
  <2>4. "SEND" \notin Told
    BY <1>2, <2>3, ToldBy
  <2>5. Told' = Told \cup {"SEND"}
    <3>1. Told' = Told \cup {type \in {"SEND"} : verdict'[c] = "DONE"}
      BY <1>2, <2>3, ToldTo
    <3> QED
      BY <1>4, <3>1
  <2>6. Phase' = Phase
    BY <1>2, PhaseKept
  <2>7. HandedOver' = HandedOver
    BY <1>2, HandedKept DEF data
  <2> QED
    BY <1>2, <2>1, <2>3, <2>4, <2>5, <2>6, <2>7
    DEF Contract!NothingLeft, data
<1> QED
  BY <1>3, <1>4

LEMMA ReadingFileHeaderNothingLeft ==
  ASSUME DccInv, DccInv', NEW c \in Clients, WatchReadingFileHeader(c)
  PROVE  Contract!NothingLeft \/ Contract!Lose \/ Kept
<1>1. Streams /\ FileInv /\ BufInv /\ TypeInv'
  BY DEF DccInv, Streams
<1>2. /\ h[Other(c)].state \in Sending /\ h'[c].state \in Getting
      /\ ~cut /\ verdict'[c] = "DONE" => Pos = file.stat
  BY <1>1, ReadingFileHeaderStreams
<1>3. /\ h[c].state = "READING_FILE_HEADER" /\ verdict[c] = "running"
      /\ UNCHANGED data
      /\ h'[Other(c)] = h[Other(c)] /\ verdict'[Other(c)] = verdict[Other(c)]
      /\ h'[c].type = h[c].type /\ h'[c].fileFd = h[c].fileFd
  BY <1>1, Sides, HeaderMoves
<1>4. h[c].state \notin Sending /\ h'[c].state \notin Sending
  BY <1>2, <1>3 DEF Sending, Getting
<1>5. CASE verdict'[c] # "DONE"
  <2>1. Plain(c)
    BY <1>3, <1>4, <1>5 DEF Plain, data
  <2> QED
    BY <2>1, PlainKept
<1>6. CASE verdict'[c] = "DONE"
  <2>1. h[c].state \in Getting /\ Other(c) \in Clients /\ Other(Other(c)) = c
    BY <1>3, OtherClient DEF Getting
  <2>2. /\ h[Other(c)].type = "SEND" /\ h[c].type = "GET" /\ Phase = "agreed"
    BY <1>2, <2>1, Agreed
  <2>3. "GET" \notin Told
    BY <1>3, <2>2, ToldBy
  <2>4. Told' = Told \cup {"GET"}
    <3>1. Told' = Told \cup {type \in {"GET"} : verdict'[c] = "DONE"}
      BY <1>3, <2>2, ToldTo
    <3> QED
      BY <1>6, <3>1
  <2>5. Phase' = Phase
    BY <1>3, PhaseKept
  <2>6. HandedOver' = HandedOver
    BY <1>3, <1>4, HandedKept DEF data
  <2>7. UNCHANGED <<file, resume, got, cut>>
    BY <1>3 DEF data
  <2>8. CASE ~cut
    BY <1>2, <1>6, <2>2, <2>3, <2>4, <2>5, <2>6, <2>7, <2>8
    DEF Contract!NothingLeft, Contract!Reached, Pos
  <2>9. CASE cut
    <3>1. HandedOver \in Nat /\ got \in Seq(Nat) /\ cut \in BOOLEAN
      BY HandedNat
    <3>2. <<>> \in Seq(Nat) /\ got' = got \o <<>>
      BY <2>7, <3>1, ConcatEmptySeq
    <3>3. /\ UNCHANGED <<file, resume>> /\ cut' /\ cut' \in BOOLEAN
          /\ HandedOver' \in Nat /\ HandedOver <= HandedOver'
          /\ Told \subseteq Told'
      BY <2>4, <2>6, <2>7, <2>9, <3>1
    <3> QED
      BY <2>5, <3>2, <3>3, Loses
  <2> QED
    BY <2>8, <2>9
<1> QED
  BY <1>5, <1>6

LEMMA VoiceSendLoses ==
  ASSUME DccInv, DccInv', NEW c \in Clients, VoiceSend(c)
  PROVE  Contract!Lose \/ Kept
<1>1. UNCHANGED <<h, verdict, file, resume, got>> /\ (cut => cut')
  BY DEF VoiceSend
<1>2. Phase' = Phase /\ Told' = Told /\ HandedOver' = HandedOver
  BY <1>1 DEF Phase, Opened, Told, HandedOver, Sender
<1>3. cut \in BOOLEAN /\ cut' \in BOOLEAN /\ HandedOver \in Nat /\ got \in Seq(Nat)
  BY HandedNat DEF DccInv, Streams, TypeInv, TypeOK
<1>4. CASE cut'
  <2>1. <<>> \in Seq(Nat) /\ got' = got \o <<>>
    BY <1>1, <1>3, ConcatEmptySeq
  <2>2. /\ UNCHANGED <<file, resume>> /\ HandedOver' \in Nat
        /\ HandedOver <= HandedOver' /\ Told \subseteq Told'
    BY <1>1, <1>2, <1>3
  <2> QED
    BY <1>2, <1>3, <1>4, <2>1, <2>2, Loses
<1>5. CASE ~cut'
  BY <1>1, <1>2, <1>3, <1>5 DEF Kept, Contract!fileVars
<1> QED
  BY <1>4, <1>5

LEMMA QuietKept ==
  ASSUME UNCHANGED <<h, verdict, data>>
  PROVE  Kept
<1>1. Phase' = Phase /\ Told' = Told /\ HandedOver' = HandedOver
  BY DEF Phase, Opened, Told, HandedOver, Sender, data
<1> QED
  BY <1>1 DEF Kept, Contract!fileVars, data

LEMMA ContractInit == Init => Contract!FInit
<1> SUFFICES ASSUME Init
             PROVE  Contract!FInit
  OBVIOUS
<1>1. PICK type \in {"SEND", "GET", "VOICE"} :
        h = [c \in Clients |-> IF c = "caller"
                               THEN Fresh(type, "CONNECTING", "WRITE")
                               ELSE Fresh("DCC", "READING_UIN_1", "READ")]
  BY DEF Init
<1>2. \A c \in Clients : ~h[c].fileFd /\ h[c].state \notin Sending
  BY <1>1 DEF Fresh, Sending
<1>3. \A c \in Clients : verdict[c] = "running"
  BY DEF Init
<1>4. Phase = "idle"
  BY <1>2 DEF Phase, Opened
<1>5. Told = {}
  BY <1>3 DEF Told
<1>6. Sender = {}
  BY <1>2 DEF Sender, Sending
<1> QED
  BY <1>4, <1>5, <1>6 DEF Init, Contract!FInit, HandedOver

LEMMA ContractStep ==
  DccInv /\ DccInv' /\ [Next]_vars => Contract!FNext \/ Kept
<1> SUFFICES ASSUME DccInv, DccInv', [Next]_vars
             PROVE  Contract!FNext \/ Kept
  OBVIOUS
<1>1. TypeInv'
  BY DEF DccInv, Streams
<1>2. CASE Listen \/ UNCHANGED vars
  <2>1. UNCHANGED <<h, verdict, data>>
    BY <1>2 DEF Listen, Accept, AcceptFails, vars
  <2> QED
    BY <2>1, QuietKept
<1>3. ASSUME NEW c \in Clients, Watch(c)
      PROVE  Contract!FNext \/ Kept
  <2>1. CASE Handshake(c)
    BY <2>1, HandshakePlain, PlainKept
  <2>2. CASE Transfer(c)
    BY <1>1, <2>2, OfferPlain, PlainKept, ReadingFileAckKept, SendingFileHands,
      TransferEndsNothingLeft, ReadingFileHeaderNothingLeft,
      GettingFileReceives DEF Transfer, Contract!FNext
  <2>3. CASE Talk(c)
    BY <1>1, <2>3, TalkPlain, VoiceDataPlain, PlainKept,
      TransferEndsNothingLeft DEF Talk, Contract!FNext
  <2> QED
    BY <1>3, <2>1, <2>2, <2>3 DEF Watch
<1>4. ASSUME NEW c \in Clients,
             Prepare(c) \/ SetVoice(c) \/ VoiceSend(c) \/ FreeDcc(c)
      PROVE  Contract!FNext \/ Kept
  <2>1. CASE FreeDcc(c)
    <3>1. UNCHANGED <<h, verdict, data>>
      BY <2>1 DEF FreeDcc
    <3> QED
      BY <3>1, QuietKept
  <2> QED
    BY <1>1, <1>4, <2>1, FillFileInfoOffers, AnswerFileAgrees, SetVoicePlain,
      PlainKept, VoiceSendLoses DEF Prepare, Contract!FNext
<1> QED
  BY <1>2, <1>3, <1>4 DEF Next

\* However chunks, headers, buffers, short reads and the order of the two
\* sides' calls fall, and whoever dialled, the two clients see of a file what
\* FileContract promises them.
THEOREM FileContractKept == Spec => KeepsContract
<1>1. Init => Contract!FInit
  BY ContractInit
<1>2. DccInv /\ DccInv' /\ [Next]_vars => [Contract!FNext]_(Contract!fileVars)
  BY ContractStep DEF Kept
<1> QED
  BY <1>1, <1>2, DccInvariant, PTL DEF Spec, KeepsContract, Contract!FSpec
=============================================================================
