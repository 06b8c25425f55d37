-------------------------- MODULE Connected_proofs --------------------------
(***************************************************************************)
(* What is proved of a connected session, for every size of blocks and     *)
(* chunks, every set of peers, images and lists, and any number of calls.  *)
(***************************************************************************)
EXTENDS Connected, SequenceTheorems, FiniteSetTheorems, WellFoundedInduction, TLAPS

-----------------------------------------------------------------------------
(***************************************************************************)
(* A sequence in pieces: how far the first k of them reach.                *)
(***************************************************************************)
Reach(s, n, k) == IF k * n <= Len(s) THEN k * n ELSE Len(s)

LEMMA PieceCount ==
  ASSUME NEW len \in Nat, NEW n \in Nat \ {0}
  PROVE  LET m == (len + n - 1) \div n
         IN  m \in Nat /\ len <= m * n /\ (m > 0 => (m - 1) * n < len)
             /\ (m = 0 <=> len = 0)
OBVIOUS

LEMMA Multiples ==
  ASSUME NEW k \in Nat, NEW m \in Nat, k <= m, NEW n \in Nat
  PROVE  k * n \in Nat /\ k * n <= m * n
OBVIOUS

LEMMA PiecesOf ==
  ASSUME NEW S, NEW s \in Seq(S), NEW n \in Nat \ {0}
  PROVE  LET m == Len(Pieces(s, n))
         IN  /\ Pieces(s, n) \in Seq(Seq(S)) /\ m \in Nat
             /\ m = 0 <=> s = <<>>
             /\ SubSeq(s, 1, Reach(s, n, 0)) = <<>>
             /\ SubSeq(s, 1, Reach(s, n, m)) = s
             /\ \A k \in 0..m : Reach(s, n, k) \in 0..Len(s)
             /\ \A k \in 1..m :
                  SubSeq(s, 1, Reach(s, n, k - 1)) \o Pieces(s, n)[k]
                    = SubSeq(s, 1, Reach(s, n, k))
<1> DEFINE m == (Len(s) + n - 1) \div n
           P == Pieces(s, n)
<1>1. Len(s) \in Nat /\ (Len(s) = 0 <=> s = <<>>)
  BY EmptySeq, LenProperties
<1>2. /\ m \in Nat /\ Len(s) <= m * n
      /\ m > 0 => (m - 1) * n < Len(s)
      /\ m = 0 <=> s = <<>>
  BY <1>1, PieceCount
<1> HIDE DEF m
<1>3. \A k \in 0..m : Reach(s, n, k) \in 0..Len(s)
  BY <1>1, <1>2, Multiples DEF Reach
<1>4. ASSUME NEW k \in 1..m
      PROVE  /\ Reach(s, n, k - 1) = (k - 1) * n
             /\ (k - 1) * n \in 0..Len(s)
             /\ (k - 1) * n <= Reach(s, n, k)
             /\ SubSeq(s, (k - 1) * n + 1, Reach(s, n, k)) \in Seq(S)
  <2>1. k - 1 \in Nat /\ m - 1 \in Nat /\ k \in Nat /\ k - 1 <= m - 1 /\ m > 0
    BY <1>2
  <2>2. (k - 1) * n \in Nat /\ (k - 1) * n <= (m - 1) * n
    BY <2>1, Multiples
  <2>3. (k - 1) * n < Len(s)
    BY <1>1, <1>2, <2>1, <2>2
  <2>4. (k - 1) * n \in Nat /\ (k - 1) * n <= k * n /\ k * n \in Nat
    BY <2>1, Multiples
  <2>5. Reach(s, n, k - 1) = (k - 1) * n
    BY <2>3, <2>4 DEF Reach
  <2>6. (k - 1) * n <= Reach(s, n, k) /\ Reach(s, n, k) \in 0..Len(s)
    BY <1>1, <2>3, <2>4 DEF Reach
  <2>7. SubSeq(s, (k - 1) * n + 1, Reach(s, n, k)) \in Seq(S)
    BY <1>1, <2>3, <2>4, <2>6, SubSeqProperties
  <2> QED
    BY <1>1, <2>3, <2>4, <2>5, <2>6, <2>7
<1>5. P = [k \in 1..m |-> SubSeq(s, (k - 1) * n + 1, Reach(s, n, k))]
  BY DEF Pieces, Reach, m
<1>6. P \in [1..m -> Seq(S)]
  BY <1>4, <1>5
<1>7. P \in Seq(Seq(S)) /\ Len(P) = m
  BY <1>2, <1>6, SeqDef
<1>8. ASSUME NEW k \in 1..m
      PROVE  SubSeq(s, 1, Reach(s, n, k - 1)) \o P[k] = SubSeq(s, 1, Reach(s, n, k))
  <2>1. P[k] = SubSeq(s, (k - 1) * n + 1, Reach(s, n, k))
    BY <1>5
  <2>2. /\ (k - 1) * n \in 1 - 1 .. Len(s)
        /\ Reach(s, n, k) \in (k - 1) * n .. Len(s)
    BY <1>1, <1>2, <1>3, <1>4
  <2>3. SubSeq(s, 1, (k - 1) * n) \o SubSeq(s, (k - 1) * n + 1, Reach(s, n, k))
          = SubSeq(s, 1, Reach(s, n, k))
    BY <1>1, <2>2, ConcatAdjacentSubSeq, SMTT(40)
  <2> QED
    BY <1>4, <2>1, <2>3
<1>9. Reach(s, n, 0) = 0 /\ Reach(s, n, m) = Len(s)
  BY <1>1, <1>2 DEF Reach
<1>10. SubSeq(s, 1, 0) = <<>> /\ SubSeq(s, 1, Len(s)) = s
  BY SubSeqEmpty, SubSeqFull
<1> QED
  BY <1>2, <1>3, <1>7, <1>8, <1>9, <1>10

-----------------------------------------------------------------------------
(***************************************************************************)
(* The chunks of an image: each is not empty and begins where the one      *)
(* before it ends; the last one, and no other, reaches the image's end.    *)
(***************************************************************************)
ChunkFrom(chunk) == chunk.data[1] - 1
ChunkTo(chunk) == ChunkFrom(chunk) + Len(chunk.data)

LEMMA ChunkEnds ==
  ASSUME NEW size \in Nat, NEW k \in 1..ChunkCount(size)
  PROVE  /\ ChunkCount(size) \in Nat
         /\ ChunkEnd(size, k - 1) \in Nat /\ ChunkEnd(size, k) \in Nat
         /\ ChunkEnd(size, k - 1) < ChunkEnd(size, k)
         /\ ChunkEnd(size, k) <= size
         /\ ChunkEnd(size, k) = size <=> k = ChunkCount(size)
         /\ ChunkEnd(size, k - 1) = 0 <=> k = 1
<1> DEFINE m == (size + NameSize + Room - 1) \div Room
<1>1. Room \in Nat \ {0} /\ NameSize \in Nat \ {0} /\ NameSize < Room
  BY BlocksAssumption, NameFits
<1>2. size # 0 /\ ChunkCount(size) = m
  BY DEF ChunkCount
<1>3. /\ m \in Nat /\ size + NameSize <= m * Room /\ m > 0
      /\ (m - 1) * Room < size + NameSize
  BY <1>1, PieceCount
<1> HIDE DEF m
<1>4. k \in 1..m /\ k \in Nat /\ k - 1 \in Nat /\ m - 1 \in Nat
  BY <1>2, <1>3
<1> DEFINE u == (k - 1) * Room
           v == k * Room
           w == (m - 1) * Room
<1>5. u \in Nat /\ v \in Nat /\ w \in Nat /\ v = u + Room
  BY <1>1, <1>4
<1>6. u <= w /\ (k # m => v <= w) /\ w < size + NameSize
  <2>1. k - 1 <= m - 1 /\ (k # m => k <= m - 1) /\ Room \in Nat
    BY <1>1, <1>3, <1>4
  <2>2. u <= w
    BY <1>4, <2>1, Multiples
  <2>3. k # m => v <= w
    BY <1>4, <2>1, Multiples
  <2> QED
    BY <1>3, <2>2, <2>3
<1>7. /\ k = m => size + NameSize <= v
      /\ k # 1 => Room <= u
      /\ k = 1 => u = 0
  <2>1. k # 1 => 1 * Room <= u
    <3>1. k # 1 => 1 <= k - 1
      BY <1>4
    <3>2. 1 \in Nat /\ Room \in Nat
      BY <1>1
    <3> QED
      BY <1>4, <3>1, <3>2, Multiples
  <2>2. 1 * Room = Room
    BY <1>1
  <2>3. k = 1 => u = 0 * Room
    BY <1>4
  <2>4. 0 * Room = 0
    BY <1>1
  <2> QED
    BY <1>3, <2>1, <2>2, <2>3, <2>4
<1> DEFINE a == ChunkEnd(size, k - 1)
           b == ChunkEnd(size, k)
<1>8. /\ a = IF k = 1 THEN 0 ELSE IF u - NameSize <= size THEN u - NameSize ELSE size
      /\ b = IF v - NameSize <= size THEN v - NameSize ELSE size
  BY <1>4 DEF ChunkEnd
<1> HIDE DEF a, b, u, v, w
<1>9. /\ a \in Nat /\ b \in Nat /\ a < b /\ b <= size
      /\ b = size <=> k = m
      /\ a = 0 <=> k = 1
  BY <1>1, <1>2, <1>4, <1>5, <1>6, <1>7, <1>8
<1> QED
  BY <1>2, <1>3, <1>9 DEF a, b

LEMMA ChunkOf ==
  ASSUME NEW image \in Images, NEW k \in 1..ChunkCount(image.size), NEW whole
  PROVE  LET chunk == ImagePackets(image, whole)[k]
         IN  /\ chunk.type = "RECV_MSG" /\ chunk.image = image /\ chunk.whole = whole
             /\ chunk.option = IF k = 1 THEN "IMAGE_FIRST" ELSE "IMAGE_MORE"
             /\ chunk.data \in Seq(Nat) /\ Len(chunk.data) \in Nat \ {0}
             /\ ChunkFrom(chunk) = ChunkEnd(image.size, k - 1)
             /\ ChunkTo(chunk) = ChunkEnd(image.size, k)
             /\ \A j \in 1..Len(chunk.data) : chunk.data[j] = ChunkFrom(chunk) + j
<1> DEFINE chunk == ImagePackets(image, whole)[k]
           from == ChunkEnd(image.size, k - 1)
           to == ChunkEnd(image.size, k)
<1>1. from \in Nat /\ to \in Nat /\ from < to
  BY ImagesAssumption, ChunkEnds
<1>2. chunk = [type |-> "RECV_MSG", option |-> IF k = 1 THEN "IMAGE_FIRST" ELSE "IMAGE_MORE",
               image |-> image, whole |-> whole, data |-> [j \in 1 .. to - from |-> from + j]]
  BY DEF ImagePackets
<1> HIDE DEF chunk, from, to
<1>3. /\ chunk.type = "RECV_MSG" /\ chunk.image = image /\ chunk.whole = whole
      /\ chunk.option = IF k = 1 THEN "IMAGE_FIRST" ELSE "IMAGE_MORE"
      /\ chunk.data = [j \in 1 .. to - from |-> from + j]
  BY <1>2
<1>4. chunk.data \in [1 .. to - from -> Nat] /\ to - from \in Nat \ {0}
  BY <1>1, <1>3
<1>5. chunk.data \in Seq(Nat) /\ Len(chunk.data) = to - from
  BY <1>4, SeqDef
<1>6. \A j \in 1..Len(chunk.data) : chunk.data[j] = from + j
  BY <1>3, <1>5
<1>7. ChunkFrom(chunk) = from /\ ChunkTo(chunk) = to
  <2>1. chunk.data[1] = from + 1
    BY <1>4, <1>5, <1>6
  <2> QED
    BY <1>1, <1>5, <2>1 DEF ChunkFrom, ChunkTo
<1> QED
  BY <1>3, <1>4, <1>5, <1>6, <1>7 DEF chunk, from, to

-----------------------------------------------------------------------------
(***************************************************************************)
(* The packets that go to the server and those that come from either side. *)
(***************************************************************************)
Numbers == Seqs \cup {clock[2] : clock \in Clocks}
ListTypes == {"USERLIST_PUT", "USERLIST_PUT_MORE", "USERLIST_GET", "USERLIST_REPLY"}
NoteTypes == {"LIST_EMPTY", "NOTIFY_FIRST", "NOTIFY_LAST", "ADD_NOTIFY", "REMOVE_NOTIFY"}

ListRequests ==
  [type : {"USERLIST_PUT", "USERLIST_PUT_MORE"}, data : Seq(Nat)]
    \cup {[type |-> "USERLIST_GET"]}
NoteRequests == [type : NoteTypes, data : Seq(Nat)]
ImageRequests == [type : {"SEND_MSG"}, to : Peers, image : Images]
Searches == [type : {"PUBDIR50_REQUEST"}, seq : Numbers]
ForServer == ListRequests \cup NoteRequests \cup ImageRequests \cup Searches

ListReplies ==
  [type : {"USERLIST_REPLY"},
   reply : {"PUT_REPLY", "PUT_MORE_REPLY", "GET_MORE_REPLY", "GET_REPLY"},
   data : Seq(Nat)]
FoundItems == {Items(results, next) : results \in Results, next \in {0, 2}}
SearchReplies ==
  {reply \in [type : {"PUBDIR50_REPLY"}, form : {"whole", "short", "unended"}, seq : Numbers,
              items : FoundItems, results : Results, next : {0, 2}] :
     /\ reply.items = Items(reply.results, reply.next)
     /\ reply.results = <<>> => reply.next = 0}
Notes == [type : Notices]
FromServer == ListReplies \cup SearchReplies \cup Notes

Chunks ==
  UNION {{ImagePackets(image, whole)[k] : k \in 1..ChunkCount(image.size), whole \in BOOLEAN} :
           image \in Images}
NoImages == [type : {"RECV_MSG"}, option : {"IMAGE_NONE"}, image : Images]
Unnamed == [type : {"RECV_MSG"}, option : {"IMAGE_UNNAMED"}, image : Images]
Ours(group) == {i \in DOMAIN group : group[i] = "me"}
Conferences ==
  UNION {{ConferPackets(p, group, stale)[i] :
            p \in Peers, stale \in ToSet(group), i \in Ours(group)} : group \in Groups}
FromPeers == Chunks \cup NoImages \cup Unnamed \cup Conferences

Ids == {image.id : image \in Images}
Entries == [sender : Peers, size : Nat, crc32 : Ids, done : Nat, image : Seq(Nat),
            filename : Ids \cup {"NULL"}, whole : BOOLEAN, lost : BOOLEAN]

Memories ==
  [list : Seq(Nat), request : {"none", "put", "get"}, overlap : BOOLEAN,
   contacts : SUBSET Nat, images : [Peers -> Int], searches : Int,
   numbers : SUBSET {clock[1] : clock \in Clocks}, leaked : BOOLEAN,
   hidden : BOOLEAN]

EntryFits(entry) == entry.done <= entry.size /\ Len(entry.image) = entry.size

SessionTyped ==
  /\ userlistBlocks \in Int /\ userlistReply \in Seq(Nat)
  /\ errno \in {"EAGAIN", "EINVAL", "other"} /\ link \in {"up", "lossy", "broken", "over"}
  /\ images \in Seq(Entries) /\ \A i \in DOMAIN images : EntryFits(images[i])

WireTyped ==
  /\ wire \in [Sources -> Seq(FromPeers \cup FromServer)]
  /\ wire["server"] \in Seq(FromServer)
  /\ \A p \in Peers : wire[p] \in Seq(FromPeers)

Typed ==
  /\ SessionTyped
  /\ WireTyped
  /\ toServer \in Seq(ForServer)
  /\ stored \in Seq(Nat) /\ contacts \in [known : SUBSET Nat, coming : SUBSET Nat]
  /\ owed \in [Peers -> Seq(Images)]
  /\ asked \in Memories

\* Every request, and nothing else, is of one of these types.
LEMMA RequestTypes ==
  ASSUME NEW packet \in ForServer
  PROVE  /\ packet.type \in ListTypes <=> packet \in ListRequests
         /\ packet.type \in NoteTypes <=> packet \in NoteRequests
         /\ packet.type = "SEND_MSG" <=> packet \in ImageRequests
         /\ packet.type = "PUBDIR50_REQUEST" <=> packet \in Searches
BY DEF ForServer, ListRequests, NoteRequests, ImageRequests, Searches, ListTypes,
   NoteTypes

LEMMA ReplyTypes ==
  ASSUME NEW packet \in FromServer
  PROVE  /\ packet.type = "USERLIST_REPLY" <=> packet \in ListReplies
         /\ packet.type = "PUBDIR50_REPLY" <=> packet \in SearchReplies
         /\ packet.type \in Notices <=> packet \in Notes
         /\ packet.type # "RECV_MSG"
BY NoticesAssumption DEF FromServer, ListReplies, SearchReplies, Notes

LEMMA MessageTypes ==
  ASSUME NEW packet \in FromPeers
  PROVE  /\ packet.type = "RECV_MSG"
         /\ packet.option \in {"IMAGE_FIRST", "IMAGE_MORE"} <=> packet \in Chunks
         /\ packet.option = "IMAGE_NONE" <=> packet \in NoImages
         /\ packet.option = "IMAGE_UNNAMED" <=> packet \in Unnamed
         /\ packet.option = "CONFERENCE" <=> packet \in Conferences
         /\ packet \notin Conferences => packet.image \in Images
<1>1. ASSUME packet \in Chunks
      PROVE  /\ packet.type = "RECV_MSG" /\ packet.image \in Images
             /\ packet.option \in {"IMAGE_FIRST", "IMAGE_MORE"}
  <2>1. PICK image \in Images :
          \E k \in 1..ChunkCount(image.size), whole \in BOOLEAN :
             packet = ImagePackets(image, whole)[k]
    BY <1>1 DEF Chunks
  <2> QED
    BY <2>1, ChunkOf
<1>2. ASSUME packet \in Conferences
      PROVE  packet.type = "RECV_MSG" /\ packet.option = "CONFERENCE"
  <2>1. PICK group \in Groups : \E p \in Peers, stale \in ToSet(group),
               i \in DOMAIN group : packet = ConferPackets(p, group, stale)[i]
    BY <1>2 DEF Conferences, Ours
  <2> QED
    BY <2>1 DEF ConferPackets
<1>3. ASSUME packet \in NoImages
      PROVE  /\ packet.type = "RECV_MSG" /\ packet.option = "IMAGE_NONE"
             /\ packet.image \in Images
  BY <1>3 DEF NoImages
<1>4. ASSUME packet \in Unnamed
      PROVE  /\ packet.type = "RECV_MSG" /\ packet.option = "IMAGE_UNNAMED"
             /\ packet.image \in Images
  BY <1>4 DEF Unnamed
<1> QED
  BY <1>1, <1>2, <1>3, <1>4 DEF FromPeers

-----------------------------------------------------------------------------
(***************************************************************************)
(* What requests and replies are made of.                                  *)
(***************************************************************************)
LEMMA FunctionIsSeq ==
  ASSUME NEW n \in Nat, NEW S, NEW f \in [1..n -> S]
  PROVE  f \in Seq(S) /\ Len(f) = n /\ DOMAIN f = 1..n
BY SeqDef

LEMMA BlocksOf ==
  ASSUME NEW list \in Seq(Nat)
  PROVE  LET blocks == UserlistBlocks(list)
             m == Len(blocks)
             reached(k) == SubSeq(list, 1, Reach(list, ListBlock, k))
         IN  /\ blocks \in Seq(Seq(Nat)) /\ m \in Nat \ {0} /\ DOMAIN blocks = 1..m
             /\ reached(0) = <<>> /\ reached(m) = list
             /\ \A k \in 0..m : reached(k) \in Seq(Nat)
             /\ \A k \in 1..m : reached(k - 1) \o blocks[k] = reached(k)
<1> DEFINE blocks == UserlistBlocks(list)
           m == Len(blocks)
           reached(k) == SubSeq(list, 1, Reach(list, ListBlock, k))
<1>1. ListBlock \in Nat \ {0}
  BY BlocksAssumption
<1>2. CASE list = <<>>
  <2>1. blocks = <<list>> /\ m = 1
    BY <1>2 DEF UserlistBlocks
  <2>2. Reach(list, ListBlock, 0) = 0 /\ Reach(list, ListBlock, 1) = 0
    BY <1>1, <1>2 DEF Reach
  <2>3. reached(0) = <<>> /\ reached(1) = <<>>
    BY <2>2, SubSeqEmpty
  <2>4. blocks[1] = <<>> /\ <<>> \o <<>> = <<>> /\ <<>> \in Seq(Nat)
    BY <1>2, <2>1
  <2>5. blocks \in Seq(Seq(Nat)) /\ DOMAIN blocks = 1..1
    BY <2>1
  <2> QED
    <3>1. m \in Nat \ {0} /\ reached(m) = list
      BY <1>2, <2>1, <2>3
    <3>2. ASSUME NEW k \in 0..m PROVE reached(k) \in Seq(Nat)
      <4>1. k = 0 \/ k = 1
        BY <2>1
      <4> HIDE DEF reached
      <4> QED
        BY <2>3, <2>4, <4>1
    <3>3. \A k \in 1..m : reached(k - 1) \o blocks[k] = reached(k)
      <4> SUFFICES ASSUME NEW k \in 1..m PROVE reached(k - 1) \o blocks[k] = reached(k)
        OBVIOUS
      <4>1. k = 1 /\ k - 1 = 0
        BY <2>1
      <4> QED
        BY <2>3, <2>4, <4>1
    <3> QED
      BY <2>1, <2>3, <2>5, <3>1, <3>2, <3>3
<1>3. CASE list # <<>>
  <2>1. blocks = Pieces(list, ListBlock)
    BY <1>3 DEF UserlistBlocks
  <2>2. /\ blocks \in Seq(Seq(Nat)) /\ m \in Nat \ {0}
        /\ reached(0) = <<>> /\ reached(m) = list
        /\ \A k \in 0..m : Reach(list, ListBlock, k) \in 0..Len(list)
        /\ \A k \in 1..m : reached(k - 1) \o blocks[k] = reached(k)
    <3> DEFINE P == Pieces(list, ListBlock)
    <3>1. /\ P \in Seq(Seq(Nat)) /\ Len(P) \in Nat /\ (Len(P) = 0 <=> list = <<>>)
          /\ reached(0) = <<>> /\ reached(Len(P)) = list
          /\ \A k \in 0..Len(P) : Reach(list, ListBlock, k) \in 0..Len(list)
          /\ \A k \in 1..Len(P) : reached(k - 1) \o P[k] = reached(k)
      BY <1>1, PiecesOf, ZenonT(40)
    <3> HIDE DEF reached, P
    <3>2. blocks = P
      BY <2>1 DEF P
    <3> HIDE DEF blocks
    <3> QED
      BY <1>3, <3>1, <3>2
  <2>3. ASSUME NEW k \in 0..m PROVE reached(k) \in Seq(Nat)
    <3>1. Reach(list, ListBlock, k) \in 0..Len(list) /\ Len(list) \in Nat
      BY <2>2, LenProperties
    <3>2. \A i \in 1..Reach(list, ListBlock, k) : list[i] \in Nat
      BY <3>1, ElementOfSeq
    <3> QED
      BY <3>1, <3>2, SubSeqProperties
  <2>4. DOMAIN blocks = 1..m
    BY <2>2, LenProperties
  <2> QED
    BY <2>2, <2>3, <2>4
<1> QED
  BY <1>2, <1>3

LEMMA UserlistPacketsType ==
  ASSUME NEW list \in Seq(Nat)
  PROVE  LET packets == UserlistPackets(list)
         IN  /\ packets \in Seq(ListRequests) /\ packets \in Seq(ForServer)
             /\ Len(packets) = Len(UserlistBlocks(list)) /\ Len(packets) \in Nat \ {0}
             /\ \A k \in 1..Len(packets) :
                  /\ packets[k].data = UserlistBlocks(list)[k]
                  /\ packets[k].type = IF k = 1 THEN "USERLIST_PUT" ELSE "USERLIST_PUT_MORE"
<1> DEFINE blocks == UserlistBlocks(list)
           m == Len(blocks)
           packets == UserlistPackets(list)
           packet(k) == [type |-> IF k = 1 THEN "USERLIST_PUT" ELSE "USERLIST_PUT_MORE",
                         data |-> blocks[k]]
<1>1. blocks \in Seq(Seq(Nat)) /\ m \in Nat \ {0} /\ DOMAIN blocks = 1..m
  BY BlocksOf
<1>2. packets = [k \in 1..m |-> packet(k)]
  BY <1>1 DEF UserlistPackets
<1>3. \A k \in 1..m : blocks[k] \in Seq(Nat)
  BY <1>1, ElementOfSeq
<1>4. \A k \in 1..m : packet(k) \in ListRequests
  BY <1>3 DEF ListRequests
<1>5. packets \in [1..m -> ListRequests]
  BY <1>2, <1>4
<1> HIDE DEF m, packets
<1>6. packets \in Seq(ListRequests) /\ Len(packets) = m
  BY <1>1, <1>5, FunctionIsSeq
<1>7. packets \in Seq(ForServer)
  BY <1>6, SeqMonotonic DEF ForServer
<1>8. \A k \in 1..m : packets[k] = packet(k)
  BY <1>2
<1>9. ASSUME NEW k \in 1..m
      PROVE  /\ packets[k].data = blocks[k]
             /\ packets[k].type = IF k = 1 THEN "USERLIST_PUT" ELSE "USERLIST_PUT_MORE"
  <2>1. packets[k] = packet(k)
    BY <1>8
  <2>2. /\ packet(k).data = blocks[k]
        /\ packet(k).type = IF k = 1 THEN "USERLIST_PUT" ELSE "USERLIST_PUT_MORE"
    OBVIOUS
  <2> HIDE DEF packet
  <2> QED
    BY <2>1, <2>2
<1> HIDE DEF packet, blocks
<1>10. \A k \in 1..m :
         /\ packets[k].data = blocks[k]
         /\ packets[k].type = IF k = 1 THEN "USERLIST_PUT" ELSE "USERLIST_PUT_MORE"
  BY <1>9
<1> QED
  BY <1>1, <1>6, <1>7, <1>10 DEF packets, m, blocks

LEMMA UserlistPartsType ==
  ASSUME NEW list \in Seq(Nat)
  PROVE  LET parts == UserlistParts(list)
             m == Len(parts)
         IN  /\ parts \in Seq(ListReplies) /\ parts \in Seq(FromServer)
             /\ m = Len(UserlistBlocks(list)) /\ m \in Nat \ {0}
             /\ \A k \in 1..m :
                  /\ parts[k].data = UserlistBlocks(list)[k]
                  /\ parts[k].reply = IF k < m THEN "GET_MORE_REPLY" ELSE "GET_REPLY"
<1> DEFINE blocks == UserlistBlocks(list)
           m == Len(blocks)
           parts == UserlistParts(list)
           part(k) == [type |-> "USERLIST_REPLY",
                       reply |-> IF k < m THEN "GET_MORE_REPLY" ELSE "GET_REPLY",
                       data |-> blocks[k]]
<1>1. blocks \in Seq(Seq(Nat)) /\ m \in Nat \ {0} /\ DOMAIN blocks = 1..m
  BY BlocksOf
<1>2. parts = [k \in 1..m |-> part(k)]
  BY <1>1 DEF UserlistParts, UserlistReply
<1>3. \A k \in 1..m : blocks[k] \in Seq(Nat)
  BY <1>1, ElementOfSeq
<1>4. \A k \in 1..m : part(k) \in ListReplies
  BY <1>3 DEF ListReplies
<1>5. parts \in [1..m -> ListReplies]
  BY <1>2, <1>4
<1> HIDE DEF m, parts
<1>6. parts \in Seq(ListReplies) /\ Len(parts) = m
  BY <1>1, <1>5, FunctionIsSeq
<1>7. parts \in Seq(FromServer)
  BY <1>6, SeqMonotonic DEF FromServer
<1>8. \A k \in 1..m : parts[k] = part(k)
  BY <1>2
<1>9. \A k \in 1..Len(parts) :
        /\ parts[k].data = blocks[k]
        /\ parts[k].reply = IF k < Len(parts) THEN "GET_MORE_REPLY" ELSE "GET_REPLY"
  BY <1>6, <1>8
<1> QED
  BY <1>1, <1>6, <1>7, <1>9 DEF parts, m

LEMMA NotifyPacketsType ==
  ASSUME NEW list \in Seq(Nat)
  PROVE  LET packets == NotifyPackets(list)
             m == Len(packets)
         IN  /\ packets \in Seq(NoteRequests) /\ packets \in Seq(ForServer)
             /\ m \in Nat \ {0}
             /\ list = <<>> => /\ m = 1 /\ packets[1].type = "LIST_EMPTY"
                               /\ packets[1].data = <<>>
             /\ list # <<>> =>
                  /\ m = Len(Pieces(list, NotifyBlock))
                  /\ \A k \in 1..m :
                       /\ packets[k].data = Pieces(list, NotifyBlock)[k]
                       /\ packets[k].type = IF k < m THEN "NOTIFY_FIRST" ELSE "NOTIFY_LAST"
<1> DEFINE packets == NotifyPackets(list)
<1>1. NotifyBlock \in Nat \ {0}
  BY BlocksAssumption
<1>2. CASE list = <<>>
  <2>1. packets = <<[type |-> "LIST_EMPTY", data |-> <<>>]>>
    BY <1>2 DEF NotifyPackets
  <2>2. [type |-> "LIST_EMPTY", data |-> <<>>] \in NoteRequests
    BY DEF NoteRequests, NoteTypes
  <2>3. packets \in Seq(NoteRequests) /\ Len(packets) = 1
    BY <2>1, <2>2
  <2>4. packets \in Seq(ForServer)
    BY <2>3, SeqMonotonic DEF ForServer
  <2> QED
    BY <1>2, <2>1, <2>3, <2>4
<1>3. CASE list # <<>>
  <2> DEFINE blocks == Pieces(list, NotifyBlock)
             m == Len(blocks)
             packet(k) == [type |-> IF k < m THEN "NOTIFY_FIRST" ELSE "NOTIFY_LAST",
                           data |-> blocks[k]]
  <2>1. blocks \in Seq(Seq(Nat)) /\ m \in Nat \ {0}
    BY <1>1, <1>3, PiecesOf
  <2>2. DOMAIN blocks = 1..m /\ \A k \in 1..m : blocks[k] \in Seq(Nat)
    BY <2>1, LenProperties, ElementOfSeq
  <2>3. packets = [k \in 1..m |-> packet(k)]
    BY <1>3, <2>2 DEF NotifyPackets
  <2>4. \A k \in 1..m : packet(k) \in NoteRequests
    BY <2>2 DEF NoteRequests, NoteTypes
  <2>5. packets \in [1..m -> NoteRequests]
    BY <2>3, <2>4
  <2> HIDE DEF m, packets
  <2>6. packets \in Seq(NoteRequests) /\ Len(packets) = m
    BY <2>1, <2>5, FunctionIsSeq
  <2>7. packets \in Seq(ForServer)
    BY <2>6, SeqMonotonic DEF ForServer
  <2>8. \A k \in 1..m : packets[k] = packet(k)
    BY <2>3
  <2>9. \A k \in 1..Len(packets) :
          /\ packets[k].data = blocks[k]
          /\ packets[k].type = IF k < Len(packets) THEN "NOTIFY_FIRST" ELSE "NOTIFY_LAST"
    BY <2>6, <2>8
  <2> QED
    BY <1>3, <2>1, <2>6, <2>7, <2>9 DEF packets, m
<1> QED
  BY <1>2, <1>3

LEMMA ImagePacketsType ==
  ASSUME NEW image \in Images, NEW whole \in BOOLEAN
  PROVE  LET packets == ImagePackets(image, whole)
         IN  /\ packets \in Seq(Chunks) /\ packets \in Seq(FromPeers)
             /\ Len(packets) = ChunkCount(image.size) /\ Len(packets) \in Nat
<1> DEFINE packets == ImagePackets(image, whole)
           m == ChunkCount(image.size)
<1>1. m \in Nat
  <2>1. Room \in Nat \ {0} /\ NameSize \in Nat /\ image.size \in Nat
    BY BlocksAssumption, ImagesAssumption
  <2>2. image.size + NameSize \in Nat
    BY <2>1
  <2> QED
    BY <2>1, <2>2, PieceCount DEF ChunkCount
<1>2. \A k \in 1..m : packets[k] \in Chunks
  BY DEF Chunks
<1>3. DOMAIN packets = 1..m /\ packets = [k \in 1..m |-> packets[k]]
  BY DEF ImagePackets
<1>4. packets \in [1..m -> Chunks]
  BY <1>2, <1>3
<1>5. packets \in Seq(Chunks) /\ Len(packets) = m
  BY <1>1, <1>4, SeqDef
<1>6. packets \in Seq(FromPeers)
  BY <1>5, SeqMonotonic DEF FromPeers
<1> QED
  BY <1>1, <1>5, <1>6

-----------------------------------------------------------------------------
(***************************************************************************)
(* The types, call by call and packet by packet.                           *)
(***************************************************************************)
LEMMA FirstPart ==
  ASSUME NEW S, NEW s \in Seq(S), NEW n \in 0..Len(s)
  PROVE  /\ SubSeq(s, 1, n) \in Seq(S) /\ Len(SubSeq(s, 1, n)) = n
         /\ \A i \in 1..n : SubSeq(s, 1, n)[i] = s[i]
<1>1. Len(s) \in Nat
  BY LenProperties
<1>2. \A i \in 1..n : s[i] \in S
  BY <1>1, ElementOfSeq
<1> QED
  BY <1>1, <1>2, SubSeqProperties

\* The first of some numbers, and what holds after every round of a loop.
LEMMA EarliestOf ==
  ASSUME NEW n \in Nat, NEW S \in SUBSET (1..n), S # {}
  PROVE  Earliest(S) \in S /\ \A i \in S : Earliest(S) <= i
<1>1. \E x \in S : \A y \in S : x <= y
  <2> DEFINE R == OpToRel(<, Nat)
  <2>1. IsWellFoundedOn(R, Nat)
    BY NatLessThanWellFounded
  <2> HIDE DEF R
  <2>2. \A x, y \in Nat : <<y, x>> \in R <=> y < x
    BY DEF R, OpToRel
  <2>3. S \subseteq Nat
    OBVIOUS
  <2>4. PICK x \in S : \A y \in S : ~ (<<y, x>> \in R)
    BY <2>1, <2>3, WFMin
  <2>5. ASSUME NEW y \in S PROVE x <= y
    <3>1. x \in Nat /\ y \in Nat
      OBVIOUS
    <3>2. <<y, x>> \in R <=> y < x
      BY <2>2, <3>1
    <3>3. ~ (y < x)
      BY <2>4, <3>2
    <3> QED
      BY <3>1, <3>3
  <2> QED
    BY <2>5
<1> QED
  BY <1>1 DEF Earliest

LEMMA AllRounds ==
  ASSUME NEW N \in Nat, NEW G, 0 \in G, \A n \in 0..N - 1 : n \in G => n + 1 \in G
  PROVE  \A n \in 0..N : n \in G
<1> DEFINE S == {n \in 1..N : n \notin G}
<1>1. CASE S = {}
  BY <1>1
<1>2. CASE S # {}
  <2>1. S \in SUBSET (1..N)
    OBVIOUS
  <2> DEFINE m == Earliest(S)
  <2>2. m \in S /\ \A i \in S : m <= i
    BY <1>2, <2>1, EarliestOf
  <2> HIDE DEF m
  <2>3. m \in 1..N /\ m \notin G
    BY <2>2
  <2>4. m - 1 \in 0..N - 1 /\ m - 1 + 1 = m
    BY <2>3
  <2>5. m - 1 \in G
    <3>1. CASE m = 1
      BY <3>1
    <3>2. CASE m # 1
      <4>1. m - 1 \in 1..N /\ ~(m <= m - 1)
        BY <2>3, <3>2
      <4> QED
        BY <2>2, <4>1
    <3> QED
      BY <3>1, <3>2
  <2>6. m - 1 + 1 \in G
    BY <2>4, <2>5
  <2> QED
    BY <2>3, <2>4, <2>6
<1> QED
  BY <1>1, <1>2

\* The places of the numbers that are kept go from 1 to as many as they are.
LEMMA PlacesFilled ==
  ASSUME NEW n \in Nat, NEW kept \in SUBSET (1..n)
  PROVE  /\ IsFiniteSet(kept) /\ Cardinality(kept) \in 0..n
         /\ \A k \in 1..Cardinality(kept) : \E j \in kept : Place(kept, j) = k
<1> DEFINE upto(m) == {h \in kept : h <= m}
           Filled1(m) == \A k \in 1..Cardinality(upto(m)) : \E j \in kept : Place(kept, j) = k
           G == {m \in 0..n : Filled1(m)}
<1>0. n \in Int /\ \A h \in kept : h \in Int /\ 1 <= h /\ h <= n
  OBVIOUS
<1>1. IsFiniteSet(1..n) /\ Cardinality(1..n) = n
  BY FS_Interval
<1>2. IsFiniteSet(kept) /\ Cardinality(kept) \in Nat /\ Cardinality(kept) <= n
  BY <1>1, FS_Subset, FS_CardinalityType
<1>3. \A m \in 0..n : IsFiniteSet(upto(m)) /\ Cardinality(upto(m)) \in Nat
  BY <1>2, FS_Subset, FS_CardinalityType
<1>4. 0 \in G
  <2>1. \A h \in kept : ~(h <= 0)
    BY <1>0
  <2>3. upto(0) = {}
    BY <2>1
  <2>2. Cardinality(upto(0)) = 0
    BY <2>3, FS_EmptySet
  <2> HIDE DEF upto
  <2> QED
    BY <2>2
<1>5. ASSUME NEW m \in 0..n - 1, m \in G
      PROVE  m + 1 \in G
  <2>1. m + 1 \in 0..n /\ m \in 0..n
    OBVIOUS
  <2>4. \A h \in Int : (h <= m + 1 <=> h <= m \/ h = m + 1) /\ (h <= m => h # m + 1)
    OBVIOUS
  <2>2. CASE m + 1 \in kept
    <3>1. upto(m + 1) = upto(m) \cup {m + 1} /\ m + 1 \notin upto(m)
      BY <1>0, <2>2, <2>4
    <3>2. Cardinality(upto(m + 1)) = Cardinality(upto(m)) + 1
      BY <1>3, <2>1, <3>1, FS_AddElement
    <3>3. Place(kept, m + 1) = Cardinality(upto(m + 1))
      BY DEF Place
    <3>4. Filled1(m)
      BY <1>5
    <3> HIDE DEF upto
    <3>5. \A k \in 1..Cardinality(upto(m + 1)) :
             k \in 1..Cardinality(upto(m)) \/ k = Cardinality(upto(m + 1))
      BY <1>3, <2>1, <3>2
    <3>6. Filled1(m + 1)
      BY <2>2, <3>3, <3>4, <3>5
    <3> QED
      BY <2>1, <3>6
  <2>3. CASE m + 1 \notin kept
    <3>1. upto(m + 1) = upto(m)
      BY <1>0, <2>3, <2>4
    <3> QED
      BY <1>5, <2>1, <3>1
  <2> QED
    BY <2>2, <2>3
<1>6. n \in G
  <2> HIDE DEF G
  <2> QED
    BY <1>4, <1>5, AllRounds
<1>7. upto(n) = kept
  BY <1>0
<1>8. Filled1(n)
  BY <1>6
<1>9. \A k \in 1..Cardinality(kept) : \E j \in kept : Place(kept, j) = k
  BY <1>7, <1>8
<1> QED
  BY <1>2, <1>9

\* What a call sends: some of its packets, all of them only if it got to the
\* last one, and otherwise fewer than it tried.
LEMMA SentOf ==
  ASSUME NEW S, NEW packets \in Seq(S), NEW fate \in Fates(Len(packets))
  PROVE  /\ fate.res \in {0, -1} /\ fate.tried \in 1..Len(packets)
         /\ Picked(packets, fate.through) \in Seq(S)
         /\ Len(Picked(packets, fate.through)) = Cardinality(fate.through)
         /\ Cardinality(fate.through) \in 0..Len(packets)
         /\ \A k \in 1..Cardinality(fate.through) :
              \E j \in 1..Len(packets) : Picked(packets, fate.through)[k] = packets[j]
         /\ fate.through = DOMAIN packets =>
              /\ Picked(packets, fate.through) = packets /\ fate.tried = Len(packets)
              /\ Cardinality(fate.through) = Len(packets)
         /\ fate.through # DOMAIN packets => Cardinality(fate.through) < fate.tried
<1> DEFINE n == Len(packets)
           kept == fate.through
           size == Cardinality(kept)
           sent == Picked(packets, kept)
           which(k) == CHOOSE j \in kept : Place(kept, j) = k
<1>1. n \in Nat /\ DOMAIN packets = 1..n /\ \A j \in 1..n : packets[j] \in S
  BY LenProperties, ElementOfSeq
<1>2. /\ fate.res \in {0, -1} /\ fate.tried \in 1..n /\ kept \in SUBSET (1..n)
      /\ kept \subseteq 1..fate.tried
      /\ fate.res = 0 => fate.tried = n
      /\ fate.res = -1 => fate.tried \notin kept
  BY DEF Fates
<1> HIDE DEF n, kept
<1>3. IsFiniteSet(kept) /\ size \in 0..n /\ \A k \in 1..size : \E j \in kept : Place(kept, j) = k
  BY <1>1, <1>2, PlacesFilled
<1>4. \A k \in 1..size : which(k) \in kept /\ Place(kept, which(k)) = k
  BY <1>3
<1>5. sent = [k \in 1..size |-> packets[which(k)]]
  BY DEF Picked
<1> HIDE DEF sent, size, which
<1>6. \A k \in 1..size : sent[k] = packets[which(k)] /\ which(k) \in 1..n
  BY <1>2, <1>4, <1>5
<1>7. sent \in [1..size -> S]
  BY <1>1, <1>5, <1>6
<1>8. sent \in Seq(S) /\ Len(sent) = size
  BY <1>3, <1>7, FunctionIsSeq
<1>9. ASSUME kept = 1..n
      PROVE  sent = packets /\ fate.tried = n /\ size = n
  <2>1. IsFiniteSet(1..n) /\ Cardinality(1..n) = n
    BY <1>1, FS_Interval
  <2>2. size = n
    BY <1>9, <2>1 DEF size
  <2>3. ASSUME NEW j \in 1..n PROVE Place(kept, j) = j
    <3>1. {h \in kept : h <= j} = 1..j
      BY <1>1, <1>9
    <3>2. Cardinality(1..j) = j
      BY <1>1, FS_Interval
    <3> QED
      BY <3>1, <3>2 DEF Place
  <2>4. ASSUME NEW k \in 1..n PROVE sent[k] = packets[k]
    <3>1. which(k) \in 1..n /\ Place(kept, which(k)) = k
      BY <1>4, <1>9, <2>2
    <3>2. which(k) = k
      BY <2>3, <3>1
    <3> QED
      BY <1>6, <2>2, <3>2
  <2>5. sent = packets
    BY <1>1, <1>8, <2>2, <2>4, SeqEqual
  <2>6. fate.tried = n
    BY <1>1, <1>2, <1>9
  <2> QED
    BY <2>2, <2>5, <2>6
<1>10. ASSUME kept # 1..n
       PROVE  size < fate.tried
  <2>1. kept # 1..fate.tried
    BY <1>1, <1>2, <1>10
  <2>0. fate.tried \in Nat
    BY <1>1, <1>2
  <2>4. \A t \in Nat : IsFiniteSet(1..t) /\ Cardinality(1..t) = t
    BY FS_Interval
  <2>2. IsFiniteSet(1..fate.tried) /\ Cardinality(1..fate.tried) = fate.tried
    BY <2>0, <2>4
  <2>3. size <= fate.tried /\ size # fate.tried
    BY <1>2, <2>1, <2>2, FS_Subset DEF size
  <2> QED
    BY <1>1, <1>2, <1>3, <2>3
<1> QED
  BY <1>1, <1>2, <1>3, <1>6, <1>8, <1>9, <1>10 DEF n, kept, sent, size

\* A single packet is sent, or nothing is.
LEMMA SentOne ==
  ASSUME NEW packet, NEW fate \in Fates(1)
  PROVE  /\ fate.res \in {0, -1} /\ fate.tried = 1
         /\ \/ /\ fate.through = DOMAIN <<packet>> /\ Cardinality(fate.through) = 1
               /\ Picked(<<packet>>, fate.through) = <<packet>>
            \/ /\ fate.through # DOMAIN <<packet>> /\ Cardinality(fate.through) = 0
               /\ Picked(<<packet>>, fate.through) = <<>>
<1> DEFINE packets == <<packet>>
           sent == Picked(packets, fate.through)
           size == Cardinality(fate.through)
<1>1. packets \in Seq({packet}) /\ Len(packets) = 1
  OBVIOUS
<1> HIDE DEF packets
<1>2. /\ fate.res \in {0, -1} /\ fate.tried \in 1..1
      /\ sent \in Seq({packet}) /\ Len(sent) = size /\ size \in 0..1
      /\ fate.through = DOMAIN packets => sent = packets /\ size = 1
      /\ fate.through # DOMAIN packets => size < fate.tried
  <2> DEFINE S == {packet}
  <2>1. packets \in Seq(S) /\ fate \in Fates(Len(packets))
    BY <1>1
  <2> HIDE DEF S
  <2>2. /\ fate.res \in {0, -1} /\ fate.tried \in 1..Len(packets)
        /\ sent \in Seq(S) /\ Len(sent) = size /\ size \in 0..Len(packets)
        /\ fate.through = DOMAIN packets => sent = packets /\ size = Len(packets)
        /\ fate.through # DOMAIN packets => size < fate.tried
    BY <2>1, SentOf
  <2> HIDE DEF sent, size
  <2> QED
    BY <1>1, <2>2 DEF S
<1> HIDE DEF sent, size
<1>3. size = 0 => sent = <<>>
  BY <1>2, EmptySeq
<1> QED
  BY <1>2, <1>3 DEF packets, sent, size

LEMMA FateOne ==
  ASSUME NEW fate \in Fates(1)
  PROVE  Cardinality(fate.through) \in {0, 1} /\ fate.tried = 1 /\ fate.res \in {0, -1}
<1> DEFINE packet == 0
<1>1. \/ Cardinality(fate.through) = 1 /\ Picked(<<packet>>, fate.through) = <<packet>>
      \/ Cardinality(fate.through) = 0 /\ Picked(<<packet>>, fate.through) = <<>>
  BY SentOne
<1>2. fate.tried = 1 /\ fate.res \in {0, -1}
  BY SentOne
<1> QED
  BY <1>1, <1>2

LEMMA ImagesCounted ==
  ASSUME NEW memory \in Memories, NEW p \in Peers, NEW n \in Int
  PROVE  /\ [memory EXCEPT !.images[p] = @ + n] \in Memories
         /\ [memory EXCEPT !.images[p] = @ - n] \in Memories
<1> DEFINE more == [memory.images EXCEPT ![p] = @ + n]
           less == [memory.images EXCEPT ![p] = @ - n]
<1>1. memory.images \in [Peers -> Int]
  BY DEF Memories
<1>2. more \in [Peers -> Int] /\ less \in [Peers -> Int]
  BY <1>1
<1> HIDE DEF more, less
<1>3. [memory EXCEPT !.images = more] \in Memories /\ [memory EXCEPT !.images = less] \in Memories
  BY <1>2 DEF Memories
<1> QED
  BY <1>3 DEF more, less

LEMMA SendsTyped ==
  ASSUME Typed, NEW packets \in Seq(ForServer), NEW fate \in Fates(Len(packets)),
         Sends(packets, fate)
  PROVE  toServer' \in Seq(ForServer) /\ link' \in {"up", "lossy", "broken", "over"}
<1>1. Picked(packets, fate.through) \in Seq(ForServer)
  BY SentOf
<1>2. toServer' \in Seq(ForServer)
  BY <1>1, ConcatProperties DEF Sends, Typed
<1>3. link' \in {"up", "lossy", "broken", "over"}
  BY DEF Sends, Typed, SessionTyped
<1> QED
  BY <1>2, <1>3

\* What a call changes besides: a step of a call keeps the types if it keeps
\* those of the session and of what was asked.
LEMMA CallTyped ==
  ASSUME Typed, NEW packets \in Seq(ForServer), NEW fate \in Fates(Len(packets)),
         NEW call, NEW said, Called(call, said), Sends(packets, fate),
         userlistBlocks' \in Int, UNCHANGED userlistReply,
         images' \in Seq(Entries), \A i \in DOMAIN images' : EntryFits(images'[i]),
         asked' \in Memories
  PROVE  Typed'
<1>1. toServer' \in Seq(ForServer) /\ link' \in {"up", "lossy", "broken", "over"}
  BY SendsTyped
<1>2. UNCHANGED <<errno, wire, stored, contacts, owed>>
  BY DEF Called, farEnd
<1> QED
  BY <1>1, <1>2 DEF Typed, SessionTyped, WireTyped

LEMMA UserlistPutTyped ==
  ASSUME Typed, NEW list \in Lists, UserlistPut(list)
  PROVE  Typed'
<1>1. list \in Seq(Nat)
  BY ListsAssumption
<1> DEFINE packets == UserlistPackets(list)
<1>2. packets \in Seq(ForServer) /\ Len(packets) \in Nat
  BY <1>1, UserlistPacketsType
<1>3. PICK fate \in Fates(Len(packets)) :
        /\ Called("userlist", fate.res)
        /\ Sends(packets, fate)
        /\ userlistBlocks' = BlocksCounted(fate)
        /\ asked' = [AsksList(asked, "put") EXCEPT !.list = list]
        /\ UNCHANGED <<userlistReply, images>>
  BY DEF UserlistPut
<1> HIDE DEF packets
<1>4. userlistBlocks' \in Int
  BY <1>2, <1>3, SentOf DEF BlocksCounted
<1>5. asked' \in Memories
  <2>1. asked \in Memories
    BY DEF Typed
  <2> QED
    BY <1>1, <1>3, <2>1 DEF Memories, AsksList
<1> QED
  BY <1>2, <1>3, <1>4, <1>5, CallTyped DEF Typed, SessionTyped

LEMMA UserlistGetTyped ==
  ASSUME Typed, UserlistGet
  PROVE  Typed'
<1> DEFINE packets == <<[type |-> "USERLIST_GET"]>>
<1>1. packets \in Seq(ForServer) /\ Len(packets) = 1
  <2>1. [type |-> "USERLIST_GET"] \in ForServer
    BY DEF ForServer, ListRequests
  <2> QED
    BY <2>1
<1>2. PICK fate \in Fates(1) :
        /\ Called("userlist", fate.res)
        /\ Sends(packets, fate)
        /\ userlistBlocks' = 1
        /\ asked' = AsksList(asked, "get")
        /\ UNCHANGED <<userlistReply, images>>
  BY DEF UserlistGet
<1> HIDE DEF packets
<1>3. asked' \in Memories
  <2>1. asked \in Memories
    BY DEF Typed
  <2> QED
    BY <1>2, <2>1 DEF Memories, AsksList
<1>4. fate \in Fates(Len(packets))
  BY <1>1
<1>5. /\ userlistBlocks' \in Int /\ UNCHANGED userlistReply /\ images' \in Seq(Entries)
      /\ \A i \in DOMAIN images' : EntryFits(images'[i])
  BY <1>2 DEF Typed, SessionTyped
<1> QED
  BY <1>1, <1>2, <1>3, <1>4, <1>5, CallTyped

LEMMA ImageRequestTyped ==
  ASSUME Typed, NEW peer \in Peers, NEW image \in Images, ImageRequest(peer, image)
  PROVE  Typed'
<1> DEFINE packets == <<[type |-> "SEND_MSG", to |-> peer, image |-> image]>>
<1>1. packets \in Seq(ForServer) /\ Len(packets) = 1
  <2>1. [type |-> "SEND_MSG", to |-> peer, image |-> image] \in ForServer
    BY DEF ForServer, ImageRequests
  <2> QED
    BY <2>1
<1>2. PICK fate \in Fates(1) :
        /\ Called("image", fate.res)
        /\ Sends(packets, fate)
        /\ images' = IF fate.res = 0 THEN Append(images, NewImage(peer, image)) ELSE images
        /\ asked' = [asked EXCEPT !.images[peer] = @ + Cardinality(fate.through)]
        /\ UNCHANGED <<userlistBlocks, userlistReply>>
  BY DEF ImageRequest
<1> HIDE DEF packets
<1>3. asked' \in Memories
  <2>1. asked \in Memories
    BY DEF Typed
  <2>2. [asked EXCEPT !.images[peer] = @ + Cardinality(fate.through)] \in Memories
    <3>1. Cardinality(fate.through) \in Int
      BY FateOne
    <3> QED
      BY <2>1, <3>1, ImagesCounted
  <2>3. asked' = [asked EXCEPT !.images[peer] = @ + Cardinality(fate.through)]
    BY <1>2
  <2> QED
    BY <2>2, <2>3
<1>4. fate \in Fates(Len(packets))
  BY <1>1
<1>5. NewImage(peer, image) \in Entries /\ EntryFits(NewImage(peer, image))
  <2>1. image.size \in Nat /\ image.id \in Ids
    BY ImagesAssumption DEF Ids
  <2> DEFINE empty == [i \in 1 .. image.size |-> 0]
  <2>2. empty \in [1 .. image.size -> Nat]
    OBVIOUS
  <2>3. empty \in Seq(Nat) /\ Len(empty) = image.size
    BY <2>1, <2>2, FunctionIsSeq
  <2> HIDE DEF empty
  <2>4. NewImage(peer, image) =
          [sender |-> peer, size |-> image.size, crc32 |-> image.id, done |-> 0,
           image |-> empty, filename |-> "NULL", whole |-> FALSE, lost |-> FALSE]
    BY DEF NewImage, empty
  <2> QED
    BY <2>1, <2>3, <2>4 DEF Entries, EntryFits
<1>6. images \in Seq(Entries) /\ \A i \in DOMAIN images : EntryFits(images[i])
  BY DEF Typed, SessionTyped
<1>7. images' \in Seq(Entries) /\ \A i \in DOMAIN images' : EntryFits(images'[i])
  <2> HIDE DEF NewImage
  <2>1. CASE fate.res = 0
    <3>1. images' = Append(images, NewImage(peer, image))
      BY <1>2, <2>1
    <3>2. /\ images' \in Seq(Entries) /\ DOMAIN images' = 1..Len(images) + 1
          /\ DOMAIN images = 1..Len(images)
          /\ \A i \in 1..Len(images) : images'[i] = images[i]
          /\ images'[Len(images) + 1] = NewImage(peer, image) /\ Len(images) \in Nat
      BY <1>5, <1>6, <3>1, AppendProperties
    <3> QED
      BY <1>5, <1>6, <3>2
  <2>2. CASE fate.res # 0
    BY <1>2, <1>6, <2>2
  <2> QED
    BY <2>1, <2>2
<1>8. userlistBlocks' \in Int
  BY <1>2 DEF Typed, SessionTyped
<1> QED
  BY <1>1, <1>2, <1>3, <1>4, <1>7, <1>8, CallTyped

LEMMA NotifyTyped ==
  ASSUME Typed, NEW list \in ContactLists, Notify(list)
  PROVE  Typed'
<1>1. list \in Seq(Nat)
  BY ListsAssumption
<1> DEFINE packets == NotifyPackets(list)
<1>2. packets \in Seq(ForServer) /\ Len(packets) \in Nat
  BY <1>1, NotifyPacketsType
<1>3. PICK fate \in Fates(Len(packets)) :
        /\ Called("notify", fate.res)
        /\ Sends(packets, fate)
        /\ asked' = [asked EXCEPT !.contacts = ToSet(list)]
        /\ UNCHANGED <<userlistBlocks, userlistReply, images>>
  BY DEF Notify
<1> HIDE DEF packets
<1>4. asked' \in Memories
  <2>1. asked \in Memories
    BY DEF Typed
  <2>2. ToSet(list) \subseteq Nat
    BY <1>1, LenProperties, ElementOfSeq DEF ToSet
  <2> QED
    BY <1>3, <2>1, <2>2 DEF Memories
<1> QED
  BY <1>2, <1>3, <1>4, CallTyped DEF Typed, SessionTyped

LEMMA AddOrRemoveNotifyTyped ==
  ASSUME Typed, NEW uin \in Uins, NEW type \in {"ADD_NOTIFY", "REMOVE_NOTIFY"},
         AddOrRemoveNotify(uin, type)
  PROVE  Typed'
<1>1. uin \in Nat
  BY ListsAssumption
<1> DEFINE packets == <<[type |-> type, data |-> <<uin>>]>>
<1>2. packets \in Seq(ForServer) /\ Len(packets) = 1
  <2>1. <<uin>> \in Seq(Nat)
    BY <1>1
  <2>2. [type |-> type, data |-> <<uin>>] \in ForServer
    BY <2>1 DEF ForServer, NoteRequests, NoteTypes
  <2> QED
    BY <2>2
<1>3. PICK fate \in Fates(1) :
        /\ Called("notify", fate.res)
        /\ Sends(packets, fate)
        /\ asked' = [asked EXCEPT !.contacts = IF type = "ADD_NOTIFY" THEN @ \cup {uin}
                                               ELSE @ \ {uin}]
        /\ UNCHANGED <<userlistBlocks, userlistReply, images>>
  BY DEF AddOrRemoveNotify
<1> HIDE DEF packets
<1>4. asked' \in Memories
  <2>1. asked \in Memories
    BY DEF Typed
  <2> DEFINE named == IF type = "ADD_NOTIFY" THEN asked.contacts \cup {uin}
                      ELSE asked.contacts \ {uin}
  <2>2. named \subseteq Nat
    BY <1>1, <2>1 DEF Memories
  <2>3. asked' = [asked EXCEPT !.contacts = named]
    BY <1>3
  <2> HIDE DEF named
  <2> QED
    BY <2>1, <2>2, <2>3 DEF Memories
<1>5. fate \in Fates(Len(packets))
  BY <1>2
<1> QED
  BY <1>2, <1>3, <1>4, <1>5, CallTyped DEF Typed, SessionTyped

LEMMA Pubdir50Typed ==
  ASSUME Typed, NEW seq \in Seqs, Pubdir50(seq)
  PROVE  Typed'
<1>1. PICK clock \in Clocks, fate \in Fates(1) :
        LET sent == IF seq # 0 THEN seq ELSE clock[2]
        IN  /\ Called("search", IF fate.res = -1 THEN 0 ELSE clock[1])
            /\ Sends(<<[type |-> "PUBDIR50_REQUEST", seq |-> sent]>>, fate)
            /\ asked' = [asked EXCEPT !.searches = @ + Cardinality(fate.through),
                                      !.numbers = IF fate.res = 0 THEN @ \cup {clock[1]} ELSE @]
            /\ UNCHANGED <<userlistBlocks, userlistReply, images>>
  BY DEF Pubdir50
<1> DEFINE sent == IF seq # 0 THEN seq ELSE clock[2]
           packets == <<[type |-> "PUBDIR50_REQUEST", seq |-> sent]>>
           said == IF fate.res = -1 THEN 0 ELSE clock[1]
<1>2. packets \in Seq(ForServer) /\ Len(packets) = 1
  <2>1. sent \in Numbers
    BY DEF Numbers
  <2>2. [type |-> "PUBDIR50_REQUEST", seq |-> sent] \in ForServer
    BY <2>1 DEF ForServer, Searches
  <2> QED
    BY <2>2
<1>3. /\ Called("search", said)
      /\ Sends(packets, fate)
      /\ UNCHANGED <<userlistBlocks, userlistReply, images>>
  BY <1>1
<1>4. asked' \in Memories
  <2>1. asked \in Memories
    BY DEF Typed
  <2> DEFINE numbers == IF fate.res = 0 THEN asked.numbers \cup {clock[1]} ELSE asked.numbers
  <2>2. numbers \subseteq {c[1] : c \in Clocks}
    BY <2>1 DEF Memories
  <2> DEFINE searches == asked.searches + Cardinality(fate.through)
  <2>3. searches \in Int
    BY <2>1, FateOne DEF Memories
  <2>4. asked' = [asked EXCEPT !.searches = searches, !.numbers = numbers]
    BY <1>1
  <2> HIDE DEF numbers, searches
  <2> QED
    BY <2>1, <2>2, <2>3, <2>4 DEF Memories
<1>5. fate \in Fates(Len(packets))
  BY <1>2
<1> HIDE DEF packets, said
<1> QED
  BY <1>2, <1>3, <1>4, <1>5, CallTyped DEF Typed, SessionTyped

-----------------------------------------------------------------------------
LEMMA HeadOf ==
  ASSUME NEW S, NEW s \in Seq(S), s # <<>>
  PROVE  /\ Head(s) \in S /\ Head(s) = s[1] /\ Tail(s) \in Seq(S)
         /\ Len(s) \in Nat \ {0} /\ Len(Tail(s)) = Len(s) - 1
         /\ \A i \in 1..Len(s) - 1 : Tail(s)[i] = s[i + 1]
BY HeadTailProperties, LenProperties, EmptySeq

LEMMA WireSet ==
  ASSUME WireTyped, NEW s \in Sources, NEW packets,
         s = "server" => packets \in Seq(FromServer),
         s # "server" => packets \in Seq(FromPeers),
         wire' = [wire EXCEPT ![s] = packets]
  PROVE  WireTyped' /\ wire'[s] = packets /\ \A r \in Sources \ {s} : wire'[r] = wire[r]
<1>1. packets \in Seq(FromPeers \cup FromServer)
  BY SeqMonotonic
<1>2. /\ wire' \in [Sources -> Seq(FromPeers \cup FromServer)] /\ wire'[s] = packets
      /\ \A r \in Sources \ {s} : wire'[r] = wire[r]
  BY <1>1 DEF WireTyped
<1>3. "server" \in Sources /\ \A p \in Peers : p \in Sources /\ p # "server"
  BY PeersAssumption DEF Sources
<1>4. wire'["server"] \in Seq(FromServer)
  BY <1>2, <1>3 DEF WireTyped
<1>5. \A p \in Peers : wire'[p] \in Seq(FromPeers)
  BY <1>2, <1>3 DEF WireTyped
<1> QED
  BY <1>2, <1>4, <1>5 DEF WireTyped

LEMMA RepliesTyped ==
  ASSUME WireTyped, NEW packets \in Seq(FromServer), Replies(packets)
  PROVE  /\ WireTyped' /\ wire'["server"] = wire["server"] \o packets
         /\ \A p \in Peers : wire'[p] = wire[p]
<1>1. wire["server"] \in Seq(FromServer)
  BY DEF WireTyped
<1>2. wire["server"] \o packets \in Seq(FromServer)
  BY <1>1, ConcatProperties
<1>3. wire' = [wire EXCEPT !["server"] = wire["server"] \o packets]
  BY DEF Replies
<1>4. "server" \in Sources /\ Peers \subseteq Sources \ {"server"}
  BY PeersAssumption DEF Sources
<1> QED
  BY <1>2, <1>3, <1>4, WireSet

LEMMA ReplyOfServer ==
  ASSUME NEW packet \in FromServer
  PROVE  <<packet>> \in Seq(FromServer) /\ Len(<<packet>>) = 1 /\ <<packet>>[1] = packet
OBVIOUS

LEMMA ServerStoresTyped ==
  ASSUME Typed, NEW packet \in ForServer, ServerStores(packet)
  PROVE  WireTyped' /\ stored' \in Seq(Nat) /\ UNCHANGED <<contacts, owed>>
<1>1. packet.data \in Seq(Nat) /\ stored \in Seq(Nat)
  BY RequestTypes DEF ServerStores, ListRequests, ListTypes, Typed
<1>2. stored' \in Seq(Nat)
  <2>1. stored \o packet.data \in Seq(Nat)
    BY <1>1, ConcatProperties
  <2> QED
    BY <1>1, <2>1 DEF ServerStores
<1> DEFINE type == IF packet.type = "USERLIST_PUT" THEN "PUT_REPLY" ELSE "PUT_MORE_REPLY"
           reply == UserlistReply(type, <<>>)
<1>3. reply \in FromServer
  <2>1. type \in {"PUT_REPLY", "PUT_MORE_REPLY"} /\ <<>> \in Seq(Nat)
    OBVIOUS
  <2> HIDE DEF type
  <2> QED
    BY <2>1 DEF FromServer, ListReplies, UserlistReply
<1>4. Replies(<<reply>>) /\ UNCHANGED <<contacts, owed>>
  BY DEF ServerStores
<1> HIDE DEF reply
<1>5. WireTyped'
  BY <1>3, <1>4, ReplyOfServer, RepliesTyped DEF Typed
<1> QED
  BY <1>2, <1>4, <1>5

LEMMA ServerListsTyped ==
  ASSUME Typed, NEW packet \in ForServer, ServerLists(packet)
  PROVE  WireTyped' /\ UNCHANGED <<stored, contacts, owed>>
<1>1. stored \in Seq(Nat) /\ WireTyped
  BY DEF Typed
<1>2. UserlistParts(stored) \in Seq(FromServer)
  BY <1>1, UserlistPartsType
<1>3. Replies(UserlistParts(stored)) /\ UNCHANGED <<stored, contacts, owed>>
  BY DEF ServerLists, farEnd
<1> QED
  BY <1>1, <1>2, <1>3, RepliesTyped

LEMMA NotedTyped ==
  ASSUME NEW packet \in NoteRequests, NEW noted \in [known : SUBSET Nat, coming : SUBSET Nat]
  PROVE  Noted(noted, packet) \in [known : SUBSET Nat, coming : SUBSET Nat]
<1>1. packet.data \in Seq(Nat) /\ packet.type \in NoteTypes
  BY DEF NoteRequests
<1>2. ToSet(packet.data) \subseteq Nat
  BY <1>1, LenProperties, ElementOfSeq DEF ToSet
<1> DEFINE named == ToSet(packet.data)
<1> HIDE DEF named
<1>3. named \subseteq Nat
  BY <1>2 DEF named
<1>4. Noted(noted, packet) =
        LET coming == noted.coming \cup named
        IN  CASE packet.type = "NOTIFY_FIRST" -> [known |-> noted.known, coming |-> coming]
              [] packet.type \in {"NOTIFY_LAST", "LIST_EMPTY"} -> [known |-> coming, coming |-> {}]
              [] packet.type = "ADD_NOTIFY" ->
                     [known |-> noted.known \cup named, coming |-> noted.coming]
              [] packet.type = "REMOVE_NOTIFY" ->
                     [known |-> noted.known \ named, coming |-> noted.coming]
  BY DEF Noted, named
<1> QED
  BY <1>1, <1>3, <1>4 DEF NoteTypes

LEMMA ServerNotesTyped ==
  ASSUME Typed, NEW packet \in ForServer, ServerNotes(packet)
  PROVE  /\ packet \in NoteRequests /\ contacts' = Noted(contacts, packet)
         /\ contacts' \in [known : SUBSET Nat, coming : SUBSET Nat]
         /\ UNCHANGED <<wire, stored, owed>>
<1>1. /\ packet \in NoteRequests /\ contacts' = Noted(contacts, packet)
      /\ UNCHANGED <<wire, stored, owed>>
  BY RequestTypes DEF ServerNotes, NoteTypes
<1> QED
  BY <1>1, NotedTyped DEF Typed

LEMMA ServerPassesOnTyped ==
  ASSUME Typed, NEW packet \in ForServer, ServerPassesOn(packet)
  PROVE  /\ owed' \in [Peers -> Seq(Images)]
         /\ UNCHANGED <<wire, stored, contacts>>
<1>1. packet.to \in Peers /\ packet.image \in Images
  BY RequestTypes DEF ServerPassesOn, ImageRequests
<1>2. owed \in [Peers -> Seq(Images)]
  BY DEF Typed
<1> DEFINE longer == Append(owed[packet.to], packet.image)
<1>3. longer \in Seq(Images)
  BY <1>1, <1>2, AppendProperties
<1>4. owed' = [owed EXCEPT ![packet.to] = longer]
  BY DEF ServerPassesOn
<1> HIDE DEF longer
<1> QED
  BY <1>1, <1>2, <1>3, <1>4 DEF ServerPassesOn

LEMMA SearchAnswered ==
  ASSUME NEW packet \in ForServer, ServerFinds(packet)
  PROVE  \E reply \in SearchReplies : Replies(<<reply>>)
<1>1. packet.seq \in Numbers
  BY RequestTypes DEF ServerFinds, Searches
<1>2. PICK results \in Results, next \in {0, 2}, form \in {"whole", "short", "unended"} :
        /\ results = <<>> => next = 0
        /\ Replies(<<[type |-> "PUBDIR50_REPLY", form |-> form, seq |-> packet.seq,
                      items |-> Items(results, next), results |-> results, next |-> next]>>)
  BY DEF ServerFinds
<1> DEFINE reply == [type |-> "PUBDIR50_REPLY", form |-> form, seq |-> packet.seq,
                     items |-> Items(results, next), results |-> results, next |-> next]
<1>3. reply \in SearchReplies
  <2>1. Items(results, next) \in FoundItems
    BY DEF FoundItems
  <2> QED
    BY <1>1, <1>2, <2>1 DEF SearchReplies
<1>4. Replies(<<reply>>)
  BY <1>2
<1> HIDE DEF reply
<1> QED
  BY <1>3, <1>4

LEMMA ServerFindsTyped ==
  ASSUME Typed, NEW packet \in ForServer, ServerFinds(packet)
  PROVE  WireTyped' /\ UNCHANGED <<stored, contacts, owed>>
<1>1. PICK reply \in SearchReplies : Replies(<<reply>>)
  BY SearchAnswered
<1>2. reply \in FromServer
  BY DEF FromServer
<1>3. WireTyped'
  BY <1>1, <1>2, ReplyOfServer, RepliesTyped DEF Typed
<1> QED
  BY <1>3 DEF ServerFinds, farEnd

LEMMA ServerTakesTyped ==
  ASSUME Typed, ServerTakes
  PROVE  Typed'
<1> DEFINE packet == Head(toServer)
<1>1. packet \in ForServer /\ toServer' \in Seq(ForServer)
  BY HeadOf DEF ServerTakes, Typed
<1>2. UNCHANGED <<userlistBlocks, userlistReply, images, errno, link, asked>>
  BY DEF ServerTakes, session
<1> HIDE DEF packet
<1>3. /\ WireTyped' /\ stored' \in Seq(Nat)
      /\ contacts' \in [known : SUBSET Nat, coming : SUBSET Nat]
      /\ owed' \in [Peers -> Seq(Images)]
  <2>1. ASSUME ServerStores(packet) PROVE <1>3!:
    BY <1>1, <2>1, ServerStoresTyped DEF Typed
  <2>2. ASSUME ServerLists(packet) PROVE <1>3!:
    BY <1>1, <2>2, ServerListsTyped DEF Typed
  <2>3. ASSUME ServerNotes(packet) PROVE <1>3!:
    BY <1>1, <2>3, ServerNotesTyped DEF Typed, WireTyped
  <2>4. ASSUME ServerPassesOn(packet) PROVE <1>3!:
    BY <1>1, <2>4, ServerPassesOnTyped DEF Typed, WireTyped
  <2>5. ASSUME ServerFinds(packet) PROVE <1>3!:
    BY <1>1, <2>5, ServerFindsTyped DEF Typed
  <2> QED
    BY <2>1, <2>2, <2>3, <2>4, <2>5 DEF ServerTakes, packet
<1> QED
  BY <1>1, <1>2, <1>3 DEF Typed, SessionTyped

LEMMA PeerAnswersTyped ==
  ASSUME Typed, NEW p \in Peers, PeerAnswers(p)
  PROVE  Typed'
<1> DEFINE image == Head(owed[p])
           all == ChunkCount(image.size)
           packets(n) == ImagePackets(image, n = all)
<1>1. owed[p] \in Seq(Images) /\ owed[p] # <<>> /\ wire[p] \in Seq(FromPeers)
  BY DEF PeerAnswers, Typed, WireTyped
<1>2. image \in Images /\ Tail(owed[p]) \in Seq(Images)
  BY <1>1, HeadOf
<1>3. owed' \in [Peers -> Seq(Images)]
  <2> DEFINE rest == Tail(owed[p])
  <2>1. owed' = [owed EXCEPT ![p] = rest]
    BY DEF PeerAnswers
  <2>2. rest \in Seq(Images) /\ owed \in [Peers -> Seq(Images)]
    BY <1>2 DEF Typed
  <2> HIDE DEF rest
  <2> QED
    BY <2>1, <2>2
<1>4. \A n \in 0 .. all : packets(n) \in Seq(FromPeers) /\ Len(packets(n)) = all
  BY <1>2, ImagePacketsType
<1>5. p \in Sources /\ p # "server"
  BY PeersAssumption DEF Sources
<1>6. asked \in Memories
  BY DEF Typed
<1> HIDE DEF packets, all, image
<1>7. WireTyped' /\ asked' \in Memories
  <2>1. ASSUME NEW n \in 0 .. all,
               wire' = [wire EXCEPT ![p] = @ \o SubSeq(packets(n), 1, n)],
               asked' = IF n = all THEN asked ELSE [asked EXCEPT !.images[p] = @ - 1]
        PROVE  <1>7!:
    <3> DEFINE grown == wire[p] \o SubSeq(packets(n), 1, n)
    <3>1. grown \in Seq(FromPeers)
      BY <1>1, <1>4, FirstPart, ConcatProperties
    <3>2. wire' = [wire EXCEPT ![p] = grown]
      BY <2>1
    <3> HIDE DEF grown
    <3>3. WireTyped'
      BY <1>5, <3>1, <3>2, WireSet DEF Typed
    <3> DEFINE less == [asked EXCEPT !.images[p] = @ - 1]
    <3>4. less \in Memories
      BY <1>6, 1 \in Int, ImagesCounted
    <3> QED
      BY <1>6, <2>1, <3>3, <3>4
  <2>2. ASSUME wire' = [wire EXCEPT ![p] = Append(@,
                          [type |-> "RECV_MSG", option |-> "IMAGE_NONE", image |-> image])],
               UNCHANGED asked
        PROVE  <1>7!:
    <3> DEFINE packet == [type |-> "RECV_MSG", option |-> "IMAGE_NONE", image |-> image]
               grown == Append(wire[p], packet)
    <3>1. packet \in FromPeers
      BY <1>2 DEF FromPeers, NoImages
    <3>2. grown \in Seq(FromPeers)
      BY <1>1, <3>1, AppendProperties
    <3>3. wire' = [wire EXCEPT ![p] = grown]
      BY <2>2
    <3> HIDE DEF grown
    <3>4. WireTyped'
      BY <1>5, <3>2, <3>3, WireSet DEF Typed
    <3> QED
      BY <1>6, <2>2, <3>4
  <2>3. ASSUME wire' = [wire EXCEPT ![p] = Append(@,
                          [type |-> "RECV_MSG", option |-> "IMAGE_UNNAMED", image |-> image])],
               asked' = [asked EXCEPT !.images[p] = @ - 1]
        PROVE  <1>7!:
    <3> DEFINE packet == [type |-> "RECV_MSG", option |-> "IMAGE_UNNAMED", image |-> image]
               grown == Append(wire[p], packet)
    <3>1. packet \in FromPeers
      BY <1>2 DEF FromPeers, Unnamed
    <3>2. grown \in Seq(FromPeers)
      BY <1>1, <3>1, AppendProperties
    <3>3. wire' = [wire EXCEPT ![p] = grown]
      BY <2>3
    <3> HIDE DEF grown
    <3>4. WireTyped'
      BY <1>5, <3>2, <3>3, WireSet DEF Typed
    <3> DEFINE less == [asked EXCEPT !.images[p] = @ - 1]
    <3>5. less \in Memories
      BY <1>6, 1 \in Int, ImagesCounted
    <3>6. asked' = less
      BY <2>3
    <3> QED
      BY <3>4, <3>5, <3>6
  <2> QED
    BY <2>1, <2>2, <2>3 DEF PeerAnswers, image, all, packets
<1>8. UNCHANGED <<userlistBlocks, userlistReply, images, errno, link, toServer, stored, contacts>>
  BY DEF PeerAnswers, session
<1> QED
  BY <1>3, <1>7, <1>8 DEF Typed, SessionTyped

LEMMA UnaskedTyped ==
  ASSUME Typed, Unasked
  PROVE  Typed'
<1>1. WireTyped'
  <2>1. ASSUME NEW p \in Peers, NEW group \in Groups, NEW stale \in ToSet(group),
               NEW i \in Ours(group),
               wire' = [wire EXCEPT ![p] = Append(@, ConferPackets(p, group, stale)[i])]
        PROVE  WireTyped'
    <3> DEFINE packet == ConferPackets(p, group, stale)[i]
               grown == Append(wire[p], packet)
    <3>1. packet \in Conferences
      <4>1. packet \in {ConferPackets(q, group, st)[j] :
                           q \in Peers, st \in ToSet(group), j \in Ours(group)}
        OBVIOUS
      <4> QED
        BY <4>1 DEF Conferences
    <3> HIDE DEF packet
    <3>2. grown \in Seq(FromPeers)
      BY <3>1, AppendProperties DEF FromPeers, Typed, WireTyped
    <3>3. wire' = [wire EXCEPT ![p] = grown]
      BY <2>1 DEF packet
    <3> HIDE DEF grown
    <3>4. p \in Sources /\ p # "server"
      BY PeersAssumption DEF Sources
    <3> QED
      BY <3>2, <3>3, <3>4, WireSet DEF Typed
  <2>2. ASSUME NEW type \in Notices, Replies(<<[type |-> type]>>)
        PROVE  WireTyped'
    <3>1. [type |-> type] \in FromServer
      BY DEF FromServer, Notes
    <3> QED
      BY <2>2, <3>1, ReplyOfServer, RepliesTyped DEF Typed
  <2> QED
    BY <2>1, <2>2 DEF Unasked, Ours
<1>2. UNCHANGED <<userlistBlocks, userlistReply, images, errno, link, toServer,
                  stored, contacts, owed, asked>>
  BY DEF Unasked, session, farEnd
<1> QED
  BY <1>1, <1>2 DEF Typed, SessionTyped

-----------------------------------------------------------------------------
LEMMA Removed ==
  ASSUME NEW S, NEW s \in Seq(S), NEW q \in 1..Len(s)
  PROVE  /\ RemoveAt(s, q) \in Seq(S) /\ Len(RemoveAt(s, q)) = Len(s) - 1
         /\ \A i \in 1..Len(s) - 1 :
              RemoveAt(s, q)[i] = IF i < q THEN s[i] ELSE s[i + 1]
<1> DEFINE a == SubSeq(s, 1, q - 1)
           b == SubSeq(s, q + 1, Len(s))
<1>1. Len(s) \in Nat /\ \A i \in 1..Len(s) : s[i] \in S
  BY LenProperties, ElementOfSeq
<1>2. a \in Seq(S) /\ Len(a) = q - 1 /\ \A i \in 1..q - 1 : a[i] = s[i]
  BY <1>1, SubSeqProperties
<1>3. b \in Seq(S) /\ Len(b) = Len(s) - q /\ \A i \in 1..Len(s) - q : b[i] = s[q + i]
  BY <1>1, SubSeqProperties
<1> HIDE DEF a, b
<1>4. /\ a \o b \in Seq(S) /\ Len(a \o b) = Len(s) - 1
      /\ \A i \in 1..Len(s) - 1 : (a \o b)[i] = IF i < q THEN a[i] ELSE b[i - (q - 1)]
  <2>1. /\ a \o b \in Seq(S) /\ Len(a \o b) = Len(a) + Len(b)
        /\ \A i \in 1..Len(a) + Len(b) :
             (a \o b)[i] = IF i <= Len(a) THEN a[i] ELSE b[i - Len(a)]
    BY <1>2, <1>3, ConcatProperties
  <2>2. Len(a) + Len(b) = Len(s) - 1 /\ \A i \in 1..Len(s) - 1 : i <= Len(a) <=> i < q
    BY <1>1, <1>2, <1>3
  <2> QED
    BY <1>2, <2>1, <2>2
<1>5. \A i \in 1..Len(s) - 1 : (a \o b)[i] = IF i < q THEN s[i] ELSE s[i + 1]
  <2> SUFFICES ASSUME NEW i \in 1..Len(s) - 1
               PROVE  (a \o b)[i] = IF i < q THEN s[i] ELSE s[i + 1]
    OBVIOUS
  <2>1. CASE i < q
    BY <1>1, <1>2, <1>4, <2>1
  <2>2. CASE ~(i < q)
    <3>1. i - (q - 1) \in 1..Len(s) - q /\ q + (i - (q - 1)) = i + 1
      BY <1>1, <2>2
    <3> QED
      BY <1>3, <1>4, <2>2, <3>1
  <2> QED
    BY <2>1, <2>2
<1>6. RemoveAt(s, q) = a \o b
  BY DEF RemoveAt, a, b
<1> QED
  BY <1>4, <1>5, <1>6

-----------------------------------------------------------------------------
(***************************************************************************)
(* What a chunk does to the entry it goes to.                              *)
(***************************************************************************)
LEMMA ChunkShape ==
  ASSUME NEW packet \in Chunks
  PROVE  /\ packet.type = "RECV_MSG" /\ packet.image \in Images
         /\ packet.image.size \in Nat /\ packet.image.id \in Ids
         /\ packet.option \in {"IMAGE_FIRST", "IMAGE_MORE"} /\ packet.whole \in BOOLEAN
         /\ packet.data \in Seq(Nat) /\ Len(packet.data) \in Nat \ {0}
         /\ ChunkFrom(packet) \in Nat /\ ChunkTo(packet) \in Nat
         /\ ChunkTo(packet) = ChunkFrom(packet) + Len(packet.data)
         /\ ChunkTo(packet) <= packet.image.size
         /\ packet.option = "IMAGE_FIRST" <=> ChunkFrom(packet) = 0
         /\ \A j \in 1..Len(packet.data) : packet.data[j] = ChunkFrom(packet) + j
<1>1. PICK image \in Images :
        \E k \in 1..ChunkCount(image.size), whole \in BOOLEAN :
           packet = ImagePackets(image, whole)[k]
  BY DEF Chunks
<1>2. PICK k \in 1..ChunkCount(image.size), whole \in BOOLEAN :
        packet = ImagePackets(image, whole)[k]
  BY <1>1
<1>3. /\ packet.type = "RECV_MSG" /\ packet.image = image /\ packet.whole = whole
      /\ packet.option = IF k = 1 THEN "IMAGE_FIRST" ELSE "IMAGE_MORE"
      /\ packet.data \in Seq(Nat) /\ Len(packet.data) \in Nat \ {0}
      /\ ChunkFrom(packet) = ChunkEnd(image.size, k - 1)
      /\ ChunkTo(packet) = ChunkEnd(image.size, k)
      /\ \A j \in 1..Len(packet.data) : packet.data[j] = ChunkFrom(packet) + j
  <2> DEFINE chunk == ImagePackets(image, whole)[k]
  <2>1. /\ chunk.type = "RECV_MSG" /\ chunk.image = image /\ chunk.whole = whole
        /\ chunk.option = IF k = 1 THEN "IMAGE_FIRST" ELSE "IMAGE_MORE"
        /\ chunk.data \in Seq(Nat) /\ Len(chunk.data) \in Nat \ {0}
        /\ ChunkFrom(chunk) = ChunkEnd(image.size, k - 1)
        /\ ChunkTo(chunk) = ChunkEnd(image.size, k)
        /\ \A j \in 1..Len(chunk.data) : chunk.data[j] = ChunkFrom(chunk) + j
    BY ChunkOf
  <2> HIDE DEF chunk
  <2>2. packet = chunk
    BY <1>2 DEF chunk
  <2> QED
    BY <2>1, <2>2
<1>4. image.size \in Nat /\ image.id \in Ids
  BY ImagesAssumption DEF Ids
<1>5. /\ ChunkEnd(image.size, k - 1) \in Nat /\ ChunkEnd(image.size, k) \in Nat
      /\ ChunkEnd(image.size, k) <= image.size
      /\ ChunkEnd(image.size, k - 1) = 0 <=> k = 1
  BY <1>4, ChunkEnds
<1>6. ChunkTo(packet) = ChunkFrom(packet) + Len(packet.data)
  BY DEF ChunkTo
<1> QED
  BY <1>3, <1>4, <1>5, <1>6

LEMMA BegunOf ==
  ASSUME NEW entry \in Entries, EntryFits(entry), NEW packet \in Chunks
  PROVE  LET begun == Begun(entry, packet)
         IN  /\ begun \in Entries /\ EntryFits(begun)
             /\ begun.sender = entry.sender /\ begun.size = entry.size
             /\ begun.crc32 = entry.crc32 /\ begun.image = entry.image
             /\ begun.done = IF packet.option = "IMAGE_FIRST" THEN 0 ELSE entry.done
             /\ begun.filename = IF packet.option = "IMAGE_FIRST" THEN packet.image.id
                                 ELSE entry.filename
             /\ begun.whole = IF packet.option = "IMAGE_FIRST" THEN packet.whole ELSE entry.whole
             /\ begun.lost = IF packet.option = "IMAGE_FIRST"
                             THEN entry.filename # "NULL" /\ entry.whole ELSE entry.lost
<1>1. packet.image.id \in Ids /\ packet.whole \in BOOLEAN
  BY ChunkShape
<1>2. CASE packet.option = "IMAGE_FIRST"
  <2> DEFINE lost == entry.filename # "NULL" /\ entry.whole
             begun == [entry EXCEPT !.done = 0, !.filename = packet.image.id,
                                    !.whole = packet.whole, !.lost = lost]
  <2>1. lost \in BOOLEAN /\ 0 <= entry.size
    BY DEF Entries
  <2>2. Begun(entry, packet) = begun
    BY <1>2 DEF Begun
  <2> HIDE DEF lost
  <2>3. /\ begun \in Entries /\ EntryFits(begun)
        /\ begun.sender = entry.sender /\ begun.size = entry.size
        /\ begun.crc32 = entry.crc32 /\ begun.image = entry.image
        /\ begun.done = 0 /\ begun.filename = packet.image.id
        /\ begun.whole = packet.whole /\ begun.lost = lost
    BY <1>1, <2>1 DEF Entries, EntryFits
  <2> HIDE DEF begun
  <2> QED
    BY <1>2, <2>2, <2>3 DEF lost
<1>3. CASE packet.option # "IMAGE_FIRST"
  BY <1>3 DEF Begun
<1> QED
  BY <1>2, <1>3

LEMMA FilledOf ==
  ASSUME NEW entry \in Entries, EntryFits(entry), NEW data \in Seq(Nat)
  PROVE  LET filled == Filled(entry, data)
             done == IF entry.done + Len(data) > entry.size THEN entry.size
                     ELSE entry.done + Len(data)
         IN  /\ filled \in Entries /\ EntryFits(filled)
             /\ filled.sender = entry.sender /\ filled.size = entry.size
             /\ filled.crc32 = entry.crc32 /\ filled.filename = entry.filename
             /\ filled.whole = entry.whole /\ filled.lost = entry.lost /\ filled.done = done
             /\ \A i \in 1..entry.size :
                  filled.image[i] = IF i \in entry.done + 1 .. done
                                    THEN data[i - entry.done] ELSE entry.image[i]
<1> DEFINE filled == Filled(entry, data)
           done == IF entry.done + Len(data) > entry.size THEN entry.size
                   ELSE entry.done + Len(data)
           len == IF entry.done + Len(data) > entry.size THEN entry.size - entry.done
                  ELSE Len(data)
           image == [i \in 1 .. entry.size |->
                        IF i \in entry.done + 1 .. entry.done + len
                        THEN data[i - entry.done] ELSE entry.image[i]]
<1>1. /\ entry.done \in Nat /\ entry.size \in Nat /\ entry.done <= entry.size
      /\ Len(data) \in Nat /\ entry.image \in Seq(Nat) /\ Len(entry.image) = entry.size
  BY LenProperties DEF Entries, EntryFits
<1>2. len \in Nat /\ entry.done + len = done /\ done \in Nat /\ done <= entry.size
      /\ len <= Len(data)
  BY <1>1
<1>3. filled = [entry EXCEPT !.done = entry.done + len, !.image = image]
  BY DEF Filled
<1> HIDE DEF len, done
<1>4. image \in [1 .. entry.size -> Nat]
  <2> SUFFICES ASSUME NEW i \in 1 .. entry.size
               PROVE  image[i] \in Nat
    OBVIOUS
  <2>1. CASE i \in entry.done + 1 .. entry.done + len
    <3>1. i - entry.done \in 1..Len(data)
      BY <1>1, <1>2, <2>1, SMTT(30)
    <3>2. data[i - entry.done] \in Nat
      BY <3>1, ElementOfSeq
    <3> QED
      BY <2>1, <3>2
  <2>2. CASE i \notin entry.done + 1 .. entry.done + len
    <3>1. entry.image[i] \in Nat
      BY <1>1, ElementOfSeq
    <3> QED
      BY <2>2, <3>1
  <2> QED
    BY <2>1, <2>2
<1>5. \A i \in 1 .. entry.size :
        image[i] = IF i \in entry.done + 1 .. done THEN data[i - entry.done] ELSE entry.image[i]
  BY <1>2
<1> HIDE DEF image, filled
<1>6. image \in Seq(Nat) /\ Len(image) = entry.size
  BY <1>1, <1>4, FunctionIsSeq
<1>7. /\ filled \in Entries /\ EntryFits(filled)
      /\ filled.sender = entry.sender /\ filled.size = entry.size
      /\ filled.crc32 = entry.crc32 /\ filled.filename = entry.filename
      /\ filled.whole = entry.whole /\ filled.lost = entry.lost
      /\ filled.done = done /\ filled.image = image
  BY <1>2, <1>3, <1>6 DEF Entries, EntryFits
<1>8. \A i \in 1 .. entry.size :
        filled.image[i] = IF i \in entry.done + 1 .. done THEN data[i - entry.done]
                          ELSE entry.image[i]
  BY <1>5, <1>7
<1> QED
  BY <1>7, <1>8 DEF filled, done

-----------------------------------------------------------------------------
(***************************************************************************)
(* What gg_watch_fd() does with a packet: who sends which of them.         *)
(***************************************************************************)
LEMMA WatchCases ==
  ASSUME Typed, NEW s \in Sources, WatchPacket(s)
  PROVE  LET packet == Head(wire[s])
         IN  /\ WireTyped' /\ wire[s] # <<>> /\ wire'[s] = Tail(wire[s])
             /\ \A r \in Sources \ {s} : wire'[r] = wire[r]
             /\ UNCHANGED <<toServer, stored, contacts, owed, calls>>
             /\ \/ /\ s = "server" /\ packet \in FromServer
                   /\ \/ packet \in ListReplies /\ TakeUserlistReply(packet)
                      \/ packet \in SearchReplies /\ TakePubdir50Reply(packet)
                      \/ packet \in Notes /\ TakeNotifyReply(packet)
                      \/ packet \in Notes /\ TakeNotice(packet)
                \/ /\ s \in Peers /\ packet \in FromPeers
                   /\ \/ packet \in Chunks /\ TakeImage(s, packet)
                      \/ packet \in Unnamed /\ TakeUnnamed(s, packet)
                      \/ packet \in NoImages \cup Conferences /\ TakeMessage(s, packet)
<1> DEFINE packet == Head(wire[s])
           rest == Tail(wire[s])
<1>1. /\ wire[s] # <<>> /\ wire' = [wire EXCEPT ![s] = rest]
      /\ UNCHANGED <<toServer, stored, contacts, owed, calls>>
      /\ \/ TakeUserlistReply(packet)
         \/ TakeImage(s, packet) \/ TakeUnnamed(s, packet) \/ TakeMessage(s, packet)
         \/ TakePubdir50Reply(packet) \/ TakeNotifyReply(packet) \/ TakeNotice(packet)
  BY DEF WatchPacket, farEnd
<1>2. WireTyped
  BY DEF Typed
<1>3. s = "server" \/ s \in Peers
  BY DEF Sources
<1>4. s = "server" => packet \in FromServer /\ rest \in Seq(FromServer)
  BY <1>1, <1>2, HeadOf DEF WireTyped
<1>5. s \in Peers => packet \in FromPeers /\ rest \in Seq(FromPeers)
  BY <1>1, <1>2, HeadOf DEF WireTyped
<1> HIDE DEF packet, rest
<1>6. WireTyped' /\ wire'[s] = rest /\ \A r \in Sources \ {s} : wire'[r] = wire[r]
  BY <1>1, <1>2, <1>3, <1>4, <1>5, WireSet
<1>7. CASE s = "server"
  <2>1. /\ packet.type \in Notices <=> packet \in Notes
        /\ packet.type = "USERLIST_REPLY" <=> packet \in ListReplies
        /\ packet.type = "PUBDIR50_REPLY" <=> packet \in SearchReplies
        /\ packet.type # "RECV_MSG"
        /\ packet \in ListReplies \/ packet \in SearchReplies \/ packet \in Notes
    BY <1>4, <1>7, ReplyTypes DEF FromServer
  <2>2. ~TakeImage(s, packet) /\ ~TakeUnnamed(s, packet) /\ ~TakeMessage(s, packet)
    BY <2>1 DEF TakeImage, TakeUnnamed, TakeMessage
  <2>3. TakeUserlistReply(packet) => packet \in ListReplies
    BY <2>1 DEF TakeUserlistReply
  <2>4. TakePubdir50Reply(packet) => packet \in SearchReplies
    BY <2>1 DEF TakePubdir50Reply
  <2>5. TakeNotifyReply(packet) => packet \in Notes
    BY <2>1 DEF TakeNotifyReply, ListReplies, SearchReplies
  <2>6. TakeNotice(packet) => packet \in Notes
    BY <2>1 DEF TakeNotice, ListReplies, SearchReplies
  <2> QED
    BY <1>1, <1>4, <1>6, <1>7, <2>2, <2>3, <2>4, <2>5, <2>6 DEF packet, rest
<1>8. CASE s \in Peers
  <2>1. /\ packet.type = "RECV_MSG"
        /\ packet.option \in {"IMAGE_FIRST", "IMAGE_MORE"} <=> packet \in Chunks
        /\ packet.option = "IMAGE_NONE" <=> packet \in NoImages
        /\ packet.option = "IMAGE_UNNAMED" <=> packet \in Unnamed
        /\ packet.option = "CONFERENCE" <=> packet \in Conferences
    BY <1>5, <1>8, MessageTypes
  <2>2. ~TakeUserlistReply(packet) /\ ~TakePubdir50Reply(packet)
        /\ ~TakeNotifyReply(packet) /\ ~TakeNotice(packet)
    BY <2>1 DEF TakeUserlistReply, TakePubdir50Reply, TakeNotifyReply, TakeNotice
  <2>3. /\ TakeImage(s, packet) => packet \in Chunks
        /\ TakeUnnamed(s, packet) => packet \in Unnamed
    BY <2>1 DEF TakeImage, TakeUnnamed
  <2>4. TakeMessage(s, packet) => packet \in NoImages \cup Conferences
    BY <2>1 DEF TakeMessage
  <2> QED
    BY <1>1, <1>5, <1>6, <1>8, <2>2, <2>3, <2>4 DEF packet, rest
<1> QED
  BY <1>3, <1>7, <1>8

\* A chunk nobody waits for is passed over; any other goes to the first entry
\* it fits, which is filled and then leaves the queue if it is complete.
LEMMA ImageCases ==
  ASSUME Typed, NEW p \in Peers, NEW packet \in Chunks, TakeImage(p, packet)
  PROVE  \/ /\ \A i \in DOMAIN images : ~Fits(images[i], p, packet.image)
            /\ last' = Event("NONE") /\ UNCHANGED <<images, asked>>
         \/ \E q \in 1..Len(images) :
              /\ Fits(images[q], p, packet.image)
              /\ \A i \in 1..q - 1 : ~Fits(images[i], p, packet.image)
              /\ Begun(images[q], packet) \in Entries
              /\ EntryFits(Begun(images[q], packet))
              /\ Filled(Begun(images[q], packet), packet.data) \in Entries
              /\ EntryFits(Filled(Begun(images[q], packet), packet.data))
              /\ ImageGrows(p, q, packet)
<1>1. images \in Seq(Entries) /\ \A i \in DOMAIN images : EntryFits(images[i])
  BY DEF Typed, SessionTyped
<1>2. Len(images) \in Nat /\ DOMAIN images = 1..Len(images)
  BY <1>1, LenProperties
<1>3. CASE Fitting(p, packet.image) = {}
  BY <1>3 DEF TakeImage, Fitting
<1>4. CASE Fitting(p, packet.image) # {}
  <2> DEFINE S == Fitting(p, packet.image)
             q == Earliest(S)
  <2>1. S \in SUBSET (1..Len(images))
    BY <1>2 DEF Fitting
  <2> HIDE DEF S
  <2>2. q \in S /\ \A i \in S : q <= i
    BY <1>2, <1>4, <2>1, EarliestOf DEF S
  <2>3. ImageGrows(p, q, packet)
    BY <1>4 DEF TakeImage, S
  <2> HIDE DEF q
  <2>4. q \in 1..Len(images) /\ Fits(images[q], p, packet.image)
    BY <1>2, <2>1, <2>2 DEF S, Fitting
  <2>5. \A i \in 1..q - 1 : ~Fits(images[i], p, packet.image)
    <3> SUFFICES ASSUME NEW i \in 1..q - 1, Fits(images[i], p, packet.image)
                 PROVE  FALSE
      OBVIOUS
    <3>1. i \in 1..Len(images) /\ ~(q <= i)
      BY <1>2, <2>4
    <3>2. i \in S
      BY <1>2, <3>1 DEF S, Fitting
    <3> QED
      BY <2>2, <3>1, <3>2
  <2>6. images[q] \in Entries /\ EntryFits(images[q])
    BY <1>1, <1>2, <2>4, ElementOfSeq
  <2> DEFINE begun == Begun(images[q], packet)
  <2>7. begun \in Entries /\ EntryFits(begun)
    BY <2>6, BegunOf
  <2> HIDE DEF begun
  <2>8. packet.data \in Seq(Nat)
    BY ChunkShape
  <2>9. Filled(begun, packet.data) \in Entries /\ EntryFits(Filled(begun, packet.data))
    BY <2>7, <2>8, FilledOf
  <2> QED
    BY <2>3, <2>4, <2>5, <2>7, <2>9 DEF begun
<1> QED
  BY <1>3, <1>4

LEMMA TakeImageTyped ==
  ASSUME Typed, NEW p \in Peers, NEW packet \in Chunks, TakeImage(p, packet)
  PROVE  SessionTyped' /\ asked' \in Memories
<1>1. /\ images \in Seq(Entries) /\ (\A i \in DOMAIN images : EntryFits(images[i]))
      /\ asked \in Memories
  BY DEF Typed, SessionTyped
<1>2. Len(images) \in Nat /\ DOMAIN images = 1..Len(images)
  BY <1>1, LenProperties
<1>3. UNCHANGED <<userlistBlocks, userlistReply, errno, link>>
  BY DEF TakeImage
<1>4. /\ images' \in Seq(Entries) /\ (\A i \in DOMAIN images' : EntryFits(images'[i]))
      /\ asked' \in Memories
  <2>1. CASE UNCHANGED <<images, asked>>
    BY <1>1, <2>1
  <2>2. ASSUME NEW q \in 1..Len(images),
               Filled(Begun(images[q], packet), packet.data) \in Entries,
               EntryFits(Filled(Begun(images[q], packet), packet.data)),
               ImageGrows(p, q, packet)
        PROVE  <1>4!:
    <3> DEFINE filled == Filled(Begun(images[q], packet), packet.data)
               leaked == asked.leaked \/ filled.lost
    <3>1. filled \in Entries /\ EntryFits(filled)
      BY <2>2
    <3>2. \/ /\ images' = RemoveAt(images, q)
             /\ asked' = [asked EXCEPT !.images[p] = @ - 1, !.leaked = leaked]
          \/ /\ images' = [images EXCEPT ![q] = filled]
             /\ asked' = [asked EXCEPT !.leaked = leaked]
      BY <2>2 DEF ImageGrows
    <3> HIDE DEF filled
    <3>3. leaked \in BOOLEAN
      OBVIOUS
    <3> HIDE DEF leaked
    <3>4. [asked EXCEPT !.leaked = leaked] \in Memories
      BY <1>1, <3>3 DEF Memories
    <3>5. [asked EXCEPT !.images[p] = @ - 1, !.leaked = leaked] \in Memories
      <4> DEFINE less == [asked EXCEPT !.images[p] = @ - 1]
      <4>1. less \in Memories
        BY <1>1, 1 \in Int, ImagesCounted
      <4>2. [asked EXCEPT !.images[p] = @ - 1, !.leaked = leaked] = [less EXCEPT !.leaked = leaked]
        BY <1>1 DEF Memories
      <4> HIDE DEF less
      <4>3. [less EXCEPT !.leaked = leaked] \in Memories
        BY <3>3, <4>1 DEF Memories
      <4> QED
        BY <4>2, <4>3
    <3>6. /\ RemoveAt(images, q) \in Seq(Entries)
          /\ \A i \in DOMAIN RemoveAt(images, q) : EntryFits(RemoveAt(images, q)[i])
      <4> DEFINE shorter == RemoveAt(images, q)
      <4>1. /\ shorter \in Seq(Entries) /\ Len(shorter) = Len(images) - 1
            /\ \A i \in 1..Len(images) - 1 :
                 shorter[i] = IF i < q THEN images[i] ELSE images[i + 1]
        BY <1>1, Removed
      <4> HIDE DEF shorter
      <4>2. DOMAIN shorter = 1..Len(images) - 1
        BY <4>1, LenProperties
      <4> QED
        BY <1>1, <1>2, <4>1, <4>2 DEF shorter
    <3>7. /\ [images EXCEPT ![q] = filled] \in Seq(Entries)
          /\ \A i \in DOMAIN [images EXCEPT ![q] = filled] :
               EntryFits([images EXCEPT ![q] = filled][i])
      BY <1>1, <1>2, <3>1, ExceptSeq
    <3> QED
      BY <3>2, <3>4, <3>5, <3>6, <3>7
  <2> QED
    BY <2>1, <2>2, ImageCases
<1> QED
  BY <1>3, <1>4 DEF Typed, SessionTyped

\* A chunk whose name has no end begins the first entry it fits, and does no more.
LEMMA UnnamedCases ==
  ASSUME Typed, NEW p \in Peers, NEW packet \in Unnamed, TakeUnnamed(p, packet)
  PROVE  \/ UNCHANGED images
         \/ \E q \in 1..Len(images) :
              /\ images' = [images EXCEPT ![q] = [@ EXCEPT !.done = 0]]
              /\ Fits(images[q], p, packet.image)
              /\ \A i \in 1..q - 1 : ~Fits(images[i], p, packet.image)
              /\ [images[q] EXCEPT !.done = 0] \in Entries
              /\ EntryFits([images[q] EXCEPT !.done = 0])
<1>1. images \in Seq(Entries) /\ \A i \in DOMAIN images : EntryFits(images[i])
  BY DEF Typed, SessionTyped
<1>2. Len(images) \in Nat /\ DOMAIN images = 1..Len(images)
  BY <1>1, LenProperties
<1>3. CASE Fitting(p, packet.image) = {}
  BY <1>3 DEF TakeUnnamed
<1>4. CASE Fitting(p, packet.image) # {}
  <2> DEFINE S == Fitting(p, packet.image)
             q == Earliest(S)
  <2>1. S \in SUBSET (1..Len(images))
    BY <1>2 DEF Fitting
  <2> HIDE DEF S
  <2>2. q \in S /\ \A i \in S : q <= i
    BY <1>2, <1>4, <2>1, EarliestOf DEF S
  <2>3. images' = [images EXCEPT ![q] = [@ EXCEPT !.done = 0]]
    BY <1>4 DEF TakeUnnamed, S
  <2> HIDE DEF q
  <2>4. q \in 1..Len(images) /\ Fits(images[q], p, packet.image)
    BY <1>2, <2>1, <2>2 DEF S, Fitting
  <2>5. \A i \in 1..q - 1 : ~Fits(images[i], p, packet.image)
    <3> SUFFICES ASSUME NEW i \in 1..q - 1, Fits(images[i], p, packet.image)
                 PROVE  FALSE
      OBVIOUS
    <3>1. i \in 1..Len(images) /\ ~(q <= i)
      BY <1>2, <2>4
    <3>2. i \in S
      BY <1>2, <3>1 DEF S, Fitting
    <3> QED
      BY <2>2, <3>1, <3>2
  <2>6. images[q] \in Entries /\ EntryFits(images[q])
    BY <1>1, <1>2, <2>4, ElementOfSeq
  <2>7. [images[q] EXCEPT !.done = 0] \in Entries /\ EntryFits([images[q] EXCEPT !.done = 0])
    BY <2>6 DEF Entries, EntryFits
  <2> QED
    BY <2>3, <2>4, <2>5, <2>7
<1> QED
  BY <1>3, <1>4

LEMMA TakeUnnamedTyped ==
  ASSUME Typed, NEW p \in Peers, NEW packet \in Unnamed, TakeUnnamed(p, packet)
  PROVE  SessionTyped' /\ asked' \in Memories
<1>1. /\ images \in Seq(Entries) /\ (\A i \in DOMAIN images : EntryFits(images[i]))
      /\ asked \in Memories
  BY DEF Typed, SessionTyped
<1>2. Len(images) \in Nat /\ DOMAIN images = 1..Len(images)
  BY <1>1, LenProperties
<1>3. UNCHANGED <<userlistBlocks, userlistReply, errno, link, asked>>
  BY DEF TakeUnnamed
<1>4. images' \in Seq(Entries) /\ (\A i \in DOMAIN images' : EntryFits(images'[i]))
  <2>1. CASE UNCHANGED images
    BY <1>1, <2>1
  <2>2. ASSUME NEW q \in 1..Len(images),
               images' = [images EXCEPT ![q] = [@ EXCEPT !.done = 0]],
               [images[q] EXCEPT !.done = 0] \in Entries,
               EntryFits([images[q] EXCEPT !.done = 0])
        PROVE  <1>4!:
    <3> DEFINE begun == [images[q] EXCEPT !.done = 0]
    <3>1. images' = [images EXCEPT ![q] = begun] /\ begun \in Entries /\ EntryFits(begun)
      BY <2>2
    <3> HIDE DEF begun
    <3> QED
      BY <1>1, <1>2, <3>1, ExceptSeq
  <2> QED
    BY <2>1, <2>2, UnnamedCases
<1> QED
  BY <1>1, <1>3, <1>4 DEF Typed, SessionTyped

LEMMA TakeUserlistReplyTyped ==
  ASSUME Typed, NEW packet \in ListReplies, TakeUserlistReply(packet)
  PROVE  SessionTyped' /\ asked' \in Memories
<1>1. packet.data \in Seq(Nat)
  BY DEF ListReplies
<1>2. userlistReply \in Seq(Nat) /\ userlistBlocks \in Int /\ asked \in Memories
  BY DEF Typed, SessionTyped
<1>3. Joined(userlistReply, packet.data) \in Seq(Nat)
  BY <1>1, <1>2, ConcatProperties DEF Joined
<1>4. userlistBlocks' \in Int /\ UNCHANGED <<images, errno, link>>
  BY <1>2 DEF TakeUserlistReply
<1>5. userlistReply' \in Seq(Nat) /\ (asked' = asked \/ asked' = [asked EXCEPT !.request = "none"])
  <2>1. <<>> \in Seq(Nat)
    OBVIOUS
  <2> QED
    BY <1>2, <1>3, <2>1 DEF TakeUserlistReply
<1>6. [asked EXCEPT !.request = "none"] \in Memories
  BY <1>2 DEF Memories
<1> QED
  BY <1>2, <1>4, <1>5, <1>6 DEF Typed, SessionTyped

LEMMA TakePubdir50ReplyTyped ==
  ASSUME Typed, NEW packet \in SearchReplies, TakePubdir50Reply(packet)
  PROVE  SessionTyped' /\ asked' \in Memories
<1>1. asked \in Memories /\ errno \in {"EAGAIN", "EINVAL", "other"}
      /\ link \in {"up", "lossy", "broken", "over"}
  BY DEF Typed, SessionTyped
<1>2. CASE packet.form = "whole"
  <2>1. asked' = [asked EXCEPT !.searches = @ - 1] /\ UNCHANGED <<errno, link>>
    BY <1>2 DEF TakePubdir50Reply
  <2>2. asked.searches - 1 \in Int
    BY <1>1 DEF Memories
  <2>3. asked' \in Memories
    BY <1>1, <2>1, <2>2 DEF Memories
  <2> QED
    BY <2>1, <2>3 DEF TakePubdir50Reply, Typed, SessionTyped
<1>3. CASE packet.form # "whole"
  <2> DEFINE code == ReplyError(packet.form)
             hidden == asked.hidden \/ (packet.form = "unended" /\ errno = "EAGAIN")
  <2>1. Fails(code) /\ asked' = [asked EXCEPT !.hidden = hidden]
    BY <1>3 DEF TakePubdir50Reply
  <2>2. code \in {"EAGAIN", "EINVAL", "other"}
    BY <1>1 DEF ReplyError
  <2>3. hidden \in BOOLEAN
    OBVIOUS
  <2> HIDE DEF code, hidden
  <2>4. asked' \in Memories
    BY <1>1, <2>1, <2>3 DEF Memories
  <2>5. errno' \in {"EAGAIN", "EINVAL", "other"} /\ link' \in {"up", "lossy", "broken", "over"}
    BY <1>1, <2>1, <2>2 DEF Fails
  <2> QED
    BY <2>4, <2>5 DEF TakePubdir50Reply, Typed, SessionTyped
<1> QED
  BY <1>2, <1>3

LEMMA WatchPacketTyped ==
  ASSUME Typed, NEW s \in Sources, WatchPacket(s)
  PROVE  Typed'
<1> DEFINE packet == Head(wire[s])
<1>1. WireTyped' /\ UNCHANGED <<toServer, stored, contacts, owed>>
  BY WatchCases
<1>2. SessionTyped' /\ asked' \in Memories
  <2>1. ASSUME packet \in ListReplies, TakeUserlistReply(packet) PROVE <1>2!:
    BY <2>1, TakeUserlistReplyTyped
  <2>2. ASSUME packet \in SearchReplies, TakePubdir50Reply(packet) PROVE <1>2!:
    BY <2>2, TakePubdir50ReplyTyped
  <2>3. ASSUME TakeNotifyReply(packet) PROVE <1>2!:
    BY <2>3 DEF TakeNotifyReply, Fails, Typed, SessionTyped
  <2>4. ASSUME TakeNotice(packet) PROVE <1>2!:
    BY <2>4 DEF TakeNotice, session, Typed, SessionTyped
  <2>5. ASSUME s \in Peers, packet \in Chunks, TakeImage(s, packet) PROVE <1>2!:
    BY <2>5, TakeImageTyped
  <2>7. ASSUME s \in Peers, packet \in Unnamed, TakeUnnamed(s, packet) PROVE <1>2!:
    BY <2>7, TakeUnnamedTyped
  <2>6. ASSUME s \in Peers, TakeMessage(s, packet) PROVE <1>2!:
    <3>1. UNCHANGED <<userlistBlocks, userlistReply, images, errno, link>>
      BY <2>6 DEF TakeMessage, session
    <3>2. asked \in Memories
      BY DEF Typed
    <3>3. asked' = asked \/ asked' = [asked EXCEPT !.images[s] = @ - 1]
      BY <2>6 DEF TakeMessage
    <3>4. [asked EXCEPT !.images[s] = @ - 1] \in Memories
      BY <2>6, <3>2, 1 \in Int, ImagesCounted
    <3> QED
      BY <3>1, <3>2, <3>3, <3>4 DEF Typed, SessionTyped
  <2> HIDE DEF packet
  <2> QED
    BY <2>1, <2>2, <2>3, <2>4, <2>5, <2>6, <2>7, WatchCases DEF packet
<1> QED
  BY <1>1, <1>2 DEF Typed

LEMMA NextTyped ==
  ASSUME Typed, [Next]_vars
  PROVE  Typed'
<1>1. ASSUME Client PROVE Typed'
  BY <1>1, UserlistPutTyped, UserlistGetTyped, ImageRequestTyped, NotifyTyped,
     AddOrRemoveNotifyTyped, Pubdir50Typed DEF Client
<1>2. ASSUME ServerTakes PROVE Typed'
  BY <1>2, ServerTakesTyped
<1>3. ASSUME NEW p \in Peers, PeerAnswers(p) PROVE Typed'
  BY <1>3, PeerAnswersTyped
<1>4. ASSUME Unasked PROVE Typed'
  BY <1>4, UnaskedTyped
<1>5. ASSUME NEW s \in Sources, WatchPacket(s) PROVE Typed'
  BY <1>5, WatchPacketTyped
<1>6. ASSUME WatchEnd \/ WatchNothing PROVE Typed'
  <2>1. /\ UNCHANGED <<userlistBlocks, userlistReply, images, wire, toServer,
                       stored, contacts, owed, asked>>
        /\ Fails("EAGAIN") \/ Fails("other")
    BY <1>6 DEF WatchEnd, WatchNothing, farEnd
  <2>2. errno' \in {"EAGAIN", "EINVAL", "other"} /\ link' \in {"up", "lossy", "broken", "over"}
    BY <2>1 DEF Fails, Typed, SessionTyped
  <2> QED
    BY <2>1, <2>2 DEF Typed, SessionTyped, WireTyped
<1>7. ASSUME UNCHANGED vars PROVE Typed'
  BY <1>7 DEF vars, session, farEnd, Typed, SessionTyped, WireTyped
<1> QED
  BY <1>1, <1>2, <1>3, <1>4, <1>5, <1>6, <1>7 DEF Next, Watch

LEMMA InitTyped ==
  ASSUME Init
  PROVE  Typed
<1>1. <<>> \in Seq(Nat) /\ <<>> \in Seq(ForServer) /\ <<>> \in Seq(Entries) /\ <<>> \in Seq(Images)
      /\ <<>> \in Seq(FromServer) /\ <<>> \in Seq(FromPeers) /\ <<>> \in Seq(FromPeers \cup FromServer)
  OBVIOUS
<1>2. WireTyped
  <2>1. "server" \in Sources /\ Peers \subseteq Sources
    BY DEF Sources
  <2> QED
    BY <1>1, <2>1 DEF Init, WireTyped
<1>3. asked \in Memories
  BY <1>1 DEF Init, Memories
<1>4. \A i \in DOMAIN <<>> : EntryFits(<<>>[i])
  OBVIOUS
<1> QED
  BY <1>1, <1>2, <1>3, <1>4 DEF Init, Typed, SessionTyped

-----------------------------------------------------------------------------
(***************************************************************************)
(* What calls, the server and the peers leave alone, and what they add to  *)
(* the packets under way.                                                  *)
(***************************************************************************)
LEMMA ClientCalls ==
  ASSUME Client
  PROVE  UNCHANGED <<errno, wire, stored, contacts, owed>> /\ link \in {"up", "lossy"}
BY DEF Client, UserlistPut, UserlistGet, ImageRequest, Notify, AddOrRemoveNotify,
   Pubdir50, Called, farEnd

LEMMA ServerRepliesOnly ==
  ASSUME Typed, ServerTakes
  PROVE  \/ wire' = wire
         \/ \E packets \in Seq(FromServer) : Replies(packets)
<1> DEFINE packet == Head(toServer)
<1>1. packet \in ForServer /\ stored \in Seq(Nat)
  BY HeadOf DEF ServerTakes, Typed
<1> HIDE DEF packet
<1>2. ASSUME ServerStores(packet)
      PROVE  \E packets \in Seq(FromServer) : Replies(packets)
  <2> DEFINE type == IF packet.type = "USERLIST_PUT" THEN "PUT_REPLY" ELSE "PUT_MORE_REPLY"
             reply == UserlistReply(type, <<>>)
  <2>1. reply \in FromServer
    <3>1. type \in {"PUT_REPLY", "PUT_MORE_REPLY"} /\ <<>> \in Seq(Nat)
      OBVIOUS
    <3> HIDE DEF type
    <3> QED
      BY <3>1 DEF FromServer, ListReplies, UserlistReply
  <2>2. Replies(<<reply>>)
    BY <1>2 DEF ServerStores
  <2> HIDE DEF reply
  <2> QED
    BY <2>1, <2>2, ReplyOfServer
<1>3. ASSUME ServerLists(packet)
      PROVE  \E packets \in Seq(FromServer) : Replies(packets)
  BY <1>1, <1>3, UserlistPartsType DEF ServerLists
<1>4. ASSUME ServerFinds(packet)
      PROVE  \E packets \in Seq(FromServer) : Replies(packets)
  <2>1. PICK reply \in SearchReplies : Replies(<<reply>>)
    BY <1>1, <1>4, SearchAnswered
  <2>2. reply \in FromServer
    BY DEF FromServer
  <2> QED
    BY <2>1, <2>2, ReplyOfServer
<1>5. ASSUME ServerNotes(packet) \/ ServerPassesOn(packet)
      PROVE  wire' = wire
  BY <1>5 DEF ServerNotes, ServerPassesOn
<1> QED
  BY <1>2, <1>3, <1>4, <1>5 DEF ServerTakes, packet

\* A peer adds to its own queue: the chunks of the image it owes first, one that
\* says it has none, or a message of a conference.
LEMMA PeerAdds ==
  ASSUME Typed, NEW p \in Peers, PeerAnswers(p)
  PROVE  \E packets \in Seq(FromPeers) : wire' = [wire EXCEPT ![p] = @ \o packets]
<1> DEFINE image == Head(owed[p])
           all == ChunkCount(image.size)
           packets(n) == ImagePackets(image, n = all)
<1>1. image \in Images
  BY HeadOf DEF PeerAnswers, Typed
<1>2. \A n \in 0 .. all : packets(n) \in Seq(FromPeers) /\ Len(packets(n)) = all
  BY <1>1, ImagePacketsType
<1> HIDE DEF packets, all, image
<1>3. ASSUME NEW n \in 0 .. all, wire' = [wire EXCEPT ![p] = @ \o SubSeq(packets(n), 1, n)]
      PROVE  \E more \in Seq(FromPeers) : wire' = [wire EXCEPT ![p] = @ \o more]
  <2>1. SubSeq(packets(n), 1, n) \in Seq(FromPeers)
    BY <1>2, FirstPart
  <2> QED
    BY <1>3, <2>1
<1>4. ASSUME wire' = [wire EXCEPT ![p] = Append(@,
                        [type |-> "RECV_MSG", option |-> "IMAGE_NONE", image |-> image])]
      PROVE  \E more \in Seq(FromPeers) : wire' = [wire EXCEPT ![p] = @ \o more]
  <2> DEFINE packet == [type |-> "RECV_MSG", option |-> "IMAGE_NONE", image |-> image]
  <2>1. packet \in FromPeers
    BY <1>1 DEF FromPeers, NoImages
  <2>2. wire' = [wire EXCEPT ![p] = Append(wire[p], packet)]
    BY <1>4
  <2> HIDE DEF packet
  <2>3. Append(wire[p], packet) = wire[p] \o <<packet>> /\ <<packet>> \in Seq(FromPeers)
    BY <2>1, AppendIsConcat DEF Typed, WireTyped
  <2>4. wire' = [wire EXCEPT ![p] = wire[p] \o <<packet>>]
    BY <2>2, <2>3
  <2> QED
    BY <2>3, <2>4
<1>5. ASSUME wire' = [wire EXCEPT ![p] = Append(@,
                        [type |-> "RECV_MSG", option |-> "IMAGE_UNNAMED", image |-> image])]
      PROVE  \E more \in Seq(FromPeers) : wire' = [wire EXCEPT ![p] = @ \o more]
  <2> DEFINE packet == [type |-> "RECV_MSG", option |-> "IMAGE_UNNAMED", image |-> image]
  <2>1. packet \in FromPeers
    BY <1>1 DEF FromPeers, Unnamed
  <2>2. wire' = [wire EXCEPT ![p] = Append(wire[p], packet)]
    BY <1>5
  <2> HIDE DEF packet
  <2>3. Append(wire[p], packet) = wire[p] \o <<packet>> /\ <<packet>> \in Seq(FromPeers)
    BY <2>1, AppendIsConcat DEF Typed, WireTyped
  <2>4. wire' = [wire EXCEPT ![p] = wire[p] \o <<packet>>]
    BY <2>2, <2>3
  <2> QED
    BY <2>3, <2>4
<1> QED
  BY <1>3, <1>4, <1>5 DEF PeerAnswers, image, all, packets

LEMMA UnaskedAdds ==
  ASSUME Typed, Unasked
  PROVE  \/ \E packets \in Seq(FromServer) : Replies(packets)
         \/ \E p \in Peers, packet \in Conferences : wire' = [wire EXCEPT ![p] = Append(@, packet)]
<1>1. ASSUME NEW p \in Peers, NEW group \in Groups, NEW stale \in ToSet(group),
             NEW i \in Ours(group),
             wire' = [wire EXCEPT ![p] = Append(@, ConferPackets(p, group, stale)[i])]
      PROVE  \E q \in Peers, packet \in Conferences : wire' = [wire EXCEPT ![q] = Append(@, packet)]
  <2> DEFINE packet == ConferPackets(p, group, stale)[i]
  <2>1. packet \in Conferences
    <3>1. packet \in {ConferPackets(q, group, st)[j] :
                         q \in Peers, st \in ToSet(group), j \in Ours(group)}
      OBVIOUS
    <3> QED
      BY <3>1 DEF Conferences
  <2> HIDE DEF packet
  <2>2. wire' = [wire EXCEPT ![p] = Append(@, packet)]
    BY <1>1 DEF packet
  <2> QED
    BY <2>1, <2>2
<1>2. ASSUME NEW type \in Notices, Replies(<<[type |-> type]>>)
      PROVE  \E packets \in Seq(FromServer) : Replies(packets)
  <2>1. [type |-> type] \in FromServer
    BY DEF FromServer, Notes
  <2> QED
    BY <1>2, <2>1, ReplyOfServer
<1> QED
  BY <1>1, <1>2 DEF Unasked, Ours

-----------------------------------------------------------------------------
(***************************************************************************)
(* ContactsKnown: the packets under way to the server lead from the        *)
(* contacts it knows to those the client named.                            *)
(***************************************************************************)
Contacts == [known : SUBSET Nat, coming : SUBSET Nat]

Told(noted, packet) == IF packet.type \in NoteTypes THEN Noted(noted, packet) ELSE noted

Leads(packets, from, to) ==
  \E path \in [1..Len(packets) + 1 -> Contacts] :
    /\ path[1] = from /\ path[Len(packets) + 1] = to
    /\ \A i \in 1..Len(packets) : path[i + 1] = Told(path[i], packets[i])

Whole(named) == [known |-> named, coming |-> {}]

ContactsTold == link = "up" => Leads(toServer, contacts, Whole(asked.contacts))

LEMMA LeadsNowhere ==
  ASSUME NEW to \in Contacts, NEW from, Leads(<<>>, from, to)
  PROVE  from = to
<1>1. Len(<<>>) + 1 = 1
  OBVIOUS
<1> QED
  BY <1>1 DEF Leads

LEMMA LeadsOn ==
  ASSUME NEW p \in Seq(ForServer), NEW q \in Seq(ForServer),
         NEW x, NEW y, NEW z, Leads(p, x, y), Leads(q, y, z)
  PROVE  Leads(p \o q, x, z)
<1> DEFINE m == Len(p)
           n == Len(q)
<1>1. m \in Nat /\ n \in Nat
  BY LenProperties
<1>2. PICK path \in [1..m + 1 -> Contacts] :
        /\ path[1] = x /\ path[m + 1] = y
        /\ \A i \in 1..m : path[i + 1] = Told(path[i], p[i])
  BY DEF Leads
<1>3. PICK route \in [1..n + 1 -> Contacts] :
        /\ route[1] = y /\ route[n + 1] = z
        /\ \A i \in 1..n : route[i + 1] = Told(route[i], q[i])
  BY DEF Leads
<1>4. /\ Len(p \o q) = m + n
      /\ \A i \in 1..m + n : (p \o q)[i] = IF i <= m THEN p[i] ELSE q[i - m]
  BY ConcatProperties
<1> HIDE DEF m, n
<1> DEFINE way == [i \in 1..m + n + 1 |-> IF i <= m + 1 THEN path[i] ELSE route[i - m]]
<1>5. way \in [1..m + n + 1 -> Contacts]
  BY <1>1, <1>2, <1>3
<1>6. way[1] = x /\ way[m + n + 1] = z
  <2>1. way[1] = x
    BY <1>1, <1>2
  <2>2. CASE n = 0
    BY <1>1, <1>2, <1>3, <2>1, <2>2
  <2>3. CASE n # 0
    <3>1. ~(m + n + 1 <= m + 1) /\ m + n + 1 \in 1..m + n + 1 /\ (m + n + 1) - m = n + 1
      BY <1>1, <2>3
    <3>2. way[m + n + 1] = route[n + 1]
      BY <3>1
    <3> QED
      BY <1>3, <2>1, <3>2
  <2> QED
    BY <2>2, <2>3
<1>7. ASSUME NEW i \in 1..m + n
      PROVE  way[i + 1] = Told(way[i], (p \o q)[i])
  <2>1. CASE i <= m
    <3>1. i \in 1..m /\ i + 1 <= m + 1 /\ i \in 1..m + n + 1 /\ i + 1 \in 1..m + n + 1
      BY <1>1, <2>1
    <3>2. way[i] = path[i] /\ way[i + 1] = path[i + 1] /\ (p \o q)[i] = p[i]
      BY <1>1, <1>4, <2>1, <3>1
    <3> QED
      BY <1>2, <3>1, <3>2
  <2>2. CASE ~(i <= m)
    <3>1. i - m \in 1..n /\ (i + 1) - m = (i - m) + 1 /\ i \in 1..m + n + 1
          /\ i + 1 \in 1..m + n + 1 /\ ~(i + 1 <= m + 1)
      BY <1>1, <2>2
    <3>2. way[i + 1] = route[(i - m) + 1] /\ (p \o q)[i] = q[i - m]
      BY <1>1, <1>4, <2>2, <3>1
    <3>3. way[i] = route[i - m]
      <4>1. CASE i = m + 1
        BY <1>1, <1>2, <1>3, <3>1, <4>1
      <4>2. CASE i # m + 1
        BY <1>1, <2>2, <3>1, <4>2
      <4> QED
        BY <4>1, <4>2
    <3> QED
      BY <1>3, <3>1, <3>2, <3>3
  <2> QED
    BY <2>1, <2>2
<1> HIDE DEF way
<1>8. Len(p \o q) + 1 = m + n + 1
  BY <1>1, <1>4
<1> QED
  BY <1>4, <1>5, <1>6, <1>7, <1>8 DEF Leads

LEMMA LeadsRest ==
  ASSUME NEW p \in Seq(ForServer), p # <<>>, NEW x, NEW z, Leads(p, x, z)
  PROVE  Leads(Tail(p), Told(x, Head(p)), z)
<1> DEFINE m == Len(p)
           q == Tail(p)
<1>1. /\ m \in Nat \ {0} /\ Len(q) = m - 1 /\ Head(p) = p[1]
      /\ \A i \in 1..m - 1 : q[i] = p[i + 1]
  BY HeadOf
<1>2. PICK path \in [1..m + 1 -> Contacts] :
        /\ path[1] = x /\ path[m + 1] = z
        /\ \A i \in 1..m : path[i + 1] = Told(path[i], p[i])
  BY DEF Leads
<1> HIDE DEF m, q
<1> DEFINE way == [i \in 1..m |-> path[i + 1]]
<1>3. way \in [1..Len(q) + 1 -> Contacts]
  BY <1>1, <1>2
<1>4. way[1] = Told(x, Head(p)) /\ way[Len(q) + 1] = z
  BY <1>1, <1>2
<1>5. ASSUME NEW i \in 1..Len(q)
      PROVE  way[i + 1] = Told(way[i], q[i])
  <2>1. i \in 1..m - 1 /\ i + 1 \in 1..m /\ i \in 1..m
    BY <1>1
  <2>2. way[i + 1] = path[(i + 1) + 1] /\ way[i] = path[i + 1] /\ q[i] = p[i + 1]
    BY <1>1, <2>1
  <2> QED
    BY <1>2, <2>1, <2>2
<1> HIDE DEF way
<1> QED
  BY <1>3, <1>4, <1>5 DEF Leads, q

LEMMA LeadsBack ==
  ASSUME NEW packets \in Seq(ForServer), NEW x \in Contacts,
         \A i \in 1..Len(packets) : packets[i].type \notin NoteTypes
  PROVE  Leads(packets, x, x)
<1>1. Len(packets) \in Nat
  BY LenProperties
<1> DEFINE path == [i \in 1..Len(packets) + 1 |-> x]
<1>2. /\ path \in [1..Len(packets) + 1 -> Contacts]
      /\ path[1] = x /\ path[Len(packets) + 1] = x
      /\ \A i \in 1..Len(packets) : path[i] = x /\ path[i + 1] = x
  BY <1>1
<1> HIDE DEF path
<1> QED
  BY <1>2 DEF Leads, Told

LEMMA LeadsOnce ==
  ASSUME NEW packet \in NoteRequests, NEW x \in Contacts
  PROVE  Leads(<<packet>>, x, Noted(x, packet))
<1>1. Noted(x, packet) \in Contacts
  BY NotedTyped DEF Contacts
<1>2. Told(x, packet) = Noted(x, packet)
  BY DEF Told, NoteRequests
<1> DEFINE path == [i \in 1..2 |-> IF i = 1 THEN x ELSE Noted(x, packet)]
<1>3. path \in [1..2 -> Contacts] /\ path[1] = x /\ path[2] = Noted(x, packet)
  BY <1>1
<1>4. Len(<<packet>>) = 1 /\ <<packet>>[1] = packet
  OBVIOUS
<1>5. \A i \in 1..1 : path[i + 1] = Told(path[i], <<packet>>[i])
  <2> SUFFICES ASSUME NEW i \in 1..1 PROVE path[i + 1] = Told(path[i], <<packet>>[i])
    OBVIOUS
  <2>1. i = 1 /\ i + 1 = 2
    OBVIOUS
  <2> HIDE DEF path
  <2> QED
    BY <1>2, <1>3, <1>4, <2>1
<1> HIDE DEF path
<1>6. Len(<<packet>>) + 1 = 2
  BY <1>4
<1> QED
  BY <1>3, <1>4, <1>5, <1>6 DEF Leads

LEMMA NamedNumbers ==
  ASSUME NEW s \in Seq(Nat)
  PROVE  ToSet(s) \in SUBSET Nat
BY LenProperties, ElementOfSeq DEF ToSet

LEMMA JoinedSet ==
  ASSUME NEW s \in Seq(Nat), NEW t \in Seq(Nat)
  PROVE  ToSet(s \o t) = ToSet(s) \cup ToSet(t)
<1>1. /\ DOMAIN s = 1..Len(s) /\ DOMAIN t = 1..Len(t) /\ Len(s) \in Nat /\ Len(t) \in Nat
      /\ DOMAIN (s \o t) = 1..Len(s) + Len(t)
      /\ \A i \in 1..Len(s) + Len(t) :
           (s \o t)[i] = IF i <= Len(s) THEN s[i] ELSE t[i - Len(s)]
  BY LenProperties, ConcatProperties
<1>2. ASSUME NEW i \in 1..Len(s) + Len(t)
      PROVE  (s \o t)[i] \in ToSet(s) \cup ToSet(t)
  <2>1. CASE i <= Len(s)
    BY <1>1, <2>1, SMTT(40) DEF ToSet
  <2>2. CASE ~(i <= Len(s))
    <3>1. i - Len(s) \in 1..Len(t)
      BY <1>1, <2>2
    <3> QED
      BY <1>1, <2>2, <3>1 DEF ToSet
  <2> QED
    BY <2>1, <2>2
<1>3. ASSUME NEW i \in 1..Len(s)
      PROVE  s[i] \in ToSet(s \o t)
  <2>1. i \in 1..Len(s) + Len(t) /\ (s \o t)[i] = s[i]
    BY <1>1
  <2> QED
    BY <1>1, <2>1 DEF ToSet
<1>4. ASSUME NEW i \in 1..Len(t)
      PROVE  t[i] \in ToSet(s \o t)
  <2>1. i + Len(s) \in 1..Len(s) + Len(t) /\ ~(i + Len(s) <= Len(s)) /\ (i + Len(s)) - Len(s) = i
    BY <1>1
  <2>2. (s \o t)[i + Len(s)] = t[i]
    BY <1>1, <2>1
  <2> QED
    BY <1>1, <2>1, <2>2 DEF ToSet
<1> QED
  BY <1>1, <1>2, <1>3, <1>4 DEF ToSet

LEMMA NotifyLeads ==
  ASSUME NEW list \in Seq(Nat), NEW known \in SUBSET Nat
  PROVE  Leads(NotifyPackets(list), Whole(known), Whole(ToSet(list)))
<1> DEFINE packets == NotifyPackets(list)
           m == Len(packets)
           reached(k) == SubSeq(list, 1, Reach(list, NotifyBlock, k))
<1>1. Whole(known) \in Contacts
  BY DEF Whole, Contacts
<1>2. CASE list = <<>>
  <2>1. packets = <<[type |-> "LIST_EMPTY", data |-> <<>>]>>
    BY <1>2 DEF NotifyPackets
  <2> DEFINE packet == [type |-> "LIST_EMPTY", data |-> <<>>]
  <2>2. packet \in NoteRequests
    BY DEF NoteRequests, NoteTypes
  <2>3. ToSet(list) = {} /\ packet.type = "LIST_EMPTY" /\ packet.data = list
    BY <1>2 DEF ToSet
  <2> HIDE DEF packet
  <2>4. Noted(Whole(known), packet) = Whole(ToSet(list))
    BY <2>3 DEF Noted, Whole
  <2>5. Leads(<<packet>>, Whole(known), Noted(Whole(known), packet))
    BY <1>1, <2>2, LeadsOnce
  <2> QED
    BY <2>1, <2>4, <2>5 DEF packet
<1>3. CASE list # <<>>
  <2>1. NotifyBlock \in Nat \ {0}
    BY BlocksAssumption
  <2> DEFINE P == Pieces(list, NotifyBlock)
  <2>2. /\ m \in Nat \ {0} /\ m = Len(P) /\ packets \in Seq(NoteRequests)
        /\ \A k \in 1..m :
             /\ packets[k].data = P[k]
             /\ packets[k].type = IF k < m THEN "NOTIFY_FIRST" ELSE "NOTIFY_LAST"
    BY <1>3, NotifyPacketsType
  <2>3. /\ P \in Seq(Seq(Nat))
        /\ reached(0) = <<>> /\ reached(Len(P)) = list
        /\ \A k \in 0..Len(P) : Reach(list, NotifyBlock, k) \in 0..Len(list)
        /\ \A k \in 1..Len(P) : reached(k - 1) \o P[k] = reached(k)
    BY <2>1, PiecesOf, ZenonT(40)
  <2> HIDE DEF P, m, packets
  <2>4. ASSUME NEW k \in 0..m
        PROVE  reached(k) \in Seq(Nat)
    <3>1. Reach(list, NotifyBlock, k) \in 0..Len(list)
      BY <2>2, <2>3
    <3> QED
      BY <3>1, FirstPart
  <2> HIDE DEF reached
  <2>5. ASSUME NEW k \in 1..m
        PROVE  /\ ToSet(reached(k)) = ToSet(reached(k - 1)) \cup ToSet(P[k])
               /\ ToSet(reached(k)) \in SUBSET Nat
    <3>1. P[k] \in Seq(Nat)
      BY <2>2, <2>3, ElementOfSeq
    <3>2. k - 1 \in 0..m /\ k \in 0..m
      BY <2>2
    <3>3. reached(k - 1) \in Seq(Nat) /\ reached(k - 1) \o P[k] = reached(k) /\ reached(k) \in Seq(Nat)
      BY <2>2, <2>3, <2>4, <3>2
    <3>4. ToSet(reached(k)) \subseteq Nat
      BY <3>3, NamedNumbers
    <3> QED
      BY <3>1, <3>3, <3>4, JoinedSet
  <2>6. ToSet(reached(0)) = {} /\ ToSet(reached(m)) = ToSet(list)
    BY <2>2, <2>3 DEF ToSet
  <2> DEFINE path == [i \in 1..m + 1 |->
                        IF i <= m THEN [known |-> known, coming |-> ToSet(reached(i - 1))]
                        ELSE Whole(ToSet(list))]
  <2>7. path \in [1..m + 1 -> Contacts]
    <3> SUFFICES ASSUME NEW i \in 1..m + 1
                 PROVE  path[i] \in Contacts
      OBVIOUS
    <3>1. CASE i <= m
      <4>1. i - 1 \in 0..m /\ (i - 1 = 0 \/ i - 1 \in 1..m)
        BY <2>2, <3>1
      <4>2. ToSet(reached(i - 1)) \in SUBSET Nat
        BY <2>5, <2>6, <4>1
      <4> QED
        BY <3>1, <4>2 DEF Contacts
    <3>2. CASE ~(i <= m)
      <4>1. ToSet(list) \in SUBSET Nat
        <5>1. m \in 1..m
          BY <2>2
        <5> QED
          BY <2>5, <2>6, <5>1
      <4> QED
        BY <3>2, <4>1 DEF Contacts, Whole
    <3> QED
      BY <3>1, <3>2
  <2>8. path[1] = Whole(known) /\ path[m + 1] = Whole(ToSet(list))
    <3>1. 1 \in 1..m + 1 /\ 1 <= m /\ m + 1 \in 1..m + 1 /\ ~(m + 1 <= m) /\ 1 - 1 = 0
      BY <2>2
    <3> QED
      BY <2>6, <3>1 DEF Whole
  <2>9. ASSUME NEW i \in 1..m
        PROVE  path[i + 1] = Told(path[i], packets[i])
    <3>1. i \in 1..m + 1 /\ i + 1 \in 1..m + 1 /\ i <= m /\ (i + 1) - 1 = i
          /\ (i + 1 <= m <=> i < m)
      BY <2>2
    <3>2. path[i] = [known |-> known, coming |-> ToSet(reached(i - 1))]
      BY <3>1
    <3>3. path[i + 1] = IF i < m THEN [known |-> known, coming |-> ToSet(reached(i))]
                        ELSE Whole(ToSet(list))
      BY <3>1
    <3> HIDE DEF path
    <3> DEFINE x == path[i]
               packet == packets[i]
    <3>4. /\ packet.data = P[i] /\ packet \in NoteRequests
          /\ packet.type = IF i < m THEN "NOTIFY_FIRST" ELSE "NOTIFY_LAST"
      BY <2>2, ElementOfSeq DEF m
    <3>5. ToSet(packet.data) = ToSet(P[i])
      BY <3>4
    <3>6. x.known = known /\ x.coming \cup ToSet(P[i]) = ToSet(reached(i))
      BY <2>5, <3>2
    <3> HIDE DEF x, packet
    <3>7. Told(x, packet) = Noted(x, packet)
      BY <3>4 DEF Told, NoteTypes
    <3>8. CASE i < m
      <4>1. Noted(x, packet) = [known |-> known, coming |-> ToSet(reached(i))]
        BY <3>4, <3>5, <3>6, <3>8 DEF Noted
      <4> QED
        BY <3>3, <3>7, <3>8, <4>1 DEF x, packet
    <3>9. CASE ~(i < m)
      <4>1. i = m
        BY <2>2, <3>9
      <4>2. Noted(x, packet) = [known |-> ToSet(reached(i)), coming |-> {}]
        BY <3>4, <3>5, <3>6, <3>9 DEF Noted
      <4>3. Noted(x, packet) = Whole(ToSet(list))
        BY <2>6, <4>1, <4>2 DEF Whole
      <4> QED
        BY <3>3, <3>7, <3>9, <4>3 DEF x, packet
    <3> QED
      BY <3>8, <3>9
  <2> HIDE DEF path
  <2>10. Leads(packets, Whole(known), Whole(ToSet(list)))
    BY <2>7, <2>8, <2>9 DEF Leads, m
  <2> QED
    BY <2>10 DEF packets
<1> QED
  BY <1>2, <1>3

LEMMA NoNotes ==
  ASSUME NEW packet \in ForServer, packet.type \notin NoteTypes
  PROVE  /\ <<packet>> \in Seq(ForServer) /\ Len(<<packet>>) = 1
         /\ \A i \in 1..Len(<<packet>>) : <<packet>>[i].type \notin NoteTypes
OBVIOUS

\* What a call does to the path: it goes on with the packets of the call if
\* all of them get through.
LEMMA CallTold ==
  ASSUME Typed, ContactsTold, NEW packets \in Seq(ForServer), NEW fate \in Fates(Len(packets)),
         Sends(packets, fate), UNCHANGED contacts, asked' \in Memories,
         Leads(packets, Whole(asked.contacts), Whole(asked'.contacts))
  PROVE  ContactsTold'
<1> SUFFICES ASSUME link' = "up"
             PROVE  Leads(toServer', contacts', Whole(asked'.contacts))
  BY DEF ContactsTold
<1>1. fate.through = DOMAIN packets /\ link = "up"
  BY DEF Sends
<1>2. Picked(packets, fate.through) = packets
  BY <1>1, SentOf
<1>3. toServer' = toServer \o packets
  BY <1>1, <1>2 DEF Sends
<1>4. Leads(toServer, contacts, Whole(asked.contacts))
  BY <1>1 DEF ContactsTold
<1>5. toServer \in Seq(ForServer)
  BY DEF Typed
<1>6. Leads(toServer \o packets, contacts, Whole(asked'.contacts))
  BY <1>4, <1>5, LeadsOn
<1> QED
  BY <1>3, <1>6

LEMMA OtherCallTold ==
  ASSUME Typed, ContactsTold, NEW packets \in Seq(ForServer), NEW fate \in Fates(Len(packets)),
         Sends(packets, fate), UNCHANGED contacts, asked' \in Memories,
         asked'.contacts = asked.contacts,
         \A i \in 1..Len(packets) : packets[i].type \notin NoteTypes
  PROVE  ContactsTold'
<1>1. Whole(asked.contacts) \in Contacts
  BY DEF Typed, Memories, Whole, Contacts
<1>2. Leads(packets, Whole(asked.contacts), Whole(asked'.contacts))
  BY <1>1, LeadsBack
<1> QED
  BY <1>2, CallTold

LEMMA ClientTold ==
  ASSUME Typed, Typed', ContactsTold, Client
  PROVE  ContactsTold'
<1>1. UNCHANGED contacts /\ asked' \in Memories /\ asked \in Memories
  BY ClientCalls DEF Typed
<1>2. ASSUME NEW list \in Lists, UserlistPut(list) PROVE ContactsTold'
  <2>1. list \in Seq(Nat)
    BY ListsAssumption
  <2> DEFINE packets == UserlistPackets(list)
  <2>2. /\ packets \in Seq(ForServer)
        /\ \A k \in 1..Len(packets) :
             packets[k].type = IF k = 1 THEN "USERLIST_PUT" ELSE "USERLIST_PUT_MORE"
    BY <2>1, UserlistPacketsType
  <2>3. PICK fate \in Fates(Len(packets)) :
          /\ Sends(packets, fate)
          /\ asked' = [AsksList(asked, "put") EXCEPT !.list = list]
    BY <1>2 DEF UserlistPut
  <2> HIDE DEF packets
  <2>4. \A k \in 1..Len(packets) : packets[k].type \notin NoteTypes
    BY <2>2 DEF NoteTypes
  <2>5. asked'.contacts = asked.contacts
    BY <1>1, <2>3 DEF AsksList, Memories
  <2> QED
    BY <1>1, <2>2, <2>3, <2>4, <2>5, OtherCallTold
<1>3. ASSUME UserlistGet PROVE ContactsTold'
  <2> DEFINE packet == [type |-> "USERLIST_GET"]
  <2>1. PICK fate \in Fates(1) :
          Sends(<<packet>>, fate) /\ asked' = AsksList(asked, "get")
    BY <1>3 DEF UserlistGet
  <2>2. packet \in ForServer /\ packet.type \notin NoteTypes
    BY DEF ForServer, ListRequests, NoteTypes
  <2> HIDE DEF packet
  <2>3. asked'.contacts = asked.contacts
    BY <1>1, <2>1 DEF AsksList, Memories
  <2>4. fate \in Fates(Len(<<packet>>))
    BY <2>2, NoNotes
  <2> QED
    BY <1>1, <2>1, <2>2, <2>3, <2>4, NoNotes, OtherCallTold
<1>4. ASSUME NEW peer \in Peers, NEW image \in Images, ImageRequest(peer, image)
      PROVE  ContactsTold'
  <2> DEFINE packet == [type |-> "SEND_MSG", to |-> peer, image |-> image]
  <2>1. PICK fate \in Fates(1) :
          Sends(<<packet>>, fate) /\ asked' = [asked EXCEPT !.images[peer] = @ + Cardinality(fate.through)]
    BY <1>4 DEF ImageRequest
  <2>2. packet \in ForServer /\ packet.type \notin NoteTypes
    BY DEF ForServer, ImageRequests, NoteTypes
  <2> HIDE DEF packet
  <2>3. asked'.contacts = asked.contacts
    BY <1>1, <2>1 DEF Memories
  <2>4. fate \in Fates(Len(<<packet>>))
    BY <2>2, NoNotes
  <2> QED
    BY <1>1, <2>1, <2>2, <2>3, <2>4, NoNotes, OtherCallTold
<1>5. ASSUME NEW list \in ContactLists, Notify(list) PROVE ContactsTold'
  <2>1. list \in Seq(Nat)
    BY ListsAssumption
  <2> DEFINE packets == NotifyPackets(list)
  <2>2. packets \in Seq(ForServer)
    BY <2>1, NotifyPacketsType
  <2>3. PICK fate \in Fates(Len(packets)) :
          Sends(packets, fate) /\ asked' = [asked EXCEPT !.contacts = ToSet(list)]
    BY <1>5 DEF Notify
  <2>4. asked'.contacts = ToSet(list)
    BY <1>1, <2>3 DEF Memories
  <2>5. asked.contacts \in SUBSET Nat
    BY <1>1 DEF Memories
  <2>6. Leads(packets, Whole(asked.contacts), Whole(asked'.contacts))
    BY <2>1, <2>4, <2>5, NotifyLeads
  <2> HIDE DEF packets
  <2> QED
    BY <1>1, <2>2, <2>3, <2>6, CallTold
<1>6. ASSUME NEW uin \in Uins, NEW type \in {"ADD_NOTIFY", "REMOVE_NOTIFY"},
             AddOrRemoveNotify(uin, type)
      PROVE  ContactsTold'
  <2> DEFINE packet == [type |-> type, data |-> <<uin>>]
  <2>1. PICK fate \in Fates(1) :
          /\ Sends(<<packet>>, fate)
          /\ asked' = [asked EXCEPT !.contacts = IF type = "ADD_NOTIFY" THEN @ \cup {uin}
                                                 ELSE @ \ {uin}]
    BY <1>6 DEF AddOrRemoveNotify
  <2>2. packet \in NoteRequests /\ packet \in ForServer
    <3>1. uin \in Nat
      BY ListsAssumption
    <3>2. <<uin>> \in Seq(Nat)
      BY <3>1
    <3> QED
      BY <3>2 DEF NoteRequests, NoteTypes, ForServer
  <2>3. packet.type = type /\ ToSet(packet.data) = {uin}
    <3>1. <<uin>>[1] = uin /\ DOMAIN <<uin>> = {1}
      OBVIOUS
    <3>2. ToSet(<<uin>>) = {uin}
      BY <3>1 DEF ToSet
    <3> QED
      BY <3>2
  <2> HIDE DEF packet
  <2>4. Whole(asked.contacts) \in Contacts
    BY <1>1 DEF Memories, Whole, Contacts
  <2>5. asked'.contacts = IF type = "ADD_NOTIFY" THEN asked.contacts \cup {uin}
                          ELSE asked.contacts \ {uin}
    BY <1>1, <2>1 DEF Memories
  <2>6. Noted(Whole(asked.contacts), packet) = Whole(asked'.contacts)
    BY <2>3, <2>5 DEF Noted, Whole
  <2>7. Leads(<<packet>>, Whole(asked.contacts), Whole(asked'.contacts))
    BY <2>2, <2>4, <2>6, LeadsOnce
  <2>8. <<packet>> \in Seq(ForServer) /\ fate \in Fates(Len(<<packet>>))
    BY <2>2
  <2> QED
    BY <1>1, <2>1, <2>7, <2>8, CallTold
<1>7. ASSUME NEW seq \in Seqs, Pubdir50(seq) PROVE ContactsTold'
  <2>1. PICK clock \in Clocks, fate \in Fates(1) :
          LET sent == IF seq # 0 THEN seq ELSE clock[2]
          IN  /\ Called("search", IF fate.res = -1 THEN 0 ELSE clock[1])
              /\ Sends(<<[type |-> "PUBDIR50_REQUEST", seq |-> sent]>>, fate)
              /\ asked' = [asked EXCEPT !.searches = @ + Cardinality(fate.through),
                                        !.numbers = IF fate.res = 0 THEN @ \cup {clock[1]} ELSE @]
              /\ UNCHANGED <<userlistBlocks, userlistReply, images>>
    BY <1>7 DEF Pubdir50
  <2> DEFINE sent == IF seq # 0 THEN seq ELSE clock[2]
             packet == [type |-> "PUBDIR50_REQUEST", seq |-> sent]
  <2>2. packet \in ForServer /\ packet.type \notin NoteTypes
    <3>1. sent \in Numbers
      BY DEF Numbers
    <3> HIDE DEF sent
    <3> QED
      BY <3>1 DEF ForServer, Searches, NoteTypes
  <2>3. Sends(<<packet>>, fate)
    BY <2>1
  <2> HIDE DEF packet
  <2>4. asked'.contacts = asked.contacts
    BY <1>1, <2>1 DEF Memories
  <2>5. fate \in Fates(Len(<<packet>>))
    BY <2>2, NoNotes
  <2> QED
    BY <1>1, <2>2, <2>3, <2>4, <2>5, NoNotes, OtherCallTold
<1> QED
  BY <1>2, <1>3, <1>4, <1>5, <1>6, <1>7 DEF Client

LEMMA ServerTold ==
  ASSUME Typed, ContactsTold, ServerTakes
  PROVE  ContactsTold'
<1> SUFFICES ASSUME link = "up"
             PROVE  Leads(toServer', contacts', Whole(asked'.contacts))
  BY DEF ContactsTold, ServerTakes, session
<1> DEFINE packet == Head(toServer)
<1>1. /\ toServer \in Seq(ForServer) /\ toServer # <<>> /\ toServer' = Tail(toServer)
      /\ packet \in ForServer /\ UNCHANGED asked
  BY HeadOf DEF ServerTakes, Typed
<1>2. Leads(Tail(toServer), Told(contacts, packet), Whole(asked.contacts))
  BY <1>1, LeadsRest DEF ContactsTold
<1> HIDE DEF packet
<1>3. contacts' = Told(contacts, packet)
  <2>1. ASSUME ServerNotes(packet) PROVE contacts' = Told(contacts, packet)
    BY <1>1, <2>1, ServerNotesTyped DEF Told, NoteRequests
  <2>2. ASSUME \/ ServerStores(packet) \/ ServerLists(packet)
               \/ ServerPassesOn(packet) \/ ServerFinds(packet)
        PROVE  contacts' = Told(contacts, packet)
    <3>1. packet.type \notin NoteTypes
      BY <2>2 DEF ServerStores, ServerLists, ServerPassesOn, ServerFinds, NoteTypes
    <3>2. contacts' = contacts
      BY <2>2 DEF ServerStores, ServerLists, ServerPassesOn, ServerFinds, farEnd
    <3> QED
      BY <3>1, <3>2 DEF Told
  <2> QED
    BY <2>1, <2>2 DEF ServerTakes, packet
<1> QED
  BY <1>1, <1>2, <1>3

LEMMA RestTold ==
  ASSUME ContactsTold, UNCHANGED <<toServer, contacts>>, link' = "up" => link = "up",
         asked'.contacts = asked.contacts
  PROVE  ContactsTold'
BY DEF ContactsTold

LEMMA WatchTold ==
  ASSUME Typed, ContactsTold, NEW s \in Sources, WatchPacket(s)
  PROVE  ContactsTold'
<1> DEFINE packet == Head(wire[s])
<1>1. UNCHANGED <<toServer, contacts>>
  BY WatchCases
<1>2. asked \in Memories
  BY DEF Typed
<1>3. (link' = "up" => link = "up") /\ asked'.contacts = asked.contacts
  <2> HIDE DEF packet
  <2>1. ASSUME TakeUserlistReply(packet) PROVE <1>3!:
    BY <1>2, <2>1 DEF TakeUserlistReply, Memories
  <2>2. ASSUME TakePubdir50Reply(packet) PROVE <1>3!:
    <3>1. link' = "up" => link = "up"
      BY <2>2 DEF TakePubdir50Reply, Fails
    <3>2. asked'.contacts = asked.contacts
      BY <1>2, <2>2 DEF TakePubdir50Reply, Memories
    <3> QED
      BY <3>1, <3>2
  <2>3. ASSUME TakeNotifyReply(packet) PROVE <1>3!:
    BY <2>3 DEF TakeNotifyReply, Fails
  <2>4. ASSUME TakeNotice(packet) PROVE <1>3!:
    BY <2>4 DEF TakeNotice
  <2>5. ASSUME TakeImage(s, packet) \/ TakeUnnamed(s, packet) PROVE <1>3!:
    BY <1>2, <2>5 DEF TakeImage, TakeUnnamed, ImageGrows, Memories
  <2>6. ASSUME TakeMessage(s, packet) PROVE <1>3!:
    BY <1>2, <2>6 DEF TakeMessage, Memories
  <2> QED
    BY <2>1, <2>2, <2>3, <2>4, <2>5, <2>6 DEF WatchPacket, packet
<1> QED
  BY <1>1, <1>3, RestTold

LEMMA NextTold ==
  ASSUME Typed, ContactsTold, [Next]_vars
  PROVE  ContactsTold'
<1>1. ASSUME Client PROVE ContactsTold'
  <2>1. Typed'
    BY NextTyped
  <2> QED
    BY <1>1, <2>1, ClientTold
<1>2. ASSUME ServerTakes PROVE ContactsTold'
  BY <1>2, ServerTold
<1>3. ASSUME NEW p \in Peers, PeerAnswers(p) PROVE ContactsTold'
  <2>1. UNCHANGED <<toServer, contacts, link>>
    BY <1>3 DEF PeerAnswers
  <2>2. asked'.contacts = asked.contacts
    BY <1>3 DEF PeerAnswers, Typed, Memories
  <2> QED
    BY <2>1, <2>2, RestTold, SMTT(30)
<1>4. ASSUME Unasked PROVE ContactsTold'
  BY <1>4, RestTold DEF Unasked, farEnd
<1>5. ASSUME NEW s \in Sources, WatchPacket(s) PROVE ContactsTold'
  BY <1>5, WatchTold
<1>6. ASSUME WatchEnd \/ WatchNothing PROVE ContactsTold'
  BY <1>6, RestTold DEF WatchEnd, WatchNothing, Fails, farEnd
<1>7. ASSUME UNCHANGED vars PROVE ContactsTold'
  BY <1>7, RestTold DEF vars, farEnd
<1> QED
  BY <1>1, <1>2, <1>3, <1>4, <1>5, <1>6, <1>7 DEF Next, Watch

\* Once the server has taken all packets, it knows the contacts that our calls of
\* gg_notify(), gg_add_notify() and gg_remove_notify() left, nobody else, and waits
\* for no further part of a list, whatever the lengths of the lists are to the size
\* of a packet (libgadu.c:1649).
THEOREM ContactsAgree == Spec => []ContactsKnown
<1>1. Init => Typed /\ ContactsTold
  <2> SUFFICES ASSUME Init PROVE Typed /\ ContactsTold
    OBVIOUS
  <2>1. contacts = Whole({}) /\ asked.contacts = {} /\ toServer = <<>>
    BY DEF Init, Whole
  <2>2. Whole({}) \in Contacts /\ <<>> \in Seq(ForServer)
        /\ \A i \in 1..Len(<<>>) : <<>>[i].type \notin NoteTypes
    BY DEF Whole, Contacts
  <2>3. Leads(<<>>, Whole({}), Whole({}))
    BY <2>2, LeadsBack
  <2> QED
    BY <2>1, <2>3, InitTyped DEF ContactsTold
<1>2. Typed /\ ContactsTold /\ [Next]_vars => (Typed /\ ContactsTold)'
  BY NextTyped, NextTold
<1>3. Typed /\ ContactsTold => ContactsKnown
  <2> SUFFICES ASSUME Typed, ContactsTold, link = "up", toServer = <<>>
               PROVE  contacts.known = asked.contacts /\ contacts.coming = {}
    BY DEF ContactsKnown
  <2>1. Whole(asked.contacts) \in Contacts
    BY DEF Typed, Memories, Whole, Contacts
  <2>2. contacts = Whole(asked.contacts)
    BY <2>1, LeadsNowhere DEF ContactsTold
  <2> QED
    BY <2>2 DEF Whole
<1> QED
  BY <1>1, <1>2, <1>3, PTL DEF Spec

-----------------------------------------------------------------------------
(***************************************************************************)
(* ImageIntact: on the way from a peer, a chunk that goes on with an image *)
(* comes right behind the chunk before it.                                 *)
(***************************************************************************)
More(packet) == packet \in Chunks /\ packet.option = "IMAGE_MORE"

GoesOn(packet, next) ==
  /\ packet \in Chunks /\ packet.image = next.image
  /\ ChunkTo(packet) = ChunkFrom(next)

Chained(packets) ==
  \A i \in 1..Len(packets) - 1 : More(packets[i + 1]) => GoesOn(packets[i], packets[i + 1])

Begins(packets) == packets # <<>> => ~More(packets[1])

WireChained == \A p \in Peers : Chained(wire[p])

\* A chunk of a transfer that is sent to its end, and another one to come.
Unended(packet) ==
  /\ packet \in Chunks /\ packet.whole
  /\ ChunkTo(packet) # packet.image.size

Continues(packet, next) ==
  /\ More(next) /\ next.whole
  /\ next.image = packet.image

Unbroken(packets) ==
  \A k \in 1..Len(packets) :
    Unended(packets[k]) => k < Len(packets) /\ Continues(packets[k], packets[k + 1])

WireUnbroken == \A p \in Peers : Unbroken(wire[p])

LEMMA ChainedOn ==
  ASSUME NEW s \in Seq(FromPeers), NEW t \in Seq(FromPeers), Chained(s), Chained(t), Begins(t)
  PROVE  /\ Chained(s \o t)
         /\ s \o t # <<>> /\ More((s \o t)[1]) => s # <<>> /\ (s \o t)[1] = s[1]
<1> DEFINE m == Len(s)
           n == Len(t)
<1>1. /\ m \in Nat /\ n \in Nat /\ Len(s \o t) = m + n
      /\ \A i \in 1..m + n : (s \o t)[i] = IF i <= m THEN s[i] ELSE t[i - m]
  BY LenProperties, ConcatProperties
<1>2. s = <<>> <=> m = 0
  BY EmptySeq
<1>3. t = <<>> <=> n = 0
  BY EmptySeq
<1> HIDE DEF m, n
<1>4. ASSUME NEW i \in 1..m + n - 1, More((s \o t)[i + 1])
      PROVE  GoesOn((s \o t)[i], (s \o t)[i + 1])
  <2>1. i \in 1..m + n /\ i + 1 \in 1..m + n
    BY <1>1
  <2>2. CASE i < m
    <3>1. (s \o t)[i] = s[i] /\ (s \o t)[i + 1] = s[i + 1] /\ i \in 1..m - 1
      BY <1>1, <2>1, <2>2
    <3> QED
      BY <1>4, <3>1 DEF Chained, m
  <2>3. CASE i = m
    <3>1. (s \o t)[i + 1] = t[1] /\ n # 0
      BY <1>1, <2>1, <2>3
    <3> QED
      BY <1>3, <1>4, <3>1 DEF Begins
  <2>4. CASE i > m
    <3>1. i - m \in 1..n - 1 /\ (i + 1) - m = (i - m) + 1
      <4>1. m \in Nat /\ n \in Nat
        BY <1>1
      <4> QED
        BY <2>4, <4>1
    <3>2. (s \o t)[i] = t[i - m] /\ (s \o t)[i + 1] = t[(i - m) + 1]
      <4>1. ~(i <= m) /\ ~(i + 1 <= m)
        BY <1>1, <2>4
      <4>2. (s \o t)[i] = t[i - m]
        BY <1>1, <2>1, <4>1
      <4>3. (s \o t)[i + 1] = t[(i + 1) - m]
        BY <1>1, <2>1, <4>1
      <4> QED
        BY <3>1, <4>2, <4>3
    <3> QED
      BY <1>4, <3>1, <3>2 DEF Chained, n
  <2> QED
    BY <1>1, <2>2, <2>3, <2>4
<1>5. Chained(s \o t)
  BY <1>1, <1>4, SMTT(30) DEF Chained
<1>6. ASSUME s \o t # <<>>, More((s \o t)[1])
      PROVE  s # <<>> /\ (s \o t)[1] = s[1]
  <2>1. m + n # 0
    <3>1. s \o t \in Seq(FromPeers)
      BY ConcatProperties
    <3> QED
      BY <1>1, <1>6, <3>1, EmptySeq
  <2>2. CASE m = 0
    <3>1. (s \o t)[1] = t[1] /\ n # 0
      BY <1>1, <2>1, <2>2
    <3> QED
      BY <1>3, <1>6, <3>1 DEF Begins
  <2>3. CASE m # 0
    BY <1>1, <1>2, <2>3
  <2> QED
    BY <2>2, <2>3
<1> QED
  BY <1>5, <1>6

LEMMA ChainedRest ==
  ASSUME NEW s \in Seq(FromPeers), s # <<>>, Chained(s)
  PROVE  /\ Chained(Tail(s))
         /\ Tail(s) # <<>> /\ More(Tail(s)[1]) => GoesOn(Head(s), Tail(s)[1])
<1>1. /\ Tail(s) \in Seq(FromPeers) /\ Len(s) \in Nat \ {0} /\ Len(Tail(s)) = Len(s) - 1
      /\ Head(s) = s[1] /\ \A i \in 1..Len(s) - 1 : Tail(s)[i] = s[i + 1]
  BY HeadOf
<1>2. ASSUME NEW i \in 1..Len(Tail(s)) - 1, More(Tail(s)[i + 1])
      PROVE  GoesOn(Tail(s)[i], Tail(s)[i + 1])
  <2>1. i + 1 \in 1..Len(s) - 1 /\ i \in 1..Len(s) - 1
    BY <1>1
  <2>2. Tail(s)[i] = s[i + 1] /\ Tail(s)[i + 1] = s[(i + 1) + 1]
    BY <1>1, <2>1
  <2> QED
    BY <1>2, <2>1, <2>2 DEF Chained
<1>3. ASSUME Tail(s) # <<>>, More(Tail(s)[1])
      PROVE  GoesOn(Head(s), Tail(s)[1])
  <2>1. Len(Tail(s)) # 0
    BY <1>1, <1>3, EmptySeq
  <2>2. 1 \in 1..Len(s) - 1 /\ Tail(s)[1] = s[1 + 1]
    BY <1>1, <2>1
  <2> QED
    BY <1>1, <1>3, <2>2 DEF Chained
<1> QED
  BY <1>2, <1>3 DEF Chained

LEMMA ChainedOne ==
  ASSUME NEW packet \in FromPeers, packet \notin Chunks
  PROVE  /\ <<packet>> \in Seq(FromPeers) /\ Unbroken(<<packet>>)
         /\ Chained(<<packet>>) /\ Begins(<<packet>>)
<1>1. Len(<<packet>>) = 1 /\ <<packet>>[1] = packet
  OBVIOUS
<1>2. Unbroken(<<packet>>)
  <2>1. \A k \in 1..1 : k = 1
    OBVIOUS
  <2> QED
    BY <1>1, <2>1 DEF Unbroken, Unended
<1> QED
  BY <1>1, <1>2 DEF Chained, Begins, More

LEMMA UnbrokenOn ==
  ASSUME NEW s \in Seq(FromPeers), NEW t \in Seq(FromPeers), Unbroken(s), Unbroken(t)
  PROVE  /\ Unbroken(s \o t)
         /\ s # <<>> => s \o t # <<>> /\ (s \o t)[1] = s[1]
<1> DEFINE m == Len(s)
           n == Len(t)
<1>1. /\ m \in Nat /\ n \in Nat /\ Len(s \o t) = m + n
      /\ \A i \in 1..m + n : (s \o t)[i] = IF i <= m THEN s[i] ELSE t[i - m]
  BY LenProperties, ConcatProperties
<1>2. s # <<>> => m # 0
  BY EmptySeq
<1> HIDE DEF m, n
<1>3. ASSUME NEW k \in 1..m + n, Unended((s \o t)[k])
      PROVE  k < m + n /\ Continues((s \o t)[k], (s \o t)[k + 1])
  <2>1. CASE k <= m
    <3>1. (s \o t)[k] = s[k] /\ k \in 1..m
      BY <1>1, <2>1
    <3>2. k < m /\ Continues(s[k], s[k + 1])
      BY <1>3, <3>1 DEF Unbroken, m
    <3>3. k + 1 \in 1..m + n /\ k + 1 <= m
      BY <1>1, <3>1, <3>2
    <3>4. (s \o t)[k + 1] = s[k + 1]
      BY <1>1, <3>3
    <3> QED
      BY <1>1, <3>1, <3>2, <3>4
  <2>2. CASE ~(k <= m)
    <3>1. (s \o t)[k] = t[k - m] /\ k - m \in 1..n
      BY <1>1, <2>2
    <3>2. k - m < n /\ Continues(t[k - m], t[(k - m) + 1])
      BY <1>3, <3>1 DEF Unbroken, n
    <3>3. /\ k + 1 \in 1..m + n /\ ~(k + 1 <= m) /\ (k + 1) - m = (k - m) + 1
          /\ k < m + n
      BY <1>1, <2>2, <3>1, <3>2
    <3>4. (s \o t)[k + 1] = t[(k + 1) - m]
      BY <1>1, <3>3
    <3> QED
      BY <3>1, <3>2, <3>3, <3>4
  <2> QED
    BY <2>1, <2>2
<1>4. Unbroken(s \o t)
  BY <1>1, <1>3 DEF Unbroken
<1>5. ASSUME s # <<>> PROVE s \o t # <<>> /\ (s \o t)[1] = s[1]
  <2>1. m + n # 0 /\ 1 \in 1..m + n /\ 1 <= m
    BY <1>1, <1>2, <1>5
  <2>2. s \o t # <<>>
    BY <1>1, <2>1, EmptySeq
  <2> QED
    BY <1>1, <2>1, <2>2
<1> QED
  BY <1>4, <1>5

LEMMA UnbrokenRest ==
  ASSUME NEW s \in Seq(FromPeers), s # <<>>, Unbroken(s)
  PROVE  /\ Unbroken(Tail(s))
         /\ Unended(Head(s)) => Tail(s) # <<>> /\ Continues(Head(s), Tail(s)[1])
<1>1. /\ Tail(s) \in Seq(FromPeers) /\ Len(s) \in Nat \ {0} /\ Len(Tail(s)) = Len(s) - 1
      /\ Head(s) = s[1] /\ \A i \in 1..Len(s) - 1 : Tail(s)[i] = s[i + 1]
  BY HeadOf
<1>2. ASSUME NEW k \in 1..Len(Tail(s)), Unended(Tail(s)[k])
      PROVE  k < Len(Tail(s)) /\ Continues(Tail(s)[k], Tail(s)[k + 1])
  <2> DEFINE j == k + 1
  <2>1. k \in 1..Len(s) - 1 /\ j \in 1..Len(s)
    BY <1>1
  <2>2. Tail(s)[k] = s[j]
    BY <1>1, <2>1
  <2> HIDE DEF j
  <2>3. j < Len(s) /\ Continues(s[j], s[j + 1])
    BY <1>2, <2>1, <2>2 DEF Unbroken
  <2>4. j \in 1..Len(s) - 1 /\ k < Len(Tail(s))
    BY <1>1, <2>1, <2>3 DEF j
  <2>5. Tail(s)[j] = s[j + 1]
    BY <1>1, <2>4
  <2> QED
    BY <2>2, <2>3, <2>4, <2>5 DEF j
<1>3. ASSUME Unended(Head(s))
      PROVE  Tail(s) # <<>> /\ Continues(Head(s), Tail(s)[1])
  <2>1. 1 \in 1..Len(s)
    BY <1>1
  <2>2. 1 < Len(s) /\ Continues(s[1], s[1 + 1])
    BY <1>1, <1>3, <2>1 DEF Unbroken
  <2>3. 1 \in 1..Len(s) - 1 /\ Len(Tail(s)) # 0
    BY <1>1, <2>2
  <2>4. Tail(s)[1] = s[1 + 1] /\ Tail(s) # <<>>
    BY <1>1, <2>3, EmptySeq
  <2> QED
    BY <1>1, <2>2, <2>4
<1> QED
  BY <1>2, <1>3 DEF Unbroken

LEMMA ImagePacketsChained ==
  ASSUME NEW image \in Images, NEW n \in 0..ChunkCount(image.size), NEW whole \in BOOLEAN
  PROVE  LET packets == SubSeq(ImagePackets(image, whole), 1, n)
         IN  packets \in Seq(FromPeers) /\ Chained(packets) /\ Begins(packets)
<1> DEFINE chunks == ImagePackets(image, whole)
           packets == SubSeq(chunks, 1, n)
           m == ChunkCount(image.size)
<1>1. chunks \in Seq(Chunks) /\ chunks \in Seq(FromPeers) /\ Len(chunks) = m /\ m \in Nat
  BY ImagePacketsType
<1>2. packets \in Seq(FromPeers) /\ Len(packets) = n /\ \A i \in 1..n : packets[i] = chunks[i]
  BY <1>1, FirstPart
<1>3. ASSUME NEW k \in 1..m
      PROVE  /\ chunks[k] \in Chunks /\ chunks[k].image = image
             /\ chunks[k].option = IF k = 1 THEN "IMAGE_FIRST" ELSE "IMAGE_MORE"
             /\ ChunkFrom(chunks[k]) = ChunkEnd(image.size, k - 1)
             /\ ChunkTo(chunks[k]) = ChunkEnd(image.size, k)
  <2>1. /\ chunks[k].image = image
        /\ chunks[k].option = IF k = 1 THEN "IMAGE_FIRST" ELSE "IMAGE_MORE"
        /\ ChunkFrom(chunks[k]) = ChunkEnd(image.size, k - 1)
        /\ ChunkTo(chunks[k]) = ChunkEnd(image.size, k)
    BY ChunkOf
  <2> HIDE DEF chunks, m
  <2>2. chunks[k] \in Chunks
    BY <1>1, ElementOfSeq
  <2> QED
    BY <2>1, <2>2
<1> HIDE DEF chunks, packets, m
<1>4. ASSUME NEW i \in 1..n - 1
      PROVE  GoesOn(packets[i], packets[i + 1])
  <2>1. i \in 1..m /\ i + 1 \in 1..m /\ (i + 1) - 1 = i /\ i \in 1..n /\ i + 1 \in 1..n
    BY <1>1 DEF m
  <2>2. packets[i] = chunks[i] /\ packets[i + 1] = chunks[i + 1]
    BY <1>2, <2>1
  <2>3. ChunkFrom(chunks[i + 1]) = ChunkTo(chunks[i])
    BY <1>3, <2>1
  <2> QED
    BY <1>3, <2>1, <2>2, <2>3 DEF GoesOn
<1>5. Chained(packets)
  BY <1>2, <1>4 DEF Chained
<1>6. Begins(packets)
  <2> SUFFICES ASSUME packets # <<>> PROVE ~More(packets[1])
    BY DEF Begins
  <2>1. n # 0
    BY <1>2, EmptySeq
  <2>2. 1 \in 1..m /\ 1 \in 1..n
    BY <1>1, <2>1 DEF m
  <2> QED
    BY <1>2, <1>3, <2>2 DEF More
<1> QED
  BY <1>2, <1>5, <1>6 DEF packets, chunks

\* Only the packets of a transfer of which all are sent are marked as whole.
LEMMA ImagePacketsUnbroken ==
  ASSUME NEW image \in Images, NEW n \in 0..ChunkCount(image.size), NEW whole \in BOOLEAN,
         whole => n = ChunkCount(image.size)
  PROVE  Unbroken(SubSeq(ImagePackets(image, whole), 1, n))
<1> DEFINE chunks == ImagePackets(image, whole)
           packets == SubSeq(chunks, 1, n)
           m == ChunkCount(image.size)
<1>1. chunks \in Seq(Chunks) /\ chunks \in Seq(FromPeers) /\ Len(chunks) = m /\ m \in Nat
  BY ImagePacketsType
<1>2. Len(packets) = n /\ \A i \in 1..n : packets[i] = chunks[i]
  BY <1>1, FirstPart
<1>3. ASSUME NEW k \in 1..m
      PROVE  /\ chunks[k] \in Chunks /\ chunks[k].image = image /\ chunks[k].whole = whole
             /\ k # 1 => chunks[k].option = "IMAGE_MORE"
             /\ ChunkTo(chunks[k]) = image.size <=> k = m
  <2>1. /\ chunks[k].image = image /\ chunks[k].whole = whole
        /\ chunks[k].option = IF k = 1 THEN "IMAGE_FIRST" ELSE "IMAGE_MORE"
        /\ ChunkTo(chunks[k]) = ChunkEnd(image.size, k)
    BY ChunkOf
  <2>2. ChunkEnd(image.size, k) = image.size <=> k = m
    BY ImagesAssumption, ChunkEnds
  <2> HIDE DEF chunks, m
  <2>3. chunks[k] \in Chunks
    BY <1>1, ElementOfSeq
  <2> QED
    BY <2>1, <2>2, <2>3
<1> HIDE DEF chunks, packets
<1>4. ASSUME NEW k \in 1..n, Unended(packets[k])
      PROVE  k < n /\ Continues(packets[k], packets[k + 1])
  <2> DEFINE j == k + 1
  <2>1. k \in 1..m /\ packets[k] = chunks[k]
    BY <1>1, <1>2
  <2>2. whole /\ k # m
    BY <1>3, <1>4, <2>1 DEF Unended
  <2>3. n = m
    BY <2>2
  <2> HIDE DEF m
  <2>4. j \in 1..n /\ j \in 1..m /\ j # 1 /\ k < n
    BY <1>1, <2>1, <2>2, <2>3
  <2> HIDE DEF j
  <2>5. packets[j] = chunks[j]
    BY <1>2, <2>4
  <2>6. /\ chunks[j] \in Chunks /\ chunks[j].option = "IMAGE_MORE"
        /\ chunks[j].image = image /\ chunks[j].whole = whole /\ chunks[k].image = image
    BY <1>3, <2>1, <2>4, SMTT(30)
  <2> QED
    BY <2>1, <2>2, <2>4, <2>5, <2>6 DEF Continues, More, j
<1> QED
  BY <1>2, <1>4 DEF Unbroken, packets, chunks

\* No step but gg_watch_fd()'s does anything to a queue of a peer but to add to
\* it, and what is added neither goes on with a chunk before it nor breaks off.
Added(p, packets) ==
  /\ packets \in Seq(FromPeers)
  /\ Chained(packets) /\ Begins(packets) /\ Unbroken(packets)
  /\ wire' = [wire EXCEPT ![p] = @ \o packets]

LEMMA PeerAddsChained ==
  ASSUME Typed, NEW p \in Peers, PeerAnswers(p)
  PROVE  \E packets : Added(p, packets)
<1> DEFINE image == Head(owed[p])
           all == ChunkCount(image.size)
           packets(n) == ImagePackets(image, n = all)
<1>1. image \in Images
  BY HeadOf DEF PeerAnswers, Typed
<1> HIDE DEF image
<1>2. ASSUME NEW n \in 0 .. all, wire' = [wire EXCEPT ![p] = @ \o SubSeq(packets(n), 1, n)]
      PROVE  \E more : Added(p, more)
  <2> DEFINE more == SubSeq(packets(n), 1, n)
  <2>1. more \in Seq(FromPeers) /\ Chained(more) /\ Begins(more)
    BY <1>1, ImagePacketsChained
  <2>2. Unbroken(more)
    BY <1>1, ImagePacketsUnbroken
  <2> HIDE DEF more
  <2>3. wire' = [wire EXCEPT ![p] = @ \o more]
    BY <1>2 DEF more
  <2> QED
    BY <2>1, <2>2, <2>3 DEF Added
<1> HIDE DEF packets, all
<1>3. ASSUME wire' = [wire EXCEPT ![p] = Append(@,
                        [type |-> "RECV_MSG", option |-> "IMAGE_NONE", image |-> image])]
      PROVE  \E more : Added(p, more)
  <2> DEFINE packet == [type |-> "RECV_MSG", option |-> "IMAGE_NONE", image |-> image]
  <2>1. packet \in FromPeers
    BY <1>1 DEF FromPeers, NoImages
  <2>2. wire' = [wire EXCEPT ![p] = Append(wire[p], packet)] /\ packet.option = "IMAGE_NONE"
    BY <1>3
  <2> HIDE DEF packet
  <2>3. packet \notin Chunks
    BY <2>1, <2>2, MessageTypes
  <2>4. /\ <<packet>> \in Seq(FromPeers) /\ Unbroken(<<packet>>)
        /\ Chained(<<packet>>) /\ Begins(<<packet>>)
    BY <2>1, <2>3, ChainedOne
  <2>5. Append(wire[p], packet) = wire[p] \o <<packet>>
    BY <2>1, AppendIsConcat DEF Typed, WireTyped
  <2>6. wire' = [wire EXCEPT ![p] = wire[p] \o <<packet>>]
    BY <2>2, <2>5
  <2>7. Added(p, <<packet>>)
    BY <2>4, <2>6 DEF Added
  <2> QED
    BY <2>7
<1>4. ASSUME wire' = [wire EXCEPT ![p] = Append(@,
                        [type |-> "RECV_MSG", option |-> "IMAGE_UNNAMED", image |-> image])]
      PROVE  \E more : Added(p, more)
  <2> DEFINE packet == [type |-> "RECV_MSG", option |-> "IMAGE_UNNAMED", image |-> image]
  <2>1. packet \in FromPeers
    BY <1>1 DEF FromPeers, Unnamed
  <2>2. wire' = [wire EXCEPT ![p] = Append(wire[p], packet)] /\ packet.option = "IMAGE_UNNAMED"
    BY <1>4
  <2> HIDE DEF packet
  <2>3. packet \notin Chunks
    BY <2>1, <2>2, MessageTypes
  <2>4. /\ <<packet>> \in Seq(FromPeers) /\ Unbroken(<<packet>>)
        /\ Chained(<<packet>>) /\ Begins(<<packet>>)
    BY <2>1, <2>3, ChainedOne
  <2>5. Append(wire[p], packet) = wire[p] \o <<packet>>
    BY <2>1, AppendIsConcat DEF Typed, WireTyped
  <2>6. wire' = [wire EXCEPT ![p] = wire[p] \o <<packet>>]
    BY <2>2, <2>5
  <2>7. Added(p, <<packet>>)
    BY <2>4, <2>6 DEF Added
  <2> QED
    BY <2>7
<1> QED
  BY <1>2, <1>3, <1>4 DEF PeerAnswers, image, all, packets

LEMMA WireAdded ==
  ASSUME Typed, [Next]_vars, \A r \in Sources : ~WatchPacket(r), NEW p \in Peers
  PROVE  \E more \in Seq(FromPeers) :
           /\ Chained(more) /\ Begins(more) /\ Unbroken(more)
           /\ wire'[p] = wire[p] \o more
<1>1. /\ \A q \in Peers : wire[q] \in Seq(FromPeers) /\ q \in Sources /\ q # "server"
      /\ wire \in [Sources -> Seq(FromPeers \cup FromServer)]
  BY PeersAssumption DEF Typed, WireTyped, Sources
<1> DEFINE Grows == \E more \in Seq(FromPeers) :
                      /\ Chained(more) /\ Begins(more) /\ Unbroken(more)
                      /\ wire'[p] = wire[p] \o more
<1>2. ASSUME wire'[p] = wire[p] PROVE Grows
  <2> DEFINE none == <<>>
  <2>1. Len(none) = 0 /\ none \in Seq(FromPeers) /\ none = <<>>
    OBVIOUS
  <2> HIDE DEF none
  <2>2. Chained(none) /\ Begins(none) /\ Unbroken(none)
    BY <2>1 DEF Chained, Begins, Unbroken
  <2>3. wire[p] \o none = wire[p]
    BY <1>1, <2>1, ConcatEmptySeq
  <2> QED
    BY <1>2, <2>1, <2>2, <2>3
<1>3. ASSUME NEW q \in Peers, NEW packets, Added(q, packets)
      PROVE  Grows
  <2>1. CASE q = p
    <3>1. wire'[p] = wire[p] \o packets
      BY <1>1, <1>3, <2>1 DEF Added
    <3> QED
      BY <1>3, <3>1 DEF Added
  <2>2. CASE q # p
    <3>1. wire'[p] = wire[p]
      BY <1>1, <1>3, <2>2 DEF Added
    <3> QED
      BY <1>2, <3>1
  <2> QED
    BY <2>1, <2>2
<1> HIDE DEF Grows
<1>4. ASSUME NEW packets, Replies(packets) PROVE Grows
  <2>1. wire'[p] = wire[p]
    BY <1>1, <1>4 DEF Replies
  <2> QED
    BY <1>2, <2>1
<1>5. ASSUME Client \/ WatchEnd \/ WatchNothing PROVE wire' = wire
  BY <1>5, ClientCalls DEF WatchEnd, WatchNothing
<1>6. ASSUME ServerTakes PROVE Grows
  BY <1>2, <1>4, <1>6, ServerRepliesOnly
<1>7. ASSUME NEW q \in Peers, PeerAnswers(q) PROVE Grows
  BY <1>3, <1>7, PeerAddsChained
<1>8. ASSUME Unasked PROVE Grows
  <2>1. ASSUME NEW q \in Peers, NEW packet \in Conferences,
               wire' = [wire EXCEPT ![q] = Append(@, packet)]
        PROVE  Grows
    <3>1. packet \in FromPeers /\ packet.option = "CONFERENCE"
      BY MessageTypes DEF FromPeers
    <3>2. packet \notin Chunks
      BY <3>1, MessageTypes
    <3>3. /\ <<packet>> \in Seq(FromPeers) /\ Unbroken(<<packet>>)
          /\ Chained(<<packet>>) /\ Begins(<<packet>>)
      BY <3>1, <3>2, ChainedOne
    <3>4. Append(wire[q], packet) = wire[q] \o <<packet>>
      BY <1>1, <3>1, AppendIsConcat
    <3>5. wire' = [wire EXCEPT ![q] = wire[q] \o <<packet>>]
      BY <2>1, <3>4
    <3>6. Added(q, <<packet>>)
      BY <3>3, <3>5 DEF Added
    <3> QED
      BY <1>3, <3>6
  <2> QED
    BY <1>4, <1>8, <2>1, UnaskedAdds
<1>9. ASSUME UNCHANGED vars PROVE wire' = wire
  BY <1>9 DEF vars
<1>10. Grows
  BY <1>2, <1>5, <1>6, <1>7, <1>8, <1>9 DEF Next, Watch
<1> QED
  BY <1>10 DEF Grows

LEMMA ChainedKept ==
  ASSUME Typed, WireChained, [Next]_vars, \A r \in Sources : ~WatchPacket(r), NEW p \in Peers
  PROVE  /\ Chained(wire'[p])
         /\ wire'[p] # <<>> /\ More(wire'[p][1]) => wire[p] # <<>> /\ wire'[p][1] = wire[p][1]
<1>1. PICK more \in Seq(FromPeers) :
        /\ Chained(more) /\ Begins(more) /\ Unbroken(more)
        /\ wire'[p] = wire[p] \o more
  BY WireAdded
<1>2. wire[p] \in Seq(FromPeers) /\ Chained(wire[p])
  BY DEF Typed, WireTyped, WireChained
<1> QED
  BY <1>1, <1>2, ChainedOn

LEMMA UnbrokenKept ==
  ASSUME Typed, WireUnbroken, [Next]_vars, \A r \in Sources : ~WatchPacket(r), NEW p \in Peers
  PROVE  /\ Unbroken(wire'[p])
         /\ wire[p] # <<>> => wire'[p] # <<>> /\ wire'[p][1] = wire[p][1]
<1>1. PICK more \in Seq(FromPeers) :
        /\ Chained(more) /\ Begins(more) /\ Unbroken(more)
        /\ wire'[p] = wire[p] \o more
  BY WireAdded
<1>2. wire[p] \in Seq(FromPeers) /\ Unbroken(wire[p])
  BY DEF Typed, WireTyped, WireUnbroken
<1> QED
  BY <1>1, <1>2, UnbrokenOn

-----------------------------------------------------------------------------
(***************************************************************************)
(* ImageIntact: an entry that has a name holds the beginning of the image, *)
(* as far as the chunks from its peer have been taken; one behind it for   *)
(* the same image has nothing yet.                                         *)
(***************************************************************************)
Named(entry) == entry.filename # "NULL"

EntrySound(entry) ==
  /\ entry.filename \in {"NULL", entry.crc32}
  /\ Named(entry) => \A i \in 1..entry.done : entry.image[i] = i

SameKey(e, f) == e.sender = f.sender /\ e.size = f.size /\ e.crc32 = f.crc32

QueueSound ==
  /\ \A i \in 1..Len(images) : EntrySound(images[i])
  /\ \A i, j \in 1..Len(images) :
       i < j /\ SameKey(images[i], images[j]) => ~Named(images[j]) /\ images[j].done = 0

Reached(entry, from) == entry.done <= from /\ (Named(entry) => entry.done = from)

HeadsFit ==
  \A p \in Peers : wire[p] # <<>> /\ More(wire[p][1]) =>
    \A i \in 1..Len(images) :
      Fits(images[i], p, wire[p][1].image) => Reached(images[i], ChunkFrom(wire[p][1]))

ImagesSound == WireChained /\ QueueSound /\ HeadsFit /\ ImageIntact

LEMMA FilledSound ==
  ASSUME NEW entry \in Entries, EntryFits(entry), EntrySound(entry),
         NEW p, NEW packet \in Chunks, Fits(entry, p, packet.image),
         More(packet) => Reached(entry, ChunkFrom(packet))
  PROVE  LET filled == Filled(Begun(entry, packet), packet.data)
         IN  /\ EntrySound(filled) /\ Reached(filled, ChunkTo(packet))
             /\ SameKey(filled, entry) /\ filled \in Entries /\ EntryFits(filled)
<1> DEFINE begun == Begun(entry, packet)
           filled == Filled(begun, packet.data)
           from == ChunkFrom(packet)
           to == ChunkTo(packet)
<1>1. /\ begun \in Entries /\ EntryFits(begun)
      /\ begun.sender = entry.sender /\ begun.size = entry.size
      /\ begun.crc32 = entry.crc32 /\ begun.image = entry.image
      /\ begun.done = IF packet.option = "IMAGE_FIRST" THEN 0 ELSE entry.done
      /\ begun.filename = IF packet.option = "IMAGE_FIRST" THEN packet.image.id
                          ELSE entry.filename
  BY BegunOf
<1>2. /\ packet.option \in {"IMAGE_FIRST", "IMAGE_MORE"}
      /\ packet.data \in Seq(Nat) /\ Len(packet.data) \in Nat \ {0}
      /\ from \in Nat /\ to \in Nat /\ to = from + Len(packet.data)
      /\ to <= packet.image.size
      /\ packet.option = "IMAGE_FIRST" <=> from = 0
      /\ \A j \in 1..Len(packet.data) : packet.data[j] = from + j
  BY ChunkShape
<1>3. entry.size = packet.image.size /\ entry.crc32 = packet.image.id
  BY DEF Fits
<1> HIDE DEF begun, from, to
<1>4. EntrySound(begun) /\ Reached(begun, from)
  <2>1. CASE packet.option = "IMAGE_FIRST"
    <3>1. begun.done = 0 /\ begun.filename = begun.crc32 /\ from = 0
      BY <1>1, <1>2, <1>3, <2>1
    <3> QED
      BY <3>1 DEF EntrySound, Reached
  <2>2. CASE packet.option # "IMAGE_FIRST"
    <3>1. begun.done = entry.done /\ begun.filename = entry.filename
      BY <1>1, <2>2
    <3>2. Reached(entry, from)
      BY <1>2, <2>2 DEF More, from
    <3> QED
      BY <1>1, <3>1, <3>2 DEF EntrySound, Reached, Named
  <2> QED
    BY <2>1, <2>2
<1> DEFINE done == IF begun.done + Len(packet.data) > begun.size THEN begun.size
                   ELSE begun.done + Len(packet.data)
<1>5. /\ filled \in Entries /\ EntryFits(filled)
      /\ filled.sender = begun.sender /\ filled.size = begun.size
      /\ filled.crc32 = begun.crc32 /\ filled.filename = begun.filename
      /\ filled.done = done
      /\ \A i \in 1..begun.size :
           filled.image[i] = IF i \in begun.done + 1 .. done
                             THEN packet.data[i - begun.done] ELSE begun.image[i]
  BY <1>1, <1>2, FilledOf
<1> HIDE DEF filled
<1>6. begun.done \in Nat /\ begun.size \in Nat /\ begun.size = packet.image.size
  BY <1>1, <1>3 DEF Entries
<1>7. done \in Nat /\ done <= begun.size /\ done <= begun.done + Len(packet.data)
      /\ (begun.done = from => done = to)
  BY <1>2, <1>6, SMTT(40)
<1> HIDE DEF done
<1>8. Reached(filled, to)
  BY <1>2, <1>4, <1>5, <1>6, <1>7, SMTT(30) DEF Reached, Named
<1>9. EntrySound(filled)
  <2> SUFFICES ASSUME Named(filled), NEW i \in 1..filled.done
               PROVE  filled.image[i] = i
    BY <1>4, <1>5 DEF EntrySound
  <2>1. Named(begun) /\ begun.done = from /\ i \in 1..begun.size /\ i \in 1..done /\ done = to
    BY <1>4, <1>5, <1>6, <1>7 DEF Named, Reached
  <2>2. CASE i <= from
    <3>1. begun.image[i] = i
      BY <1>4, <2>1, <2>2 DEF EntrySound
    <3>2. i \notin begun.done + 1 .. done
      BY <1>2, <2>1, <2>2
    <3> QED
      BY <1>5, <2>1, <3>1, <3>2
  <2>3. CASE ~(i <= from)
    <3> DEFINE k == i - from
    <3>1. i \in begun.done + 1 .. done /\ k \in 1..Len(packet.data) /\ from + k = i
      BY <1>2, <2>1, <2>3
    <3> HIDE DEF k
    <3>2. packet.data[k] = i
      BY <1>2, <3>1
    <3>3. i - begun.done = k
      BY <2>1 DEF k
    <3> QED
      BY <1>5, <2>1, <3>1, <3>2, <3>3
  <2> QED
    BY <2>2, <2>3
<1>10. SameKey(filled, entry)
  BY <1>1, <1>5 DEF SameKey
<1> QED
  BY <1>5, <1>8, <1>9, <1>10 DEF filled, begun, to

\* Every entry that remains keeps its place among the others.
LEMMA EntryTaken ==
  ASSUME Typed, ImagesSound, NEW p \in Peers, NEW packet \in Chunks,
         wire[p] # <<>>, packet = Head(wire[p]), TakeImage(p, packet)
  PROVE  /\ QueueSound' /\ ImageIntact'
         /\ \A i \in 1..Len(images') :
              \/ \E j \in 1..Len(images) :
                   /\ images'[i] = images[j]
                   /\ Fits(images[j], p, packet.image) =>
                        ~Named(images[j]) /\ images[j].done = 0
              \/ /\ images'[i].sender = p
                 /\ Reached(images'[i], ChunkTo(packet))
<1> DEFINE n == Len(images)
           Goal == /\ QueueSound' /\ ImageIntact'
                   /\ \A i \in 1..Len(images') :
                        \/ \E j \in 1..Len(images) :
                             /\ images'[i] = images[j]
                             /\ Fits(images[j], p, packet.image) =>
                                  ~Named(images[j]) /\ images[j].done = 0
                        \/ /\ images'[i].sender = p
                           /\ Reached(images'[i], ChunkTo(packet))
<1>1. /\ images \in Seq(Entries) /\ \A i \in 1..n : images[i] \in Entries /\ EntryFits(images[i])
      /\ n \in Nat
  BY LenProperties, ElementOfSeq DEF Typed, SessionTyped
<1>2. /\ \A i \in 1..n : EntrySound(images[i])
      /\ \A i, j \in 1..n :
           i < j /\ SameKey(images[i], images[j]) => ~Named(images[j]) /\ images[j].done = 0
  BY DEF ImagesSound, QueueSound
<1>3. CASE /\ \A i \in DOMAIN images : ~Fits(images[i], p, packet.image)
           /\ last' = Event("NONE") /\ UNCHANGED <<images, asked>>
  <2>1. QueueSound' /\ ImageIntact'
    BY <1>2, <1>3 DEF QueueSound, ImageIntact, Event
  <2>2. \A i \in 1..n : ~Fits(images[i], p, packet.image)
    BY <1>1, <1>3, LenProperties
  <2> QED
    BY <1>3, <2>1, <2>2
<1>4. ASSUME NEW q \in 1..n, Fits(images[q], p, packet.image),
             \A i \in 1..q - 1 : ~Fits(images[i], p, packet.image),
             ImageGrows(p, q, packet)
      PROVE  Goal
  <2> DEFINE filled == Filled(Begun(images[q], packet), packet.data)
  <2>1. packet = wire[p][1]
    BY HeadOf DEF Typed, WireTyped
  <2>2. More(packet) => Reached(images[q], ChunkFrom(packet))
    BY <1>4, <2>1 DEF ImagesSound, HeadsFit
  <2>3. /\ EntrySound(filled) /\ Reached(filled, ChunkTo(packet))
        /\ SameKey(filled, images[q]) /\ filled \in Entries /\ EntryFits(filled)
    BY <1>1, <1>2, <1>4, <2>2, FilledSound
  <2>4. \/ /\ Complete(filled)
           /\ images' = RemoveAt(images, q)
           /\ last' = [type |-> "IMAGE_REPLY", sender |-> p, size |-> filled.size,
                       crc32 |-> filled.crc32, filename |-> filled.filename,
                       image |-> filled.image]
        \/ /\ ~Complete(filled)
           /\ images' = [images EXCEPT ![q] = filled]
           /\ last' = Event("NONE")
    BY <1>4 DEF ImageGrows
  <2> HIDE DEF filled
  <2>5. ASSUME NEW i \in 1..n, i # q, Fits(images[i], p, packet.image)
        PROVE  ~Named(images[i]) /\ images[i].done = 0
    <3>1. ~(i \in 1..q - 1)
      BY <1>4, <2>5
    <3>2. q < i
      BY <1>1, <2>5, <3>1
    <3>3. SameKey(images[q], images[i])
      BY <1>4, <2>5 DEF Fits, SameKey
    <3> QED
      BY <1>2, <3>2, <3>3
  <2>6. filled.sender = p /\ filled.size = packet.image.size
    BY <1>4, <2>3 DEF SameKey, Fits
  <2>7. CASE Complete(filled)
    <3>1. /\ Len(images') = n - 1
          /\ \A i \in 1..n - 1 : images'[i] = IF i < q THEN images[i] ELSE images[i + 1]
      BY <1>1, <2>4, <2>7, Removed
    <3> DEFINE old(i) == IF i < q THEN i ELSE i + 1
    <3>2. \A i \in 1..n - 1 : old(i) \in 1..n /\ old(i) # q /\ images'[i] = images[old(i)]
      BY <1>1, <3>1
    <3>3. \A i, j \in 1..n - 1 : i < j => old(i) < old(j)
      BY <1>1
    <3> HIDE DEF old
    <3>4. QueueSound'
      <4>1. \A i \in 1..n - 1 : EntrySound(images'[i])
        BY <1>2, <3>2
      <4>2. \A i, j \in 1..n - 1 :
              i < j /\ SameKey(images'[i], images'[j]) => ~Named(images'[j]) /\ images'[j].done = 0
        BY <1>2, <3>2, <3>3, SMTT(30)
      <4> QED
        BY <3>1, <4>1, <4>2 DEF QueueSound, EntrySound, SameKey, Named
    <3>5. ImageIntact'
      <4>1. filled.done = filled.size /\ filled.size \in Nat
        BY <2>3, <2>7 DEF Complete, Entries, EntryFits
      <4>2. filled.image \in Seq(Nat) /\ Len(filled.image) = filled.size
        BY <2>3 DEF Entries, EntryFits
      <4>3. Named(filled) => filled.image = [i \in 1 .. filled.size |-> i]
        <5> SUFFICES ASSUME Named(filled) PROVE filled.image = [i \in 1 .. filled.size |-> i]
          OBVIOUS
        <5>1. \A i \in 1..filled.size : filled.image[i] = i
          BY <2>3, <4>1 DEF EntrySound
        <5>2. filled.image \in [1 .. filled.size -> Nat]
          BY <4>2, LenProperties
        <5> QED
          BY <5>1, <5>2
      <4>4. Named(filled) => filled.filename = filled.crc32
        BY <2>3 DEF EntrySound, Named
      <4>5. /\ last'.filename = filled.filename /\ last'.crc32 = filled.crc32
            /\ last'.image = filled.image /\ last'.size = filled.size
        BY <2>4, <2>7
      <4> QED
        BY <4>3, <4>4, <4>5 DEF ImageIntact, Named
    <3>6. \A i \in 1..Len(images') :
            \E j \in 1..n :
              /\ images'[i] = images[j]
              /\ Fits(images[j], p, packet.image) => ~Named(images[j]) /\ images[j].done = 0
      BY <2>5, <3>1, <3>2
    <3> QED
      BY <3>4, <3>5, <3>6
  <2>8. CASE ~Complete(filled)
    <3>1. /\ Len(images') = n
          /\ \A i \in 1..n : images'[i] = IF i = q THEN filled ELSE images[i]
      BY <1>1, <2>3, <2>4, <2>8, ExceptSeq
    <3>2. QueueSound'
      <4>1. \A i \in 1..n : EntrySound(images'[i])
        BY <1>2, <2>3, <3>1
      <4>2. ASSUME NEW i \in 1..n, NEW j \in 1..n, i < j, SameKey(images'[i], images'[j])
            PROVE  ~Named(images'[j]) /\ images'[j].done = 0
        <5>1. SameKey(images'[i], images[i]) /\ SameKey(images'[j], images[j])
          BY <2>3, <3>1 DEF SameKey
        <5>2. SameKey(images[i], images[j])
          BY <4>2, <5>1 DEF SameKey
        <5>3. j # q
          <6> SUFFICES ASSUME j = q PROVE FALSE
            OBVIOUS
          <6>1. i \in 1..q - 1
            BY <1>1, <4>2
          <6>2. Fits(images[i], p, packet.image)
            BY <1>4, <5>2 DEF SameKey, Fits
          <6> QED
            BY <1>4, <6>1, <6>2
        <5> QED
          BY <1>2, <3>1, <4>2, <5>2, <5>3
      <4> QED
        BY <3>1, <4>1, <4>2 DEF QueueSound, EntrySound, SameKey, Named
    <3>3. ImageIntact'
      BY <2>4, <2>8 DEF ImageIntact, Event
    <3>4. ASSUME NEW i \in 1..Len(images')
          PROVE  \/ \E j \in 1..n :
                      /\ images'[i] = images[j]
                      /\ Fits(images[j], p, packet.image) =>
                           ~Named(images[j]) /\ images[j].done = 0
                 \/ images'[i].sender = p /\ Reached(images'[i], ChunkTo(packet))
      <4>1. CASE i = q
        BY <2>3, <2>6, <3>1, <4>1
      <4>2. CASE i # q
        BY <2>5, <3>1, <4>2
      <4> QED
        BY <4>1, <4>2
    <3> QED
      BY <3>2, <3>3, <3>4
  <2> QED
    BY <2>7, <2>8
<1> HIDE DEF Goal
<1>5. Goal
  <2>1. CASE \E q \in 1..n : /\ Fits(images[q], p, packet.image)
                             /\ \A i \in 1..q - 1 : ~Fits(images[i], p, packet.image)
                             /\ ImageGrows(p, q, packet)
    BY <1>4, <2>1
  <2> QED
    BY <1>3, <2>1, ImageCases DEF Goal
<1> QED
  BY <1>5 DEF Goal

LEMMA ImageTakenSound ==
  ASSUME Typed, Typed', ImagesSound, NEW s \in Sources, WatchPacket(s),
         s \in Peers, Head(wire[s]) \in Chunks, TakeImage(s, Head(wire[s]))
  PROVE  ImagesSound'
<1> DEFINE packet == Head(wire[s])
<1>1. /\ wire[s] # <<>> /\ wire'[s] = Tail(wire[s]) /\ wire[s] \in Seq(FromPeers)
      /\ \A r \in Sources \ {s} : wire'[r] = wire[r]
  BY WatchCases DEF Typed, WireTyped
<1>2. Peers \subseteq Sources
  BY DEF Sources
<1> HIDE DEF packet
<1>3. packet \in Chunks /\ packet = Head(wire[s]) /\ TakeImage(s, packet)
  BY DEF packet
<1>4. /\ QueueSound' /\ ImageIntact'
      /\ \A i \in 1..Len(images') :
           \/ \E j \in 1..Len(images) :
                /\ images'[i] = images[j]
                /\ Fits(images[j], s, packet.image) => ~Named(images[j]) /\ images[j].done = 0
           \/ /\ images'[i].sender = s
              /\ Reached(images'[i], ChunkTo(packet))
  BY <1>1, <1>3, EntryTaken
<1>5. /\ Chained(Tail(wire[s]))
      /\ Tail(wire[s]) # <<>> /\ More(Tail(wire[s])[1]) => GoesOn(packet, Tail(wire[s])[1])
  BY <1>1, ChainedRest DEF ImagesSound, WireChained, packet
<1>6. WireChained'
  <2>1. \A p \in Peers : Chained(wire'[p])
    BY <1>1, <1>2, <1>5 DEF ImagesSound, WireChained
  <2> QED
    BY <2>1 DEF WireChained, Chained, More, GoesOn
<1>7. ASSUME NEW p \in Peers, wire'[p] # <<>>, More(wire'[p][1]),
             NEW i \in 1..Len(images'), Fits(images'[i], p, wire'[p][1].image)
      PROVE  Reached(images'[i], ChunkFrom(wire'[p][1]))
  <2> DEFINE next == wire'[p][1]
             from == ChunkFrom(next)
  <2>1. from \in Nat
    BY <1>7, ChunkShape DEF More
  <2>2. CASE p = s
    <3>1. packet.image = next.image /\ ChunkTo(packet) = from
      BY <1>1, <1>5, <1>7, <2>2 DEF GoesOn
    <3> HIDE DEF next, from
    <3>2. CASE images'[i].sender = s /\ Reached(images'[i], ChunkTo(packet))
      BY <3>1, <3>2 DEF from, next
    <3>3. ASSUME NEW j \in 1..Len(images), images'[i] = images[j],
                 Fits(images[j], s, packet.image) => ~Named(images[j]) /\ images[j].done = 0
          PROVE  Reached(images'[i], from)
      <4>1. Fits(images[j], s, packet.image)
        BY <1>7, <2>2, <3>1, <3>3 DEF next
      <4> QED
        BY <2>1, <3>3, <4>1 DEF Reached
    <3> QED
      BY <1>4, <3>2, <3>3 DEF from, next
  <2>3. CASE p # s
    <3>1. wire'[p] = wire[p]
      BY <1>1, <1>2, <2>3
    <3>2. images'[i].sender = p
      BY <1>7 DEF Fits
    <3>3. PICK j \in 1..Len(images) : images'[i] = images[j]
      BY <1>4, <2>3, <3>2
    <3> QED
      BY <1>7, <3>1, <3>3 DEF ImagesSound, HeadsFit
  <2> QED
    BY <2>2, <2>3
<1>8. HeadsFit'
  BY <1>7 DEF HeadsFit, More, Reached, Fits, Named, ChunkFrom
<1> QED
  BY <1>4, <1>6, <1>8 DEF ImagesSound

\* A step that leaves the queue of images alone.
LEMMA QueueLeft ==
  ASSUME ImagesSound, UNCHANGED images, ImageIntact',
         \A p \in Peers :
           /\ Chained(wire'[p])
           /\ wire'[p] # <<>> /\ More(wire'[p][1]) =>
                wire[p] # <<>> /\ wire'[p][1] = wire[p][1]
  PROVE  ImagesSound'
<1>1. WireChained'
  BY DEF WireChained, Chained, More, GoesOn
<1>2. QueueSound'
  BY DEF ImagesSound, QueueSound
<1>3. ASSUME NEW p \in Peers, wire'[p] # <<>>, More(wire'[p][1]),
             NEW i \in 1..Len(images), Fits(images[i], p, wire'[p][1].image)
      PROVE  Reached(images[i], ChunkFrom(wire'[p][1]))
  BY <1>3 DEF ImagesSound, HeadsFit
<1>4. HeadsFit'
  BY <1>3 DEF HeadsFit, More, Reached, Fits, Named, ChunkFrom
<1> QED
  BY <1>1, <1>2, <1>4 DEF ImagesSound

\* A first chunk whose name has no end takes back what the entry has; no chunk of the
\* same transfer comes after it.
LEMMA UnnamedSound ==
  ASSUME Typed, ImagesSound, NEW s \in Peers, NEW packet \in Unnamed,
         wire[s] # <<>>, packet = Head(wire[s]), TakeUnnamed(s, packet),
         wire'[s] = Tail(wire[s]), \A r \in Sources \ {s} : wire'[r] = wire[r]
  PROVE  ImagesSound'
<1> DEFINE n == Len(images)
<1>1. /\ images \in Seq(Entries) /\ n \in Nat
      /\ \A i \in 1..n : images[i] \in Entries /\ EntryFits(images[i])
  BY LenProperties, ElementOfSeq DEF Typed, SessionTyped
<1>2. /\ \A i \in 1..n : EntrySound(images[i])
      /\ \A i, j \in 1..n :
           i < j /\ SameKey(images[i], images[j]) => ~Named(images[j]) /\ images[j].done = 0
  BY DEF ImagesSound, QueueSound
<1>3. last' = Event("NONE") /\ Peers \subseteq Sources /\ wire[s] \in Seq(FromPeers)
  BY DEF TakeUnnamed, Sources, Typed, WireTyped
<1>4. packet \notin Chunks
  BY ChunkShape DEF TakeUnnamed
<1>5. /\ Chained(wire'[s])
      /\ wire'[s] # <<>> => ~More(wire'[s][1])
  BY <1>3, <1>4, ChainedRest DEF ImagesSound, WireChained, GoesOn
<1>6. \A p \in Peers :
        /\ Chained(wire'[p])
        /\ wire'[p] # <<>> /\ More(wire'[p][1]) => p # s /\ wire'[p] = wire[p]
  BY <1>3, <1>5 DEF ImagesSound, WireChained
<1>7. ImageIntact'
  BY <1>3 DEF ImageIntact, Event
<1>8. CASE UNCHANGED images
  BY <1>6, <1>7, <1>8, QueueLeft
<1>9. ASSUME NEW q \in 1..n,
             images' = [images EXCEPT ![q] = [@ EXCEPT !.done = 0]],
             Fits(images[q], s, packet.image),
             [images[q] EXCEPT !.done = 0] \in Entries
      PROVE  ImagesSound'
  <2> DEFINE begun == [images[q] EXCEPT !.done = 0]
  <2>1. /\ Len(images') = n
        /\ \A i \in 1..n : images'[i] = IF i = q THEN begun ELSE images[i]
    <3>1. images' = [images EXCEPT ![q] = begun]
      BY <1>9
    <3> HIDE DEF begun
    <3> QED
      BY <1>1, <1>9, <3>1, ExceptSeq DEF begun
  <2>2. /\ begun.done = 0 /\ begun.filename = images[q].filename /\ SameKey(begun, images[q])
        /\ begun.crc32 = images[q].crc32 /\ begun.sender = s
    BY <1>1, <1>9 DEF Entries, SameKey, Fits
  <2> HIDE DEF begun
  <2>3. EntrySound(begun)
    <3>1. EntrySound(images[q])
      BY <1>2, <1>9
    <3>2. ~(\E i \in 1..0 : TRUE)
      OBVIOUS
    <3> QED
      BY <2>2, <3>1, <3>2 DEF EntrySound, Named
  <2>4. \A i \in 1..n : /\ EntrySound(images'[i]) /\ SameKey(images'[i], images[i])
                        /\ Named(images'[i]) <=> Named(images[i])
                        /\ images'[i].done \in {0, images[i].done}
    BY <1>2, <2>1, <2>2, <2>3 DEF SameKey, Named
  <2>5. QueueSound'
    <3>1. ASSUME NEW i \in 1..n, NEW j \in 1..n, i < j, SameKey(images'[i], images'[j])
          PROVE  ~Named(images'[j]) /\ images'[j].done = 0
      <4>1. SameKey(images[i], images[j])
        BY <2>4, <3>1 DEF SameKey
      <4>2. ~Named(images[j]) /\ images[j].done = 0
        BY <1>2, <3>1, <4>1
      <4> QED
        BY <2>4, <4>2
    <3> QED
      BY <2>1, <2>4, <3>1 DEF QueueSound, EntrySound, SameKey, Named
  <2>6. ASSUME NEW p \in Peers, wire'[p] # <<>>, More(wire'[p][1]),
               NEW i \in 1..n, Fits(images'[i], p, wire'[p][1].image)
        PROVE  Reached(images'[i], ChunkFrom(wire'[p][1]))
    <3>1. p # s /\ wire'[p] = wire[p]
      BY <1>6, <2>6
    <3>2. i # q
      BY <2>1, <2>2, <2>6, <3>1 DEF Fits
    <3> QED
      BY <2>1, <2>6, <3>1, <3>2 DEF ImagesSound, HeadsFit
  <2>7. HeadsFit'
    BY <2>1, <2>6 DEF HeadsFit, More, Reached, Fits, Named, ChunkFrom
  <2>8. WireChained'
    BY <1>6 DEF WireChained, Chained, More, GoesOn
  <2> QED
    BY <1>7, <2>5, <2>7, <2>8 DEF ImagesSound
<1> QED
  BY <1>8, <1>9, UnnamedCases

LEMMA WatchSound ==
  ASSUME Typed, Typed', ImagesSound, NEW s \in Sources, WatchPacket(s)
  PROVE  ImagesSound'
<1> DEFINE packet == Head(wire[s])
<1>1. /\ wire[s] # <<>> /\ wire'[s] = Tail(wire[s])
      /\ \A r \in Sources \ {s} : wire'[r] = wire[r]
  BY WatchCases
<1>2. \A p \in Peers : p \in Sources /\ p # "server" /\ Chained(wire[p]) /\ wire[p] \in Seq(FromPeers)
  BY PeersAssumption DEF ImagesSound, WireChained, Sources, Typed, WireTyped
<1>3. ASSUME s = "server", \/ TakeUserlistReply(packet) \/ TakePubdir50Reply(packet)
                           \/ TakeNotifyReply(packet) \/ TakeNotice(packet)
      PROVE  ImagesSound'
  <2>1. UNCHANGED images
    BY <1>3 DEF TakeUserlistReply, TakePubdir50Reply, TakeNotifyReply, TakeNotice, session
  <2> HIDE DEF packet
  <2>2. last'.type # "IMAGE_REPLY"
    <3>1. ASSUME TakeUserlistReply(packet) PROVE last'.type # "IMAGE_REPLY"
      BY <3>1 DEF TakeUserlistReply, Event
    <3>2. ASSUME TakePubdir50Reply(packet) PROVE last'.type # "IMAGE_REPLY"
      BY <3>2 DEF TakePubdir50Reply, Fails, Event
    <3>3. ASSUME TakeNotifyReply(packet) PROVE last'.type # "IMAGE_REPLY"
      BY <3>3 DEF TakeNotifyReply, Fails, Event
    <3>4. ASSUME TakeNotice(packet) PROVE last'.type # "IMAGE_REPLY"
      BY <3>4 DEF TakeNotice, Event
    <3> QED
      BY <1>3, <3>1, <3>2, <3>3, <3>4
  <2>3. ImageIntact'
    BY <2>2 DEF ImageIntact
  <2>4. \A p \in Peers : wire'[p] = wire[p]
    BY <1>1, <1>2, <1>3
  <2> QED
    BY <1>2, <2>1, <2>3, <2>4, QueueLeft
<1>4. ASSUME s \in Peers, packet \in NoImages \cup Conferences, TakeMessage(s, packet)
      PROVE  ImagesSound'
  <2>1. UNCHANGED images
    BY <1>4 DEF TakeMessage, session
  <2>2. ImageIntact'
    BY <1>4 DEF TakeMessage, ImageIntact
  <2>3. packet \notin Chunks
    <3> HIDE DEF packet
    <3>1. packet \in FromPeers
      BY <1>4 DEF FromPeers
    <3> QED
      BY <1>4, <3>1, MessageTypes DEF TakeMessage
  <2>4. /\ Chained(Tail(wire[s]))
        /\ Tail(wire[s]) # <<>> /\ More(Tail(wire[s])[1]) => GoesOn(packet, Tail(wire[s])[1])
    BY <1>1, <1>2, <1>4, ChainedRest
  <2> HIDE DEF packet
  <2>5. ASSUME NEW p \in Peers
        PROVE  /\ Chained(wire'[p])
               /\ wire'[p] # <<>> /\ More(wire'[p][1]) =>
                    wire[p] # <<>> /\ wire'[p][1] = wire[p][1]
    <3>1. CASE p = s
      BY <1>1, <2>3, <2>4, <3>1 DEF GoesOn
    <3>2. CASE p # s
      BY <1>1, <1>2, <3>2
    <3> QED
      BY <3>1, <3>2
  <2> QED
    BY <2>1, <2>2, <2>5, QueueLeft
<1>5. ASSUME s \in Peers, packet \in Chunks, TakeImage(s, packet)
      PROVE  ImagesSound'
  BY <1>5, ImageTakenSound
<1>6. ASSUME s \in Peers, packet \in Unnamed, TakeUnnamed(s, packet)
      PROVE  ImagesSound'
  BY <1>1, <1>6, UnnamedSound
<1> HIDE DEF packet
<1> QED
  BY <1>3, <1>4, <1>5, <1>6, WatchCases DEF packet

LEMMA ImageRequestSound ==
  ASSUME Typed, ImagesSound, NEW peer \in Peers, NEW image \in Images,
         ImageRequest(peer, image)
  PROVE  ImagesSound'
<1> DEFINE n == Len(images)
           new == NewImage(peer, image)
<1>1. wire' = wire /\ last'.type = "call"
  BY DEF ImageRequest, Called
<1>2. images \in Seq(Entries) /\ n \in Nat
  BY LenProperties DEF Typed, SessionTyped
<1>3. new.done = 0 /\ ~Named(new)
  BY DEF NewImage, Named
<1>4. images' = Append(images, new) \/ images' = images
  BY DEF ImageRequest
<1>5. WireChained' /\ ImageIntact'
  <2>1. WireChained
    BY DEF ImagesSound
  <2> QED
    BY <1>1, <2>1 DEF WireChained, ImageIntact, Chained, More, GoesOn
<1> HIDE DEF new
<1>6. CASE images' = images
  BY <1>1, <1>5, <1>6, QueueLeft DEF ImagesSound, WireChained
<1>7. CASE images' = Append(images, new)
  <2>1. /\ Len(images') = n + 1 /\ images'[n + 1] = new
        /\ \A i \in 1..n : images'[i] = images[i]
    BY <1>2, <1>7, AppendProperties
  <2> HIDE DEF n
  <2>2. ASSUME NEW i \in 1..n + 1
        PROVE  i \in 1..n \/ (i = n + 1 /\ images'[i] = new)
    BY <1>2, <2>1
  <2>3. QueueSound'
    <3>1. \A i \in 1..n + 1 : EntrySound(images'[i])
      <4> SUFFICES ASSUME NEW i \in 1..n + 1 PROVE EntrySound(images'[i])
        OBVIOUS
      <4>1. CASE i \in 1..n
        BY <2>1, <4>1 DEF ImagesSound, QueueSound, n
      <4>2. CASE images'[i] = new
        BY <1>3, <4>2 DEF EntrySound, Named
      <4> QED
        BY <2>2, <4>1, <4>2
    <3>2. ASSUME NEW i \in 1..n + 1, NEW j \in 1..n + 1, i < j, SameKey(images'[i], images'[j])
          PROVE  ~Named(images'[j]) /\ images'[j].done = 0
      <4>1. CASE j \in 1..n
        <5>1. i \in 1..n
          BY <1>2, <3>2, <4>1
        <5> QED
          BY <2>1, <3>2, <4>1, <5>1 DEF ImagesSound, QueueSound, n
      <4>2. CASE images'[j] = new
        BY <1>3, <4>2
      <4> QED
        BY <2>2, <4>1, <4>2
    <3> QED
      BY <2>1, <3>1, <3>2 DEF QueueSound, EntrySound, SameKey, Named
  <2>4. ASSUME NEW p \in Peers, wire[p] # <<>>, More(wire[p][1]), NEW i \in 1..n + 1,
               Fits(images'[i], p, wire[p][1].image)
        PROVE  Reached(images'[i], ChunkFrom(wire[p][1]))
    <3>1. CASE i \in 1..n
      BY <2>1, <2>4, <3>1 DEF ImagesSound, HeadsFit, n
    <3>2. CASE images'[i] = new
      <4>1. ChunkFrom(wire[p][1]) \in Nat
        BY <2>4, ChunkShape DEF More
      <4> QED
        BY <1>3, <3>2, <4>1 DEF Reached
    <3> QED
      BY <2>2, <3>1, <3>2
  <2>5. HeadsFit'
    BY <1>1, <2>1, <2>4 DEF HeadsFit, More, Reached, Fits, Named, ChunkFrom
  <2> QED
    BY <1>5, <2>3, <2>5 DEF ImagesSound
<1> QED
  BY <1>4, <1>6, <1>7

LEMMA NextSound ==
  ASSUME Typed, ImagesSound, [Next]_vars
  PROVE  ImagesSound'
<1>1. Typed'
  BY NextTyped
<1>2. ASSUME NEW s \in Sources, WatchPacket(s) PROVE ImagesSound'
  BY <1>1, <1>2, WatchSound
<1>3. ASSUME NEW peer \in Peers, NEW image \in Images, ImageRequest(peer, image)
      PROVE  ImagesSound'
  BY <1>3, ImageRequestSound
<1>4. ASSUME \A s \in Sources : ~WatchPacket(s), UNCHANGED images, ImageIntact'
      PROVE  ImagesSound'
  <2>1. WireChained
    BY DEF ImagesSound
  <2>2. \A p \in Peers :
          /\ Chained(wire'[p])
          /\ wire'[p] # <<>> /\ More(wire'[p][1]) =>
               wire[p] # <<>> /\ wire'[p][1] = wire[p][1]
    BY <1>4, <2>1, ChainedKept
  <2> QED
    BY <1>4, <2>2, QueueLeft
<1>5. ASSUME Client,
             \A peer \in Peers, image \in Images : ~ImageRequest(peer, image)
      PROVE  UNCHANGED images /\ last'.type = "call"
  <2>1. ASSUME NEW list \in Lists, UserlistPut(list) PROVE UNCHANGED images /\ last'.type = "call"
    BY <2>1 DEF UserlistPut, Called
  <2>2. ASSUME UserlistGet PROVE UNCHANGED images /\ last'.type = "call"
    BY <2>2 DEF UserlistGet, Called
  <2>3. ASSUME NEW list \in ContactLists, Notify(list) PROVE UNCHANGED images /\ last'.type = "call"
    BY <2>3 DEF Notify, Called
  <2>4. ASSUME NEW uin \in Uins, NEW type \in {"ADD_NOTIFY", "REMOVE_NOTIFY"},
               AddOrRemoveNotify(uin, type)
        PROVE UNCHANGED images /\ last'.type = "call"
    BY <2>4 DEF AddOrRemoveNotify, Called
  <2>5. ASSUME NEW seq \in Seqs, Pubdir50(seq) PROVE UNCHANGED images /\ last'.type = "call"
    BY <2>5 DEF Pubdir50, Called
  <2> QED
    BY <1>5, <2>1, <2>2, <2>3, <2>4, <2>5 DEF Client
<1>6. ASSUME ServerTakes \/ (\E p \in Peers : PeerAnswers(p)) \/ Unasked
      PROVE  UNCHANGED images /\ last'.type = "none"
  <2>1. UNCHANGED images /\ last' = Event("none")
    BY <1>6 DEF ServerTakes, PeerAnswers, Unasked, session
  <2> QED
    BY <2>1 DEF Event
<1>7. ASSUME WatchEnd \/ WatchNothing
      PROVE  UNCHANGED images /\ last'.type \in {"NONE", "FAILED"}
  <2>1. UNCHANGED images /\ (Fails("EAGAIN") \/ Fails("other"))
    BY <1>7 DEF WatchEnd, WatchNothing
  <2>2. last' = Event("NONE") \/ last' = Event("FAILED")
    BY <2>1 DEF Fails
  <2> QED
    BY <2>1, <2>2 DEF Event
<1>8. ASSUME UNCHANGED vars
      PROVE  UNCHANGED images /\ ImageIntact'
  BY <1>8 DEF vars, session, ImagesSound, ImageIntact
<1>9. last'.type \in {"call", "none", "NONE", "FAILED"} => ImageIntact'
  BY DEF ImageIntact
<1> QED
  BY <1>2, <1>3, <1>4, <1>5, <1>6, <1>7, <1>8, <1>9 DEF Next, Watch

LEMMA InitSound == Init => ImagesSound
<1> SUFFICES ASSUME Init PROVE ImagesSound
  OBVIOUS
<1>1. \A p \in Peers : wire[p] = <<>>
  BY DEF Init, Sources
<1>2. Len(images) = 0 /\ last.type = "none"
  BY DEF Init, Event
<1>3. \A p \in Peers : Chained(wire[p])
  BY <1>1 DEF Chained
<1> QED
  BY <1>1, <1>2, <1>3 DEF ImagesSound, WireChained, QueueSound, HeadsFit, ImageIntact

\* An image that is reported is the one that was asked for, whole, in order and
\* under its name (gg_image_queue_parse()), whatever came before and in between.
THEOREM ImagesIntact == Spec => []ImageIntact
<1>1. Init => Typed /\ ImagesSound
  BY InitTyped, InitSound
<1>2. Typed /\ ImagesSound /\ [Next]_vars => (Typed /\ ImagesSound)'
  BY NextTyped, NextSound
<1>3. ImagesSound => ImageIntact
  BY DEF ImagesSound
<1> QED
  BY <1>1, <1>2, <1>3, PTL DEF Spec

-----------------------------------------------------------------------------
(***************************************************************************)
(* NamesAccounted: an entry whose transfer was begun and is sent to its    *)
(* end is what the next message of that peer goes on with; a first chunk   *)
(* never comes to it.                                                      *)
(***************************************************************************)
Awaits(entry, packets) ==
  /\ packets # <<>> /\ More(packets[1]) /\ packets[1].whole
  /\ Fits(entry, entry.sender, packets[1].image)

EntriesAwait ==
  \A i \in 1..Len(images) :
    Named(images[i]) /\ images[i].whole => Awaits(images[i], wire[images[i].sender])

NoneLost == ~asked.leaked /\ \A i \in 1..Len(images) : ~images[i].lost

NamesSound == WireUnbroken /\ EntriesAwait /\ NoneLost

\* A step that leaves the queue of images, and the chunks it waits for, alone.
LEMMA NamesLeft ==
  ASSUME Typed, NamesSound, UNCHANGED images, asked'.leaked = asked.leaked,
         \A p \in Peers :
           /\ Unbroken(wire'[p])
           /\ wire[p] # <<>> /\ More(wire[p][1]) =>
                wire'[p] # <<>> /\ wire'[p][1] = wire[p][1]
  PROVE  NamesSound'
<1>1. WireUnbroken'
  BY DEF WireUnbroken, Unbroken, Unended, Continues, More
<1>2. NoneLost'
  BY DEF NamesSound, NoneLost
<1>3. ASSUME NEW i \in 1..Len(images), Named(images[i]), images[i].whole
      PROVE  Awaits(images[i], wire'[images[i].sender])
  <2> DEFINE p == images[i].sender
  <2>1. p \in Peers
    <3>1. images[i] \in Entries
      BY ElementOfSeq DEF Typed, SessionTyped
    <3> QED
      BY <3>1 DEF Entries
  <2>2. Awaits(images[i], wire[p])
    BY <1>3 DEF NamesSound, EntriesAwait
  <2> QED
    BY <2>1, <2>2 DEF Awaits
<1>4. EntriesAwait'
  BY <1>3 DEF EntriesAwait, Awaits, Named, More, Fits
<1> QED
  BY <1>1, <1>2, <1>4 DEF NamesSound

\* A chunk that is taken: the entry it goes to awaits the next one, if there is one
\* to come, and no other entry of that peer awaits anything.
LEMMA NamesTaken ==
  ASSUME Typed, ImagesSound, NamesSound, NEW s \in Peers, NEW packet \in Chunks,
         wire[s] # <<>>, packet = Head(wire[s]), TakeImage(s, packet),
         wire'[s] = Tail(wire[s]), \A r \in Sources \ {s} : wire'[r] = wire[r]
  PROVE  NamesSound'
<1> DEFINE n == Len(images)
<1>1. /\ images \in Seq(Entries) /\ n \in Nat
      /\ \A i \in 1..n : images[i] \in Entries /\ EntryFits(images[i])
      /\ \A i \in 1..n : images[i].sender \in Peers
  <2>1. /\ images \in Seq(Entries) /\ n \in Nat
        /\ \A i \in 1..n : images[i] \in Entries /\ EntryFits(images[i])
    BY LenProperties, ElementOfSeq DEF Typed, SessionTyped
  <2> QED
    BY <2>1 DEF Entries
<1>2. /\ \A i \in 1..n : EntrySound(images[i])
      /\ \A i, j \in 1..n :
           i < j /\ SameKey(images[i], images[j]) => ~Named(images[j]) /\ images[j].done = 0
  BY DEF ImagesSound, QueueSound
<1>3. /\ wire[s] \in Seq(FromPeers) /\ packet = wire[s][1] /\ Peers \subseteq Sources
      /\ asked \in Memories
  BY HeadOf DEF Typed, WireTyped, Sources
<1>4. /\ Unbroken(wire'[s])
      /\ Unended(packet) => wire'[s] # <<>> /\ Continues(packet, wire'[s][1])
  BY <1>3, UnbrokenRest DEF NamesSound, WireUnbroken
<1>5. WireUnbroken'
  <2>1. \A p \in Peers : Unbroken(wire'[p])
    BY <1>3, <1>4 DEF NamesSound, WireUnbroken
  <2> QED
    BY <2>1 DEF WireUnbroken, Unbroken, Unended, Continues, More
<1>6. ASSUME NEW i \in 1..n, Named(images[i]), images[i].whole
      PROVE  /\ Awaits(images[i], wire[images[i].sender])
             /\ images[i].sender = s =>
                  More(packet) /\ packet.whole /\ Fits(images[i], s, packet.image)
  BY <1>3, <1>6 DEF NamesSound, EntriesAwait, Awaits
<1>7. ASSUME NEW i \in 1..n, Named(images[i]), images[i].whole, images[i].sender # s
      PROVE  Awaits(images[i], wire'[images[i].sender])
  <2>1. wire'[images[i].sender] = wire[images[i].sender]
    BY <1>1, <1>3, <1>7
  <2> QED
    BY <1>6, <1>7, <2>1
<1>8. /\ asked.leaked = FALSE /\ \A i \in 1..n : ~images[i].lost
  BY <1>3 DEF NamesSound, NoneLost, Memories
<1>9. CASE /\ \A i \in DOMAIN images : ~Fits(images[i], s, packet.image)
           /\ last' = Event("NONE") /\ UNCHANGED <<images, asked>>
  <2>1. \A i \in 1..n : ~Fits(images[i], s, packet.image)
    BY <1>1, <1>9, LenProperties
  <2>2. \A i \in 1..n :
          Named(images[i]) /\ images[i].whole => Awaits(images[i], wire'[images[i].sender])
    BY <1>6, <1>7, <2>1
  <2>3. EntriesAwait'
    BY <1>9, <2>2 DEF EntriesAwait, Awaits, Named, More, Fits
  <2>4. NoneLost'
    BY <1>9 DEF NamesSound, NoneLost
  <2> QED
    BY <1>5, <2>3, <2>4 DEF NamesSound
<1>10. ASSUME NEW q \in 1..n, Fits(images[q], s, packet.image),
              \A i \in 1..q - 1 : ~Fits(images[i], s, packet.image),
              ImageGrows(s, q, packet)
       PROVE  NamesSound'
  <2> DEFINE begun == Begun(images[q], packet)
             filled == Filled(begun, packet.data)
  <2>1. More(packet) => Reached(images[q], ChunkFrom(packet))
    BY <1>3, <1>10 DEF ImagesSound, HeadsFit
  <2>2. /\ EntrySound(filled) /\ Reached(filled, ChunkTo(packet))
        /\ SameKey(filled, images[q]) /\ filled \in Entries /\ EntryFits(filled)
    BY <1>1, <1>2, <1>10, <2>1, FilledSound
  <2>3. /\ packet.data \in Seq(Nat) /\ packet.option \in {"IMAGE_FIRST", "IMAGE_MORE"}
        /\ packet.whole \in BOOLEAN
    BY ChunkShape
  <2>4. /\ begun \in Entries /\ EntryFits(begun)
        /\ begun.filename = IF packet.option = "IMAGE_FIRST" THEN packet.image.id
                            ELSE images[q].filename
        /\ begun.whole = IF packet.option = "IMAGE_FIRST" THEN packet.whole
                         ELSE images[q].whole
        /\ begun.lost = IF packet.option = "IMAGE_FIRST"
                        THEN images[q].filename # "NULL" /\ images[q].whole
                        ELSE images[q].lost
    BY <1>1, BegunOf
  <2>5. \/ /\ Complete(filled)
           /\ images' = RemoveAt(images, q)
           /\ asked' = [asked EXCEPT !.images[s] = @ - 1,
                                     !.leaked = asked.leaked \/ filled.lost]
        \/ /\ ~Complete(filled)
           /\ images' = [images EXCEPT ![q] = filled]
           /\ asked' = [asked EXCEPT !.leaked = asked.leaked \/ filled.lost]
    BY <1>10 DEF ImageGrows
  <2> HIDE DEF begun
  <2>6. /\ filled.filename = begun.filename /\ filled.whole = begun.whole
        /\ filled.lost = begun.lost
    BY <2>3, <2>4, FilledOf
  <2> HIDE DEF filled
  <2>7. images[q].sender = s
    BY <1>10 DEF Fits
  <2>8. ~filled.lost
    <3>1. CASE packet.option = "IMAGE_FIRST"
      <4>1. ~More(packet)
        BY <3>1 DEF More
      <4>2. ~(Named(images[q]) /\ images[q].whole)
        BY <1>6, <2>7, <4>1
      <4> QED
        BY <2>4, <2>6, <3>1, <4>2 DEF Named
    <3>2. CASE packet.option # "IMAGE_FIRST"
      BY <1>8, <2>4, <2>6, <3>2
    <3> QED
      BY <3>1, <3>2
  <2>9. asked'.leaked = FALSE
    <3>1. (asked.leaked \/ filled.lost) = FALSE
      BY <1>8, <2>8
    <3> QED
      BY <1>3, <2>5, <3>1 DEF Memories
  <2>10. ASSUME NEW i \in 1..n, i # q, Named(images[i]), images[i].whole
         PROVE  Awaits(images[i], wire'[images[i].sender])
    <3>1. images[i].sender # s
      <4> SUFFICES ASSUME images[i].sender = s PROVE FALSE
        OBVIOUS
      <4>1. Fits(images[i], s, packet.image)
        BY <1>6, <2>10
      <4>2. ~(i \in 1..q - 1)
        BY <1>10, <4>1
      <4>3. q < i
        BY <1>1, <2>10, <4>2
      <4>4. SameKey(images[q], images[i])
        BY <1>10, <4>1 DEF Fits, SameKey
      <4> QED
        BY <1>2, <2>10, <4>3, <4>4
    <3> QED
      BY <1>7, <2>10, <3>1
  <2>11. CASE Complete(filled)
    <3>1. images' = RemoveAt(images, q)
      BY <2>5, <2>11
    <3>2. /\ Len(images') = n - 1
          /\ \A i \in 1..n - 1 : images'[i] = IF i < q THEN images[i] ELSE images[i + 1]
      BY <1>1, <3>1, Removed
    <3> DEFINE old(i) == IF i < q THEN i ELSE i + 1
    <3>3. \A i \in 1..n - 1 : old(i) \in 1..n /\ old(i) # q /\ images'[i] = images[old(i)]
      BY <1>1, <3>2
    <3> HIDE DEF old
    <3>4. \A i \in 1..n - 1 :
            /\ ~images'[i].lost
            /\ Named(images'[i]) /\ images'[i].whole => Awaits(images'[i], wire'[images'[i].sender])
      BY <1>8, <2>10, <3>3
    <3>5. EntriesAwait'
      BY <3>2, <3>4 DEF EntriesAwait, Awaits, Named, More, Fits
    <3>6. NoneLost'
      BY <2>9, <3>2, <3>4 DEF NoneLost
    <3> QED
      BY <1>5, <3>5, <3>6 DEF NamesSound
  <2>12. CASE ~Complete(filled)
    <3>1. images' = [images EXCEPT ![q] = filled]
      BY <2>5, <2>12
    <3>2. /\ Len(images') = n
          /\ \A i \in 1..n : images'[i] = IF i = q THEN filled ELSE images[i]
      BY <1>1, <2>2, <3>1, ExceptSeq
    <3>3. filled.sender = s /\ filled.size = packet.image.size /\ Fits(filled, s, packet.image)
      BY <1>10, <2>2 DEF SameKey, Fits
    <3>4. ASSUME Named(filled), filled.whole
          PROVE  Awaits(filled, wire'[filled.sender])
      <4>1. packet.whole
        <5>1. CASE packet.option = "IMAGE_FIRST"
          BY <2>4, <2>6, <3>4, <5>1
        <5>2. CASE packet.option # "IMAGE_FIRST"
          <6>1. Named(images[q]) /\ images[q].whole
            BY <2>4, <2>6, <3>4, <5>2 DEF Named
          <6> QED
            BY <1>6, <2>7, <6>1
        <5> QED
          BY <5>1, <5>2
      <4>2. ChunkTo(packet) # packet.image.size
        <5> SUFFICES ASSUME ChunkTo(packet) = packet.image.size PROVE FALSE
          OBVIOUS
        <5>1. filled.done = filled.size /\ filled.size \in Nat
          BY <2>2, <3>3, <3>4 DEF Reached, Entries
        <5> QED
          BY <2>12, <5>1 DEF Complete
      <4>3. wire'[s] # <<>> /\ Continues(packet, wire'[s][1])
        BY <1>4, <4>1, <4>2 DEF Unended
      <4> QED
        BY <3>3, <4>3 DEF Awaits, Continues
    <3>5. ASSUME NEW i \in 1..n
          PROVE  /\ ~images'[i].lost
                 /\ Named(images'[i]) /\ images'[i].whole =>
                      Awaits(images'[i], wire'[images'[i].sender])
      <4>1. CASE i = q
        BY <2>8, <3>2, <3>4, <4>1
      <4>2. CASE i # q
        BY <1>8, <2>10, <3>2, <4>2
      <4> QED
        BY <4>1, <4>2
    <3>6. EntriesAwait'
      BY <3>2, <3>5 DEF EntriesAwait, Awaits, Named, More, Fits
    <3>7. NoneLost'
      BY <2>9, <3>2, <3>5 DEF NoneLost
    <3> QED
      BY <1>5, <3>6, <3>7 DEF NamesSound
  <2> QED
    BY <2>11, <2>12
<1> QED
  BY <1>9, <1>10, ImageCases

\* A first chunk whose name has no end comes to no entry that awaits another chunk.
LEMMA UnnamedNames ==
  ASSUME Typed, NamesSound, NEW s \in Peers, NEW packet \in Unnamed,
         wire[s] # <<>>, packet = Head(wire[s]), TakeUnnamed(s, packet),
         wire'[s] = Tail(wire[s]), \A r \in Sources \ {s} : wire'[r] = wire[r]
  PROVE  NamesSound'
<1> DEFINE n == Len(images)
<1>1. /\ images \in Seq(Entries) /\ n \in Nat
      /\ \A i \in 1..n : images[i] \in Entries /\ images[i].sender \in Peers
  <2>1. /\ images \in Seq(Entries) /\ n \in Nat /\ \A i \in 1..n : images[i] \in Entries
    BY LenProperties, ElementOfSeq DEF Typed, SessionTyped
  <2> QED
    BY <2>1 DEF Entries
<1>2. /\ wire[s] \in Seq(FromPeers) /\ packet = wire[s][1] /\ Peers \subseteq Sources
      /\ asked' = asked
  BY HeadOf DEF Typed, WireTyped, Sources, TakeUnnamed
<1>3. ~More(packet)
  BY DEF More, TakeUnnamed
<1>4. Unbroken(wire'[s])
  BY <1>2, UnbrokenRest DEF NamesSound, WireUnbroken
<1>5. WireUnbroken'
  <2>1. \A p \in Peers : Unbroken(wire'[p])
    BY <1>2, <1>4 DEF NamesSound, WireUnbroken
  <2> QED
    BY <2>1 DEF WireUnbroken, Unbroken, Unended, Continues, More
<1>6. ASSUME NEW i \in 1..n, Named(images[i]), images[i].whole
      PROVE  images[i].sender # s /\ Awaits(images[i], wire'[images[i].sender])
  <2>1. Awaits(images[i], wire[images[i].sender])
    BY <1>6 DEF NamesSound, EntriesAwait
  <2>2. images[i].sender # s
    BY <1>2, <1>3, <2>1 DEF Awaits
  <2>3. wire'[images[i].sender] = wire[images[i].sender]
    BY <1>1, <1>2, <2>2
  <2> QED
    BY <2>1, <2>2, <2>3
<1>7. /\ asked.leaked = asked'.leaked /\ ~asked.leaked /\ \A i \in 1..n : ~images[i].lost
  BY <1>2 DEF NamesSound, NoneLost
<1>8. CASE UNCHANGED images
  <2>1. EntriesAwait'
    BY <1>6, <1>8 DEF EntriesAwait, Awaits, Named, More, Fits
  <2>2. NoneLost'
    BY <1>7, <1>8 DEF NoneLost
  <2> QED
    BY <1>5, <2>1, <2>2 DEF NamesSound
<1>9. ASSUME NEW q \in 1..n,
             images' = [images EXCEPT ![q] = [@ EXCEPT !.done = 0]],
             Fits(images[q], s, packet.image),
             [images[q] EXCEPT !.done = 0] \in Entries
      PROVE  NamesSound'
  <2> DEFINE begun == [images[q] EXCEPT !.done = 0]
  <2>1. /\ Len(images') = n
        /\ \A i \in 1..n : images'[i] = IF i = q THEN begun ELSE images[i]
    <3>1. images' = [images EXCEPT ![q] = begun]
      BY <1>9
    <3> HIDE DEF begun
    <3> QED
      BY <1>1, <1>9, <3>1, ExceptSeq DEF begun
  <2>2. /\ begun.filename = images[q].filename /\ begun.whole = images[q].whole
        /\ begun.lost = images[q].lost /\ images[q].sender = s
    BY <1>1, <1>9 DEF Entries, Fits
  <2> HIDE DEF begun
  <2>3. ASSUME NEW i \in 1..n
        PROVE  /\ ~images'[i].lost
               /\ Named(images'[i]) /\ images'[i].whole =>
                    Awaits(images'[i], wire'[images'[i].sender])
    <3>1. CASE i = q
      BY <1>6, <1>7, <2>1, <2>2, <3>1 DEF Named
    <3>2. CASE i # q
      BY <1>6, <1>7, <2>1, <3>2
    <3> QED
      BY <3>1, <3>2
  <2>4. EntriesAwait'
    BY <2>1, <2>3 DEF EntriesAwait, Awaits, Named, More, Fits
  <2>5. NoneLost'
    BY <1>7, <2>1, <2>3 DEF NoneLost
  <2> QED
    BY <1>5, <2>4, <2>5 DEF NamesSound
<1> QED
  BY <1>8, <1>9, UnnamedCases

LEMMA WatchNames ==
  ASSUME Typed, ImagesSound, NamesSound, NEW s \in Sources, WatchPacket(s)
  PROVE  NamesSound'
<1> DEFINE packet == Head(wire[s])
<1>1. /\ wire[s] # <<>> /\ wire'[s] = Tail(wire[s])
      /\ \A r \in Sources \ {s} : wire'[r] = wire[r]
  BY WatchCases
<1>2. /\ \A p \in Peers : /\ p \in Sources /\ p # "server" /\ wire[p] \in Seq(FromPeers)
                          /\ Unbroken(wire[p])
      /\ asked \in Memories
  BY PeersAssumption DEF NamesSound, WireUnbroken, Sources, Typed, WireTyped
<1>3. ASSUME s = "server", \/ TakeUserlistReply(packet) \/ TakePubdir50Reply(packet)
                           \/ TakeNotifyReply(packet) \/ TakeNotice(packet)
      PROVE  NamesSound'
  <2> HIDE DEF packet
  <2>1. UNCHANGED images /\ asked'.leaked = asked.leaked
    <3>1. ASSUME TakeUserlistReply(packet)
          PROVE  UNCHANGED images /\ asked'.leaked = asked.leaked
      BY <1>2, <3>1 DEF TakeUserlistReply, Memories
    <3>2. ASSUME TakePubdir50Reply(packet)
          PROVE  UNCHANGED images /\ asked'.leaked = asked.leaked
      BY <1>2, <3>2 DEF TakePubdir50Reply, Memories
    <3>3. ASSUME TakeNotifyReply(packet) \/ TakeNotice(packet)
          PROVE  UNCHANGED images /\ asked'.leaked = asked.leaked
      BY <3>3 DEF TakeNotifyReply, TakeNotice, session
    <3> QED
      BY <1>3, <3>1, <3>2, <3>3
  <2>2. \A p \in Peers : wire'[p] = wire[p]
    BY <1>1, <1>2, <1>3
  <2> QED
    BY <1>2, <2>1, <2>2, NamesLeft
<1>4. ASSUME s \in Peers, packet \in NoImages \cup Conferences, TakeMessage(s, packet)
      PROVE  NamesSound'
  <2>1. packet = wire[s][1]
    BY <1>1, <1>2, <1>4, HeadOf
  <2>2. Unbroken(Tail(wire[s]))
    BY <1>1, <1>2, <1>4, UnbrokenRest
  <2> HIDE DEF packet
  <2>3. UNCHANGED images /\ asked'.leaked = asked.leaked
    BY <1>2, <1>4 DEF TakeMessage, session, Memories
  <2>4. ~More(packet)
    BY <1>4 DEF TakeMessage, More
  <2>5. ASSUME NEW p \in Peers
        PROVE  /\ Unbroken(wire'[p])
               /\ wire[p] # <<>> /\ More(wire[p][1]) =>
                    wire'[p] # <<>> /\ wire'[p][1] = wire[p][1]
    <3>1. CASE p = s
      BY <1>1, <2>1, <2>2, <2>4, <3>1
    <3>2. CASE p # s
      BY <1>1, <1>2, <3>2
    <3> QED
      BY <3>1, <3>2
  <2> QED
    BY <2>3, <2>5, NamesLeft
<1>5. ASSUME s \in Peers, packet \in Chunks, TakeImage(s, packet)
      PROVE  NamesSound'
  BY <1>1, <1>5, NamesTaken
<1>6. ASSUME s \in Peers, packet \in Unnamed, TakeUnnamed(s, packet)
      PROVE  NamesSound'
  BY <1>1, <1>6, UnnamedNames
<1> HIDE DEF packet
<1> QED
  BY <1>3, <1>4, <1>5, <1>6, WatchCases DEF packet

\* An entry that is new has no name to lose.
LEMMA ImageRequestNames ==
  ASSUME Typed, NamesSound, NEW peer \in Peers, NEW image \in Images, ImageRequest(peer, image)
  PROVE  NamesSound'
<1> DEFINE n == Len(images)
           new == NewImage(peer, image)
<1>1. wire' = wire
  BY DEF ImageRequest, Called
<1>2. images \in Seq(Entries) /\ n \in Nat /\ asked \in Memories
  BY LenProperties DEF Typed, SessionTyped
<1>3. ~new.lost /\ ~Named(new)
  BY DEF NewImage, Named
<1>4. images' = Append(images, new) \/ images' = images
  BY DEF ImageRequest
<1>5. asked'.leaked = asked.leaked
  BY <1>2 DEF ImageRequest, Memories
<1> HIDE DEF new
<1>6. CASE images' = images
  BY <1>1, <1>5, <1>6, NamesLeft DEF NamesSound, WireUnbroken
<1>7. CASE images' = Append(images, new)
  <2>1. /\ Len(images') = n + 1 /\ images'[n + 1] = new
        /\ \A i \in 1..n : images'[i] = images[i]
    BY <1>2, <1>7, AppendProperties
  <2>2. ASSUME NEW i \in 1..n + 1
        PROVE  i \in 1..n \/ images'[i] = new
    BY <1>2, <2>1
  <2>3. \A i \in 1..n :
          /\ ~images[i].lost
          /\ Named(images[i]) /\ images[i].whole => Awaits(images[i], wire[images[i].sender])
    BY DEF NamesSound, NoneLost, EntriesAwait
  <2>4. ASSUME NEW i \in 1..n + 1
        PROVE  /\ ~images'[i].lost
               /\ Named(images'[i]) /\ images'[i].whole =>
                    Awaits(images'[i], wire'[images'[i].sender])
    <3>1. CASE i \in 1..n
      BY <1>1, <2>1, <2>3, <3>1
    <3>2. CASE images'[i] = new
      BY <1>3, <3>2
    <3> QED
      BY <2>2, <3>1, <3>2
  <2>5. EntriesAwait'
    BY <2>1, <2>4 DEF EntriesAwait, Awaits, Named, More, Fits
  <2>6. NoneLost'
    BY <1>5, <2>1, <2>4 DEF NamesSound, NoneLost
  <2>7. WireUnbroken'
    BY <1>1 DEF NamesSound, WireUnbroken, Unbroken, Unended, Continues, More
  <2> QED
    BY <2>5, <2>6, <2>7 DEF NamesSound
<1> QED
  BY <1>4, <1>6, <1>7

LEMMA NextNames ==
  ASSUME Typed, ImagesSound, NamesSound, [Next]_vars
  PROVE  NamesSound'
<1>1. ASSUME NEW s \in Sources, WatchPacket(s) PROVE NamesSound'
  BY <1>1, WatchNames
<1>2. ASSUME NEW peer \in Peers, NEW image \in Images, ImageRequest(peer, image)
      PROVE  NamesSound'
  BY <1>2, ImageRequestNames
<1>3. ASSUME \A s \in Sources : ~WatchPacket(s), UNCHANGED images, asked'.leaked = asked.leaked
      PROVE  NamesSound'
  <2>1. WireUnbroken
    BY DEF NamesSound
  <2>2. \A p \in Peers :
          /\ Unbroken(wire'[p])
          /\ wire[p] # <<>> => wire'[p] # <<>> /\ wire'[p][1] = wire[p][1]
    BY <1>3, <2>1, UnbrokenKept
  <2> QED
    BY <1>3, <2>2, NamesLeft
<1>4. asked \in Memories
  BY DEF Typed
<1>5. ASSUME Client,
             \A peer \in Peers, image \in Images : ~ImageRequest(peer, image)
      PROVE  UNCHANGED images /\ asked'.leaked = asked.leaked
  <2>1. ASSUME NEW list \in Lists, UserlistPut(list)
        PROVE  UNCHANGED images /\ asked'.leaked = asked.leaked
    BY <1>4, <2>1 DEF UserlistPut, AsksList, Memories
  <2>2. ASSUME UserlistGet PROVE UNCHANGED images /\ asked'.leaked = asked.leaked
    BY <1>4, <2>2 DEF UserlistGet, AsksList, Memories
  <2>3. ASSUME NEW list \in ContactLists, Notify(list)
        PROVE  UNCHANGED images /\ asked'.leaked = asked.leaked
    BY <1>4, <2>3 DEF Notify, Memories
  <2>4. ASSUME NEW uin \in Uins, NEW type \in {"ADD_NOTIFY", "REMOVE_NOTIFY"},
               AddOrRemoveNotify(uin, type)
        PROVE  UNCHANGED images /\ asked'.leaked = asked.leaked
    BY <1>4, <2>4 DEF AddOrRemoveNotify, Memories
  <2>5. ASSUME NEW seq \in Seqs, Pubdir50(seq)
        PROVE  UNCHANGED images /\ asked'.leaked = asked.leaked
    BY <1>4, <2>5 DEF Pubdir50, Memories
  <2> QED
    BY <1>5, <2>1, <2>2, <2>3, <2>4, <2>5 DEF Client
<1>6. ASSUME ServerTakes \/ (\E p \in Peers : PeerAnswers(p)) \/ Unasked \/ WatchEnd
             \/ WatchNothing \/ UNCHANGED vars
      PROVE  UNCHANGED images /\ asked'.leaked = asked.leaked
  <2>1. ASSUME NEW p \in Peers, PeerAnswers(p)
        PROVE  UNCHANGED images /\ asked'.leaked = asked.leaked
    BY <1>4, <2>1 DEF PeerAnswers, session, Memories
  <2> QED
    BY <1>6, <2>1 DEF ServerTakes, Unasked, WatchEnd, WatchNothing, session, vars
<1> QED
  BY <1>1, <1>2, <1>3, <1>5, <1>6 DEF Next, Watch

LEMMA InitNames == Init => NamesSound
<1> SUFFICES ASSUME Init PROVE NamesSound
  OBVIOUS
<1>1. \A p \in Peers : wire[p] = <<>>
  BY DEF Init, Sources
<1>2. Len(images) = 0 /\ asked.leaked = FALSE
  BY DEF Init
<1>3. \A p \in Peers : Unbroken(wire[p])
  BY <1>1 DEF Unbroken
<1> QED
  BY <1>2, <1>3 DEF NamesSound, WireUnbroken, EntriesAwait, NoneLost

\* The name of a transfer that is sent to its end stays until the image is reported:
\* gg_image_queue_parse() writes over a name only where a transfer was broken off
\* (events.c:216).
THEOREM NamesKept == Spec => []NamesAccounted
<1>1. Init => Typed /\ ImagesSound /\ NamesSound
  BY InitTyped, InitSound, InitNames
<1>2. Typed /\ ImagesSound /\ NamesSound /\ [Next]_vars => (Typed /\ ImagesSound /\ NamesSound)'
  BY NextTyped, NextSound, NextNames
<1>3. NamesSound => NamesAccounted
  BY DEF NamesSound, NoneLost, NamesAccounted
<1> QED
  BY <1>1, <1>2, <1>3, PTL DEF Spec

-----------------------------------------------------------------------------
(***************************************************************************)
(* ExportDone and ImportWhole: of all packets under way on one side, those *)
(* for a user list are a stretch of a script, in its order.                *)
(***************************************************************************)
NoLists(packets) == \A i \in 1..Len(packets) : packets[i].type \notin ListTypes

Follows(packets, script, from, to) ==
  \E at \in [1..Len(packets) + 1 -> 0..Len(script)] :
    /\ at[1] = from /\ at[Len(packets) + 1] = to
    /\ \A i, j \in 1..Len(packets) + 1 : i <= j => at[i] <= at[j]
    /\ \A i \in 1..Len(packets) :
         IF packets[i].type \in ListTypes
         THEN at[i + 1] = at[i] + 1 /\ packets[i] = script[at[i] + 1]
         ELSE at[i + 1] = at[i]

LEMMA FollowsBounds ==
  ASSUME NEW S, NEW p \in Seq(S), NEW T, NEW script \in Seq(T), NEW x, NEW y,
         Follows(p, script, x, y)
  PROVE  x \in 0..Len(script) /\ y \in 0..Len(script) /\ x <= y
<1>1. Len(p) \in Nat
  BY LenProperties
<1>2. 1 \in 1..Len(p) + 1 /\ Len(p) + 1 \in 1..Len(p) + 1 /\ 1 <= Len(p) + 1
  BY <1>1
<1> QED
  BY <1>2 DEF Follows

LEMMA FollowsOn ==
  ASSUME NEW S, NEW p \in Seq(S), NEW q \in Seq(S), NEW T, NEW script \in Seq(T),
         NEW x, NEW y, NEW z, Follows(p, script, x, y), Follows(q, script, y, z)
  PROVE  Follows(p \o q, script, x, z)
<1> DEFINE m == Len(p)
           n == Len(q)
           K == 0..Len(script)
<1>1. m \in Nat /\ n \in Nat
  BY LenProperties
<1>2. PICK at \in [1..m + 1 -> K] :
        /\ at[1] = x /\ at[m + 1] = y
        /\ \A i, j \in 1..m + 1 : i <= j => at[i] <= at[j]
        /\ \A i \in 1..m :
             IF p[i].type \in ListTypes
             THEN at[i + 1] = at[i] + 1 /\ p[i] = script[at[i] + 1]
             ELSE at[i + 1] = at[i]
  BY DEF Follows
<1>3. PICK on \in [1..n + 1 -> K] :
        /\ on[1] = y /\ on[n + 1] = z
        /\ \A i, j \in 1..n + 1 : i <= j => on[i] <= on[j]
        /\ \A i \in 1..n :
             IF q[i].type \in ListTypes
             THEN on[i + 1] = on[i] + 1 /\ q[i] = script[on[i] + 1]
             ELSE on[i + 1] = on[i]
  BY DEF Follows
<1>4. /\ Len(p \o q) = m + n
      /\ \A i \in 1..m + n : (p \o q)[i] = IF i <= m THEN p[i] ELSE q[i - m]
  BY ConcatProperties
<1>5. \A k \in K : k \in Nat
  BY LenProperties
<1> HIDE DEF m, n, K
<1> DEFINE way == [i \in 1..m + n + 1 |-> IF i <= m + 1 THEN at[i] ELSE on[i - m]]
<1>6. way \in [1..m + n + 1 -> K]
  BY <1>1, <1>2, <1>3
<1>7. /\ \A i \in 1..m + 1 : way[i] = at[i]
      /\ \A i \in m + 1 .. m + n + 1 : i - m \in 1..n + 1 /\ way[i] = on[i - m]
  <2>1. \A i \in 1..m + 1 : way[i] = at[i]
    BY <1>1
  <2>2. ASSUME NEW i \in m + 1 .. m + n + 1
        PROVE  i - m \in 1..n + 1 /\ way[i] = on[i - m]
    <3>1. i - m \in 1..n + 1 /\ i \in 1..m + n + 1
      BY <1>1
    <3>2. CASE i = m + 1
      <4>1. way[i] = at[m + 1] /\ i - m = 1
        BY <1>1, <3>2
      <4> QED
        BY <1>2, <1>3, <3>1, <4>1
    <3>3. CASE i # m + 1
      BY <1>1, <3>1, <3>3
    <3> QED
      BY <3>2, <3>3
  <2> QED
    BY <2>1, <2>2
<1> HIDE DEF way
<1>8. way[1] = x /\ way[m + n + 1] = z
  <2>1. 1 \in 1..m + 1 /\ m + n + 1 \in m + 1 .. m + n + 1 /\ (m + n + 1) - m = n + 1
    BY <1>1
  <2> QED
    BY <1>2, <1>3, <1>7, <2>1
<1>9. ASSUME NEW i \in 1..m + n + 1, NEW j \in 1..m + n + 1, i <= j
      PROVE  way[i] <= way[j]
  <2>1. CASE j <= m + 1
    <3>1. i \in 1..m + 1 /\ j \in 1..m + 1
      BY <1>1, <1>9, <2>1
    <3> QED
      BY <1>2, <1>7, <1>9, <3>1
  <2>2. CASE i > m + 1
    <3>1. i \in m + 1 .. m + n + 1 /\ j \in m + 1 .. m + n + 1 /\ i - m <= j - m
      BY <1>1, <1>9, <2>2
    <3> QED
      BY <1>3, <1>7, <3>1
  <2>3. CASE i <= m + 1 /\ j > m + 1
    <3>1. i \in 1..m + 1 /\ m + 1 \in 1..m + 1 /\ j \in m + 1 .. m + n + 1
      BY <1>1, <2>3
    <3>2. 1 \in 1..n + 1 /\ 1 <= j - m /\ j - m \in 1..n + 1
      BY <1>1, <2>3
    <3>3. at[i] <= y /\ y <= on[j - m]
      BY <1>2, <1>3, <2>3, <3>1, <3>2
    <3>4. at[i] \in Nat /\ y \in Nat /\ on[j - m] \in Nat
      BY <1>2, <1>3, <1>5, <3>1, <3>2, SMTT(30)
    <3> QED
      BY <1>7, <3>1, <3>3, <3>4
  <2> QED
    BY <1>1, <2>1, <2>2, <2>3
<1>10. ASSUME NEW i \in 1..m + n
       PROVE  IF (p \o q)[i].type \in ListTypes
              THEN way[i + 1] = way[i] + 1 /\ (p \o q)[i] = script[way[i] + 1]
              ELSE way[i + 1] = way[i]
  <2>1. CASE i <= m
    <3>1. i \in 1..m /\ i \in 1..m + 1 /\ i + 1 \in 1..m + 1
      BY <1>1, <2>1
    <3>2. (p \o q)[i] = p[i] /\ way[i] = at[i] /\ way[i + 1] = at[i + 1]
      BY <1>4, <1>7, <2>1, <3>1
    <3> QED
      BY <1>2, <3>1, <3>2
  <2>2. CASE ~(i <= m)
    <3>1. /\ i - m \in 1..n /\ (i + 1) - m = (i - m) + 1
          /\ i \in m + 1 .. m + n + 1 /\ i + 1 \in m + 1 .. m + n + 1
      BY <1>1, <2>2
    <3>2. (p \o q)[i] = q[i - m] /\ way[i] = on[i - m] /\ way[i + 1] = on[(i - m) + 1]
      <4>1. (p \o q)[i] = q[i - m]
        BY <1>4, <2>2
      <4>2. way[i] = on[i - m] /\ way[i + 1] = on[(i + 1) - m]
        BY <1>7, <3>1
      <4> QED
        BY <3>1, <4>1, <4>2
    <3> QED
      BY <1>3, <3>1, <3>2
  <2> QED
    BY <2>1, <2>2
<1>11. Len(p \o q) + 1 = m + n + 1
  BY <1>1, <1>4
<1> QED
  BY <1>4, <1>6, <1>8, <1>9, <1>10, <1>11, ZenonT(40) DEF Follows, K

LEMMA FollowsRest ==
  ASSUME NEW S, NEW p \in Seq(S), p # <<>>, NEW T, NEW script \in Seq(T),
         NEW x, NEW z, Follows(p, script, x, z)
  PROVE  IF Head(p).type \in ListTypes
         THEN /\ Follows(Tail(p), script, x + 1, z) /\ Head(p) = script[x + 1]
              /\ x + 1 \in 1..Len(script) /\ x + 1 <= z
         ELSE Follows(Tail(p), script, x, z)
<1> DEFINE m == Len(p)
           q == Tail(p)
           K == 0..Len(script)
<1>1. /\ m \in Nat \ {0} /\ Len(q) = m - 1 /\ Head(p) = p[1] /\ q \in Seq(S)
      /\ \A i \in 1..m - 1 : q[i] = p[i + 1]
  BY HeadOf
<1>2. PICK at \in [1..m + 1 -> K] :
        /\ at[1] = x /\ at[m + 1] = z
        /\ \A i, j \in 1..m + 1 : i <= j => at[i] <= at[j]
        /\ \A i \in 1..m :
             IF p[i].type \in ListTypes
             THEN at[i + 1] = at[i] + 1 /\ p[i] = script[at[i] + 1]
             ELSE at[i + 1] = at[i]
  BY DEF Follows
<1> HIDE DEF m, q, K
<1> DEFINE way == [i \in 1..m |-> at[i + 1]]
<1>3. way \in [1..Len(q) + 1 -> K]
  BY <1>1, <1>2
<1>4. way[1] = at[2] /\ way[Len(q) + 1] = z
  BY <1>1, <1>2
<1>5. ASSUME NEW i \in 1..Len(q) + 1, NEW j \in 1..Len(q) + 1, i <= j
      PROVE  way[i] <= way[j]
  <2>1. i \in 1..m /\ j \in 1..m /\ i + 1 \in 1..m + 1 /\ j + 1 \in 1..m + 1 /\ i + 1 <= j + 1
    BY <1>1, <1>5
  <2> QED
    BY <1>2, <2>1
<1>6. ASSUME NEW i \in 1..Len(q)
      PROVE  IF q[i].type \in ListTypes
             THEN way[i + 1] = way[i] + 1 /\ q[i] = script[way[i] + 1]
             ELSE way[i + 1] = way[i]
  <2>1. i \in 1..m - 1 /\ i + 1 \in 1..m /\ i \in 1..m
    BY <1>1
  <2>2. way[i + 1] = at[(i + 1) + 1] /\ way[i] = at[i + 1] /\ q[i] = p[i + 1]
    BY <1>1, <2>1
  <2> QED
    BY <1>2, <2>1, <2>2
<1> HIDE DEF way
<1>7. Follows(q, script, at[2], z)
  BY <1>3, <1>4, <1>5, <1>6 DEF Follows, K
<1>8. IF p[1].type \in ListTypes
      THEN at[2] = x + 1 /\ p[1] = script[x + 1]
      ELSE at[2] = x
  <2>1. 1 \in 1..m /\ 1 + 1 = 2
    BY <1>1
  <2> QED
    BY <1>2, <2>1
<1>9. at[2] \in 0..Len(script) /\ at[2] <= z
  BY <1>1, <1>7, FollowsBounds
<1>10. x \in 0..Len(script)
  BY FollowsBounds
<1>11. x + 1 = at[2] => x + 1 \in 1..Len(script)
  BY <1>9, <1>10
<1> QED
  BY <1>1, <1>7, <1>8, <1>9, <1>11 DEF q

LEMMA FollowsBack ==
  ASSUME NEW S, NEW p \in Seq(S), NEW T, NEW script \in Seq(T), NEW x \in 0..Len(script),
         NoLists(p)
  PROVE  Follows(p, script, x, x)
<1>1. Len(p) \in Nat /\ Len(script) \in Nat
  BY LenProperties
<1> DEFINE at == [i \in 1..Len(p) + 1 |-> x]
<1>2. /\ at \in [1..Len(p) + 1 -> 0..Len(script)]
      /\ at[1] = x /\ at[Len(p) + 1] = x
      /\ \A i \in 1..Len(p) + 1 : at[i] = x
      /\ \A i \in 1..Len(p) : at[i] = x /\ at[i + 1] = x
  BY <1>1
<1>3. \A i, j \in 1..Len(p) + 1 : i <= j => at[i] <= at[j]
  BY <1>1, <1>2
<1> HIDE DEF at
<1> QED
  BY <1>2, <1>3 DEF Follows, NoLists

LEMMA FollowsEnd ==
  ASSUME NEW S, NEW p \in Seq(S), NEW T, NEW script \in Seq(T), NEW x,
         Follows(p, script, x, x)
  PROVE  NoLists(p)
<1>1. Len(p) \in Nat /\ Len(script) \in Nat
  BY LenProperties
<1>2. PICK at \in [1..Len(p) + 1 -> 0..Len(script)] :
        /\ at[1] = x /\ at[Len(p) + 1] = x
        /\ \A i, j \in 1..Len(p) + 1 : i <= j => at[i] <= at[j]
        /\ \A i \in 1..Len(p) :
             IF p[i].type \in ListTypes
             THEN at[i + 1] = at[i] + 1 /\ p[i] = script[at[i] + 1]
             ELSE at[i + 1] = at[i]
  BY DEF Follows
<1>3. ASSUME NEW i \in 1..Len(p), p[i].type \in ListTypes
      PROVE  FALSE
  <2>1. i \in 1..Len(p) + 1 /\ i + 1 \in 1..Len(p) + 1 /\ 1 \in 1..Len(p) + 1
        /\ Len(p) + 1 \in 1..Len(p) + 1 /\ 1 <= i /\ i + 1 <= Len(p) + 1
    BY <1>1
  <2>2. x <= at[i] /\ at[i + 1] <= x /\ at[i + 1] = at[i] + 1
    BY <1>2, <1>3, <2>1
  <2>3. x \in Nat /\ at[i] \in Nat
    BY <1>1, <1>2, <2>1
  <2> QED
    BY <2>2, <2>3
<1> QED
  BY <1>3 DEF NoLists

LEMMA FollowsScript ==
  ASSUME NEW T, NEW script \in Seq(T), NEW n \in 0..Len(script),
         \A i \in 1..Len(script) : script[i].type \in ListTypes
  PROVE  Follows(SubSeq(script, 1, n), script, 0, n)
<1>1. Len(script) \in Nat
  BY LenProperties
<1> DEFINE p == SubSeq(script, 1, n)
           at == [i \in 1..n + 1 |-> i - 1]
<1>2. Len(p) = n /\ \A i \in 1..n : p[i] = script[i]
  BY FirstPart
<1>3. /\ at \in [1..n + 1 -> 0..Len(script)]
      /\ at[1] = 0 /\ at[n + 1] = n
      /\ \A i, j \in 1..n + 1 : i <= j => at[i] <= at[j]
      /\ \A i \in 1..n : at[i + 1] = at[i] + 1 /\ at[i] + 1 = i
  BY <1>1
<1> HIDE DEF p, at
<1>4. \A i \in 1..n : p[i].type \in ListTypes /\ p[i] = script[at[i] + 1]
  BY <1>1, <1>2, <1>3
<1>5. /\ at \in [1..Len(p) + 1 -> 0..Len(script)]
      /\ at[1] = 0 /\ at[Len(p) + 1] = n
      /\ \A i, j \in 1..Len(p) + 1 : i <= j => at[i] <= at[j]
  BY <1>2, <1>3
<1>6. \A i \in 1..Len(p) : IF p[i].type \in ListTypes
                           THEN at[i + 1] = at[i] + 1 /\ p[i] = script[at[i] + 1]
                           ELSE at[i + 1] = at[i]
  BY <1>2, <1>3, <1>4
<1>7. Follows(p, script, 0, n)
  BY <1>5, <1>6, Zenon DEF Follows
<1> QED
  BY <1>7 DEF p

LEMMA NoListsOn ==
  ASSUME NEW S, NEW p \in Seq(S), NEW q \in Seq(S), NoLists(p), NoLists(q)
  PROVE  NoLists(p \o q)
<1>1. /\ Len(p) \in Nat /\ Len(q) \in Nat /\ Len(p \o q) = Len(p) + Len(q)
      /\ \A i \in 1..Len(p) + Len(q) : (p \o q)[i] = IF i <= Len(p) THEN p[i] ELSE q[i - Len(p)]
  BY LenProperties, ConcatProperties
<1> SUFFICES ASSUME NEW i \in 1..Len(p) + Len(q)
             PROVE  (p \o q)[i].type \notin ListTypes
  BY <1>1 DEF NoLists
<1>2. CASE i <= Len(p)
  BY <1>1, <1>2 DEF NoLists
<1>3. CASE ~(i <= Len(p))
  <2>1. i - Len(p) \in 1..Len(q)
    BY <1>1, <1>3
  <2> QED
    BY <1>1, <1>3, <2>1 DEF NoLists
<1> QED
  BY <1>2, <1>3

LEMMA NoListsRest ==
  ASSUME NEW S, NEW p \in Seq(S), p # <<>>, NoLists(p)
  PROVE  NoLists(Tail(p)) /\ Head(p).type \notin ListTypes
<1>1. /\ Len(p) \in Nat \ {0} /\ Len(Tail(p)) = Len(p) - 1 /\ Head(p) = p[1]
      /\ \A i \in 1..Len(p) - 1 : Tail(p)[i] = p[i + 1]
  BY HeadOf
<1>2. \A i \in 1..Len(p) - 1 : i + 1 \in 1..Len(p)
  BY <1>1
<1>3. 1 \in 1..Len(p)
  BY <1>1
<1> QED
  BY <1>1, <1>2, <1>3 DEF NoLists

LEMMA NoListsOne ==
  ASSUME NEW S, NEW packet \in S, packet.type \notin ListTypes
  PROVE  <<packet>> \in Seq(S) /\ NoLists(<<packet>>)
<1>1. Len(<<packet>>) = 1 /\ <<packet>>[1] = packet
  OBVIOUS
<1> QED
  BY <1>1 DEF NoLists

-----------------------------------------------------------------------------
Script == ListRequests \cup ListReplies
Asking == <<[type |-> "USERLIST_GET"]>>
Puts == [type : {"USERLIST_PUT", "USERLIST_PUT_MORE"}, data : Seq(Nat)]
PutReply(packet) ==
  UserlistReply(IF packet.type = "USERLIST_PUT" THEN "PUT_REPLY" ELSE "PUT_MORE_REPLY", <<>>)
PutReplies(script) == [k \in 1..Len(script) |-> PutReply(script[k])]

\* What the first k blocks of a list hold.
Got(list, k) == SubSeq(list, 1, Reach(list, ListBlock, k))

\* No request for a user list is under way or being answered.
Idle == userlistReply = <<>> /\ NoLists(toServer) /\ NoLists(wire["server"])

\* Of the blocks of the list some or all were sent, the script; the server has taken
\* the first of those, and we have taken the replies to some of them.  As many
\* replies are waited for as there are blocks or, if not all were sent, more than
\* can come.
PutAt(list, script, counted, kept, taken) ==
  /\ Follows(toServer, script, kept, Len(script))
  /\ Follows(wire["server"], PutReplies(script), taken, kept)
  /\ \/ script = UserlistPackets(list) /\ counted = Len(script)
        /\ (kept > 0 => stored = Got(list, kept))
     \/ counted > Len(script)
  /\ taken < counted /\ userlistBlocks = counted - taken
  /\ userlistReply = <<>>

Putting ==
  \E script \in Seq(Puts), counted, kept, taken \in Nat :
    PutAt(asked.list, script, counted, kept, taken)

\* The request for the server's list was sent or not and answered or not; of the
\* answer we have taken, and joined, the first parts.
GetAt(sent, answered, taken) ==
  /\ Follows(toServer, Asking, answered, sent)
  /\ Follows(wire["server"], UserlistParts(stored), taken,
             IF answered = 0 THEN 0 ELSE Len(UserlistParts(stored)))
  /\ userlistReply = Got(stored, taken)

Getting == \E sent, answered, taken \in Nat : GetAt(sent, answered, taken)

RequestSound ==
  /\ asked.request = "none" => Idle
  /\ asked.request = "put" => Putting
  /\ asked.request = "get" => Getting

ListsSound == (~asked.overlap => RequestSound) /\ ExportDone /\ ImportWhole

LEMMA GotOf ==
  ASSUME NEW list \in Seq(Nat)
  PROVE  LET n == Len(UserlistBlocks(list))
         IN  /\ n \in Nat \ {0}
             /\ Got(list, 0) = <<>> /\ Got(list, n) = list
             /\ \A k \in 0..n : Got(list, k) \in Seq(Nat)
             /\ \A k \in 1..n : Got(list, k - 1) \o UserlistBlocks(list)[k] = Got(list, k)
                                /\ UserlistBlocks(list)[k] \in Seq(Nat)
<1>1. LET blocks == UserlistBlocks(list)
          m == Len(blocks)
      IN  blocks \in Seq(Seq(Nat)) /\ DOMAIN blocks = 1..m
  BY BlocksOf
<1>2. \A k \in 1..Len(UserlistBlocks(list)) : UserlistBlocks(list)[k] \in Seq(Nat)
  BY <1>1, ElementOfSeq
<1> QED
  BY <1>2, BlocksOf DEF Got

LEMMA PutScripts ==
  ASSUME NEW script \in Seq(Puts)
  PROVE  /\ script \in Seq(Script) /\ Len(script) \in Nat
         /\ PutReplies(script) \in Seq(Script) /\ Len(PutReplies(script)) = Len(script)
         /\ \A k \in 1..Len(script) :
              /\ PutReplies(script)[k] = PutReply(script[k])
              /\ script[k] \in Puts /\ PutReply(script[k]) \in ListReplies
<1> DEFINE n == Len(script)
<1>1. n \in Nat /\ \A k \in 1..n : script[k] \in Puts
  BY ElementOfSeq, LenProperties
<1>2. \A k \in 1..n : PutReply(script[k]) \in ListReplies
  BY DEF PutReply, ListReplies, UserlistReply
<1>3. PutReplies(script) = [k \in 1..n |-> PutReply(script[k])]
  BY DEF PutReplies
<1>4. PutReplies(script) \in [1..n -> Script]
  BY <1>2, <1>3 DEF Script
<1>5. PutReplies(script) \in Seq(Script) /\ Len(PutReplies(script)) = n
  BY <1>1, <1>4, FunctionIsSeq
<1>6. script \in Seq(Script)
  BY SeqMonotonic DEF Script, ListRequests, Puts
<1> QED
  BY <1>1, <1>2, <1>3, <1>5, <1>6

LEMMA PutsOf ==
  ASSUME NEW list \in Seq(Nat)
  PROVE  UserlistPackets(list) \in Seq(Puts)
<1> DEFINE packets == UserlistPackets(list)
<1>1. /\ packets \in Seq(ListRequests)
      /\ \A k \in 1..Len(packets) : packets[k].type \in {"USERLIST_PUT", "USERLIST_PUT_MORE"}
  BY UserlistPacketsType
<1>2. Len(packets) \in Nat /\ packets \in [1..Len(packets) -> ListRequests]
  BY <1>1, LenProperties
<1> HIDE DEF packets
<1>3. \A k \in 1..Len(packets) : packets[k] \in Puts
  BY <1>1, <1>2 DEF ListRequests, Puts
<1>4. packets \in [1..Len(packets) -> Puts]
  BY <1>2, <1>3
<1> QED
  BY <1>2, <1>4, FunctionIsSeq DEF packets

LEMMA Scripts ==
  ASSUME NEW list \in Seq(Nat)
  PROVE  LET n == Len(UserlistBlocks(list))
         IN  /\ UserlistPackets(list) \in Seq(Puts) /\ Len(UserlistPackets(list)) = n
             /\ UserlistParts(list) \in Seq(Script) /\ Len(UserlistParts(list)) = n
             /\ Asking \in Seq(Script) /\ Len(Asking) = 1 /\ Asking[1] = [type |-> "USERLIST_GET"]
<1> DEFINE n == Len(UserlistBlocks(list))
<1>1. UserlistPackets(list) \in Seq(Puts) /\ Len(UserlistPackets(list)) = n
  BY UserlistPacketsType, PutsOf DEF n
<1>2. UserlistParts(list) \in Seq(Script) /\ Len(UserlistParts(list)) = n
  BY UserlistPartsType, SeqMonotonic DEF Script, n
<1>3. Asking \in Seq(Script) /\ Len(Asking) = 1 /\ Asking[1] = [type |-> "USERLIST_GET"]
  BY DEF Asking, Script, ListRequests
<1> QED
  BY <1>1, <1>2, <1>3 DEF n

LEMMA ScriptTypes ==
  ASSUME NEW packet \in Script
  PROVE  packet.type \in ListTypes
BY DEF Script, ListRequests, ListReplies, ListTypes

\* What comes or goes without a user list changes nothing about the lists.
Alike(p, q) ==
  /\ NoLists(p) => NoLists(q)
  /\ \A script \in Seq(Script), x \in Nat, y \in Nat :
       Follows(p, script, x, y) => Follows(q, script, x, y)

LEMMA AlikeOn ==
  ASSUME NEW S, NEW p \in Seq(S), NEW q \in Seq(S), NoLists(q)
  PROVE  Alike(p, p \o q)
<1>1. ASSUME NEW script \in Seq(Script), NEW x \in Nat, NEW y \in Nat, Follows(p, script, x, y)
      PROVE  Follows(p \o q, script, x, y)
  <2>1. y \in 0..Len(script)
    BY <1>1, FollowsBounds
  <2>2. Follows(q, script, y, y)
    BY <2>1, FollowsBack
  <2> QED
    BY <1>1, <2>2, FollowsOn
<1> QED
  BY <1>1, NoListsOn DEF Alike

LEMMA AlikeRest ==
  ASSUME NEW S, NEW p \in Seq(S), p # <<>>, Head(p).type \notin ListTypes
  PROVE  Alike(p, Tail(p))
BY FollowsRest, NoListsRest DEF Alike

LEMMA OthersListed ==
  ASSUME Typed, ListsSound, Alike(toServer, toServer'), Alike(wire["server"], wire["server"]'),
         UNCHANGED <<userlistBlocks, userlistReply, stored, asked.list, asked.request,
                     asked.overlap>>,
         last'.type # "USERLIST"
  PROVE  ListsSound'
<1>1. ExportDone' /\ ImportWhole'
  BY DEF ExportDone, ImportWhole
<1> SUFFICES ASSUME ~asked.overlap PROVE RequestSound'
  BY <1>1 DEF ListsSound
<1>2. RequestSound
  BY DEF ListsSound
<1>3. stored \in Seq(Nat) /\ asked.list \in Seq(Nat)
  BY DEF Typed, Memories
<1>4. ASSUME Idle PROVE Idle'
  BY <1>4 DEF Idle, Alike
<1>5. ASSUME Putting PROVE Putting'
  <2>1. PICK script \in Seq(Puts), counted, kept, taken \in Nat :
          PutAt(asked.list, script, counted, kept, taken)
    BY <1>5 DEF Putting
  <2>2. script \in Seq(Script) /\ PutReplies(script) \in Seq(Script) /\ Len(script) \in Nat
    BY PutScripts
  <2>3. Follows(toServer', script, kept, Len(script))
    BY <2>1, <2>2 DEF Alike, PutAt
  <2>4. Follows(wire["server"]', PutReplies(script), taken, kept)
    BY <2>1, <2>2 DEF Alike, PutAt
  <2>5. PutAt(asked.list, script, counted, kept, taken)'
    BY <2>1, <2>3, <2>4 DEF PutAt
  <2> QED
    BY <2>5 DEF Putting
<1>6. ASSUME Getting PROVE Getting'
  <2>1. PICK sent, answered, taken \in Nat : GetAt(sent, answered, taken)
    BY <1>6 DEF Getting
  <2>2. UserlistParts(stored) \in Seq(Script) /\ Asking \in Seq(Script)
        /\ Len(UserlistParts(stored)) \in Nat
    BY <1>3, Scripts, LenProperties
  <2> DEFINE to == IF answered = 0 THEN 0 ELSE Len(UserlistParts(stored))
  <2>3. to \in Nat
    BY <2>2
  <2>4. Follows(toServer', Asking, answered, sent)
    BY <2>1, <2>2 DEF Alike, GetAt
  <2>5. Follows(wire["server"], UserlistParts(stored), taken, to)
    BY <2>1 DEF GetAt
  <2>6. Follows(wire["server"]', UserlistParts(stored), taken, to)
    <3> HIDE DEF to
    <3> QED
      BY <2>2, <2>3, <2>5 DEF Alike
  <2>7. GetAt(sent, answered, taken)'
    BY <2>1, <2>4, <2>6 DEF GetAt
  <2> QED
    BY <2>7 DEF Getting
<1> QED
  BY <1>2, <1>4, <1>5, <1>6 DEF RequestSound


LEMMA UserlistPutListed ==
  ASSUME Typed, ListsSound, NEW list \in Lists, UserlistPut(list)
  PROVE  ListsSound'
<1>1. list \in Seq(Nat)
  BY ListsAssumption
<1> DEFINE packets == UserlistPackets(list)
<1>2. packets \in Seq(Puts) /\ packets \in Seq(ForServer) /\ Len(packets) \in Nat \ {0}
  BY <1>1, Scripts, UserlistPacketsType
<1>3. PICK fate \in Fates(Len(packets)) :
        /\ Called("userlist", fate.res)
        /\ Sends(packets, fate)
        /\ userlistBlocks' = BlocksCounted(fate)
        /\ asked' = [AsksList(asked, "put") EXCEPT !.list = list]
        /\ UNCHANGED <<userlistReply, images>>
  BY DEF UserlistPut
<1> HIDE DEF packets
<1> DEFINE script == Picked(packets, fate.through)
<1>4. /\ last'.type = "call" /\ wire' = wire /\ stored' = stored
      /\ toServer' = toServer \o script
  BY <1>3 DEF Called, Sends, farEnd
<1>5. ExportDone' /\ ImportWhole'
  BY <1>4 DEF ExportDone, ImportWhole
<1> SUFFICES ASSUME ~asked'.overlap PROVE RequestSound'
  BY <1>5 DEF ListsSound
<1>6. /\ asked'.request = "put" /\ asked'.list = list
      /\ asked.request = "none" /\ ~asked.overlap
  BY <1>3 DEF AsksList, Typed, Memories
<1>7. Idle
  BY <1>6 DEF ListsSound, RequestSound
<1>8. /\ script \in Seq(Puts) /\ script \in Seq(ForServer)
      /\ fate.tried \in 1..Len(packets)
      /\ fate.through = DOMAIN packets => script = packets /\ fate.tried = Len(packets)
      /\ fate.through # DOMAIN packets => Len(script) < fate.tried
  BY <1>2, SentOf
<1> HIDE DEF script
<1>9. /\ script \in Seq(Script) /\ PutReplies(script) \in Seq(Script)
      /\ Len(script) \in Nat /\ Len(PutReplies(script)) = Len(script)
  BY <1>8, PutScripts
<1>10. Follows(toServer', script, 0, Len(script))
  <2>1. toServer \in Seq(ForServer) /\ 0 \in 0..Len(script) /\ Len(script) \in 0..Len(script)
    BY <1>9 DEF Typed
  <2>2. Follows(toServer, script, 0, 0)
    BY <1>7, <1>9, <2>1, FollowsBack DEF Idle
  <2>3. \A i \in 1..Len(script) : script[i].type \in ListTypes
    BY <1>9, ScriptTypes, ElementOfSeq
  <2>4. SubSeq(script, 1, Len(script)) = script
    BY <1>9, SubSeqFull
  <2>5. Follows(script, script, 0, Len(script))
    BY <1>9, <2>1, <2>3, <2>4, FollowsScript
  <2> QED
    BY <1>4, <1>8, <1>9, <2>1, <2>2, <2>5, FollowsOn
<1>11. Follows(wire'["server"], PutReplies(script), 0, 0)
  <2>1. wire["server"] \in Seq(FromServer) /\ 0 \in 0..Len(PutReplies(script))
    BY <1>9 DEF Typed, WireTyped
  <2> QED
    BY <1>4, <1>7, <1>9, <2>1, FollowsBack DEF Idle
<1>12. /\ userlistBlocks' = fate.tried /\ fate.tried \in Nat /\ 0 < fate.tried
       /\ \/ script = UserlistPackets(list) /\ fate.tried = Len(script)
          \/ fate.tried > Len(script)
  BY <1>2, <1>3, <1>8, <1>9 DEF BlocksCounted, packets
<1>13. PutAt(list, script, fate.tried, 0, 0)'
  <2>1. userlistReply' = <<>>
    BY <1>3, <1>7 DEF Idle
  <2>2. fate.tried - 0 = fate.tried /\ ~(0 > 0)
    BY <1>12
  <2> QED
    BY <1>10, <1>11, <1>12, <2>1, <2>2 DEF PutAt
<1>14. Putting'
  BY <1>6, <1>8, <1>12, <1>13 DEF Putting
<1> QED
  BY <1>6, <1>14 DEF RequestSound

LEMMA UserlistGetListed ==
  ASSUME Typed, ListsSound, UserlistGet
  PROVE  ListsSound'
<1>1. stored \in Seq(Nat)
  BY DEF Typed
<1>2. PICK fate \in Fates(1) :
        /\ Called("userlist", fate.res)
        /\ Sends(Asking, fate)
        /\ asked' = AsksList(asked, "get")
        /\ UNCHANGED <<userlistReply, images>>
  BY DEF UserlistGet, Asking
<1> DEFINE got == Cardinality(fate.through)
<1>3. /\ last'.type = "call" /\ wire' = wire /\ stored' = stored
      /\ toServer' = toServer \o Picked(Asking, fate.through)
  BY <1>2 DEF Called, Sends, farEnd
<1>4. ExportDone' /\ ImportWhole'
  BY <1>3 DEF ExportDone, ImportWhole
<1> SUFFICES ASSUME ~asked'.overlap PROVE RequestSound'
  BY <1>4 DEF ListsSound
<1>5. asked'.request = "get" /\ asked.request = "none" /\ ~asked.overlap
  BY <1>2 DEF AsksList, Typed, Memories
<1>6. Idle
  BY <1>5 DEF ListsSound, RequestSound
<1>7. /\ Asking \in Seq(Script) /\ Asking \in Seq(ForServer) /\ Len(Asking) = 1
      /\ \/ got = 1 /\ Picked(Asking, fate.through) = Asking
         \/ got = 0 /\ Picked(Asking, fate.through) = <<>>
  BY <1>1, Scripts, SentOne DEF Asking, ForServer, ListRequests
<1> HIDE DEF got
<1>8. Follows(toServer', Asking, 0, got)
  <2>1. toServer \in Seq(ForServer) /\ 0 \in 0..Len(Asking)
    BY <1>7 DEF Typed
  <2>2. Follows(toServer, Asking, 0, 0)
    BY <1>6, <1>7, <2>1, FollowsBack DEF Idle
  <2> HIDE DEF Asking
  <2>3. CASE got = 0 /\ Picked(Asking, fate.through) = <<>>
    BY <1>3, <2>1, <2>2, <2>3, ConcatEmptySeq
  <2>4. CASE got = 1 /\ Picked(Asking, fate.through) = Asking
    <3>1. \A i \in 1..Len(Asking) : Asking[i].type \in ListTypes
      BY <1>7, ScriptTypes, ElementOfSeq
    <3>2. SubSeq(Asking, 1, 1) = Asking /\ 1 \in 0..Len(Asking)
      BY <1>7, SubSeqFull
    <3>3. Follows(Asking, Asking, 0, 1)
      BY <1>7, <3>1, <3>2, FollowsScript
    <3> QED
      BY <1>3, <1>7, <2>1, <2>2, <2>4, <3>3, FollowsOn
  <2> QED
    BY <1>7, <2>3, <2>4
<1>9. Follows(wire'["server"], UserlistParts(stored'), 0, 0)
  <2>1. UserlistParts(stored) \in Seq(Script) /\ Len(UserlistParts(stored)) \in Nat
    BY <1>1, Scripts, LenProperties
  <2>2. wire["server"] \in Seq(FromServer) /\ 0 \in 0..Len(UserlistParts(stored))
    BY <2>1 DEF Typed, WireTyped
  <2> QED
    BY <1>3, <1>6, <2>1, <2>2, FollowsBack DEF Idle
<1>10. userlistReply' = Got(stored', 0)
  BY <1>1, <1>2, <1>3, <1>6, GotOf DEF Idle
<1>11. GetAt(got, 0, 0)'
  BY <1>8, <1>9, <1>10 DEF GetAt
<1>12. Getting'
  <2>1. got \in Nat
    BY <1>7
  <2> QED
    BY <1>11, <2>1 DEF Getting
<1> QED
  BY <1>5, <1>12 DEF RequestSound

LEMMA ClientListed ==
  ASSUME Typed, Typed', ListsSound, Client
  PROVE  ListsSound'
<1>1. UNCHANGED <<wire, stored>> /\ asked \in Memories /\ toServer \in Seq(ForServer)
  BY ClientCalls DEF Typed
<1>2. ASSUME NEW packets \in Seq(ForServer), NEW fate \in Fates(Len(packets)),
             Sends(packets, fate), NoLists(packets), NEW call, NEW said,
             Called(call, said),
             UNCHANGED <<userlistBlocks, userlistReply, asked.list, asked.request, asked.overlap>>
      PROVE  ListsSound'
  <2> DEFINE sent == Picked(packets, fate.through)
  <2>1. /\ sent \in Seq(ForServer) /\ Len(sent) = Cardinality(fate.through)
        /\ \A k \in 1..Cardinality(fate.through) :
             \E j \in 1..Len(packets) : sent[k] = packets[j]
    BY <1>2, SentOf
  <2>2. toServer' = toServer \o sent /\ last'.type = "call"
    BY <1>2 DEF Sends, Called
  <2> HIDE DEF sent
  <2>5. NoLists(sent)
    BY <1>2, <2>1 DEF NoLists
  <2>3. Alike(toServer, toServer')
    BY <1>1, <2>1, <2>2, <2>5, AlikeOn
  <2>4. Alike(wire["server"], wire["server"]')
    BY <1>1 DEF Alike
  <2> QED
    BY <1>1, <1>2, <2>2, <2>3, <2>4, OthersListed
<1>3. ASSUME NEW peer \in Peers, NEW image \in Images, ImageRequest(peer, image)
      PROVE  ListsSound'
  <2> DEFINE packet == [type |-> "SEND_MSG", to |-> peer, image |-> image]
  <2>1. PICK fate \in Fates(1) :
          /\ Called("image", fate.res) /\ Sends(<<packet>>, fate)
          /\ asked' = [asked EXCEPT !.images[peer] = @ + Cardinality(fate.through)]
          /\ UNCHANGED <<userlistBlocks, userlistReply>>
    BY <1>3 DEF ImageRequest
  <2>2. packet \in ForServer /\ packet.type \notin ListTypes
    BY DEF ForServer, ImageRequests, ListTypes
  <2> HIDE DEF packet
  <2>3. UNCHANGED <<asked.list, asked.request, asked.overlap>>
    BY <1>1, <2>1 DEF Memories
  <2>4. fate \in Fates(Len(<<packet>>))
    BY <2>2, NoNotes
  <2> QED
    BY <1>2, <2>1, <2>2, <2>3, <2>4, NoListsOne
<1>4. ASSUME NEW list \in ContactLists, Notify(list) PROVE ListsSound'
  <2>1. list \in Seq(Nat)
    BY ListsAssumption
  <2> DEFINE packets == NotifyPackets(list)
  <2>2. packets \in Seq(ForServer) /\ NoLists(packets)
    <3>1. packets \in Seq(ForServer) /\ packets \in Seq(NoteRequests)
      BY <2>1, NotifyPacketsType
    <3>2. \A i \in 1..Len(packets) : packets[i] \in NoteRequests
      BY <3>1, ElementOfSeq
    <3> HIDE DEF packets
    <3>3. \A i \in 1..Len(packets) : packets[i].type \notin ListTypes
      BY <3>2 DEF NoteRequests, NoteTypes, ListTypes
    <3> QED
      BY <3>1, <3>3 DEF NoLists
  <2>3. PICK fate \in Fates(Len(packets)) :
          /\ Called("notify", fate.res) /\ Sends(packets, fate)
          /\ asked' = [asked EXCEPT !.contacts = ToSet(list)]
          /\ UNCHANGED <<userlistBlocks, userlistReply, images>>
    BY <1>4 DEF Notify
  <2> HIDE DEF packets
  <2>4. UNCHANGED <<asked.list, asked.request, asked.overlap>>
    BY <1>1, <2>3 DEF Memories
  <2> QED
    BY <1>2, <2>2, <2>3, <2>4
<1>5. ASSUME NEW uin \in Uins, NEW type \in {"ADD_NOTIFY", "REMOVE_NOTIFY"},
             AddOrRemoveNotify(uin, type)
      PROVE  ListsSound'
  <2> DEFINE packet == [type |-> type, data |-> <<uin>>]
  <2>1. PICK fate \in Fates(1) :
          /\ Called("notify", fate.res) /\ Sends(<<packet>>, fate)
          /\ asked' = [asked EXCEPT !.contacts = IF type = "ADD_NOTIFY" THEN @ \cup {uin}
                                                 ELSE @ \ {uin}]
          /\ UNCHANGED <<userlistBlocks, userlistReply, images>>
    BY <1>5 DEF AddOrRemoveNotify
  <2>2. packet \in ForServer /\ packet.type \notin ListTypes
    <3>1. uin \in Nat
      BY ListsAssumption
    <3>2. <<uin>> \in Seq(Nat)
      BY <3>1
    <3> QED
      BY <3>2 DEF NoteRequests, NoteTypes, ForServer, ListTypes
  <2> HIDE DEF packet
  <2>3. UNCHANGED <<asked.list, asked.request, asked.overlap>>
    BY <1>1, <2>1 DEF Memories
  <2>4. fate \in Fates(Len(<<packet>>))
    BY <2>2, NoNotes
  <2> QED
    BY <1>2, <2>1, <2>2, <2>3, <2>4, NoListsOne
<1>6. ASSUME NEW seq \in Seqs, Pubdir50(seq) PROVE ListsSound'
  <2>1. PICK clock \in Clocks, fate \in Fates(1) :
          LET sent == IF seq # 0 THEN seq ELSE clock[2]
          IN  /\ Called("search", IF fate.res = -1 THEN 0 ELSE clock[1])
              /\ Sends(<<[type |-> "PUBDIR50_REQUEST", seq |-> sent]>>, fate)
              /\ asked' = [asked EXCEPT !.searches = @ + Cardinality(fate.through),
                                        !.numbers = IF fate.res = 0 THEN @ \cup {clock[1]} ELSE @]
              /\ UNCHANGED <<userlistBlocks, userlistReply, images>>
    BY <1>6 DEF Pubdir50
  <2> DEFINE sent == IF seq # 0 THEN seq ELSE clock[2]
             packet == [type |-> "PUBDIR50_REQUEST", seq |-> sent]
             said == IF fate.res = -1 THEN 0 ELSE clock[1]
  <2>2. packet \in ForServer /\ packet.type \notin ListTypes
    <3>1. sent \in Numbers
      BY DEF Numbers
    <3> HIDE DEF sent
    <3> QED
      BY <3>1 DEF ForServer, Searches, ListTypes
  <2>3. Sends(<<packet>>, fate) /\ Called("search", said)
        /\ UNCHANGED <<userlistBlocks, userlistReply>>
    BY <2>1
  <2> HIDE DEF packet, said
  <2>4. UNCHANGED <<asked.list, asked.request, asked.overlap>>
    BY <1>1, <2>1 DEF Memories
  <2>5. fate \in Fates(Len(<<packet>>))
    BY <2>2, NoNotes
  <2> QED
    BY <1>2, <2>2, <2>3, <2>4, <2>5, NoListsOne
<1> QED
  BY <1>3, <1>4, <1>5, <1>6, UserlistPutListed, UserlistGetListed DEF Client


LEMMA ServerStoresListed ==
  ASSUME Typed, ListsSound, ServerTakes, ServerStores(Head(toServer))
  PROVE  ListsSound'
<1> DEFINE packet == Head(toServer)
           list == asked.list
           n == Len(UserlistBlocks(list))
           rest == Tail(toServer)
<1>1. /\ toServer \in Seq(ForServer) /\ toServer # <<>> /\ toServer' = rest
      /\ UNCHANGED <<userlistBlocks, userlistReply, asked>> /\ last' = Event("none")
  BY DEF ServerTakes, Typed, session
<1>2. /\ packet \in ForServer /\ rest \in Seq(ForServer)
      /\ packet.type \in {"USERLIST_PUT", "USERLIST_PUT_MORE"}
      /\ stored' = IF packet.type = "USERLIST_PUT" THEN packet.data ELSE stored \o packet.data
  BY <1>1, HeadOf DEF ServerStores
<1>3. packet.type \in ListTypes /\ packet.type # "USERLIST_GET"
  BY <1>2 DEF ListTypes
<1>4. ExportDone' /\ ImportWhole'
  BY <1>1 DEF ExportDone, ImportWhole, Event
<1> SUFFICES ASSUME ~asked.overlap PROVE RequestSound'
  BY <1>1, <1>4 DEF ListsSound
<1>5. RequestSound
  BY DEF ListsSound
<1>6. /\ list \in Seq(Nat) /\ wire["server"] \in Seq(FromServer) /\ "server" \in Sources
      /\ wire \in [Sources -> Seq(FromPeers \cup FromServer)]
  BY DEF Typed, Memories, WireTyped, Sources
<1>7. ~Idle
  BY <1>1, <1>3, NoListsRest DEF Idle
<1>8. ~Getting
  <2> SUFFICES ASSUME Getting PROVE FALSE
    OBVIOUS
  <2>1. PICK sent, answered, taken \in Nat : GetAt(sent, answered, taken)
    BY DEF Getting
  <2>2. Asking \in Seq(Script) /\ Len(Asking) = 1 /\ Asking[1] = [type |-> "USERLIST_GET"]
    BY <1>6, Scripts
  <2> HIDE DEF packet
  <2>3. packet = Asking[answered + 1] /\ answered + 1 \in 1..1
    BY <1>1, <1>3, <2>1, <2>2, FollowsRest DEF GetAt, packet
  <2>4. answered + 1 = 1
    BY <2>3
  <2> QED
    BY <1>3, <2>2, <2>3, <2>4
<1>9. ASSUME Putting PROVE Putting'
  <2>1. PICK script \in Seq(Puts), counted, kept, taken \in Nat :
          PutAt(list, script, counted, kept, taken)
    BY <1>9 DEF Putting
  <2>2. /\ script \in Seq(Script) /\ PutReplies(script) \in Seq(Script)
        /\ Len(script) \in Nat /\ Len(PutReplies(script)) = Len(script)
        /\ \A k \in 1..Len(script) : PutReplies(script)[k] = PutReply(script[k])
                                      /\ PutReply(script[k]) \in ListReplies
    BY PutScripts
  <2> HIDE DEF packet, n, list, rest
  <2>3. /\ Follows(rest, script, kept + 1, Len(script))
        /\ packet = script[kept + 1] /\ kept + 1 \in 1..Len(script)
    BY <1>1, <1>3, <2>1, <2>2, FollowsRest DEF PutAt, packet, rest
  <2>4. ASSUME script = UserlistPackets(list), kept > 0 => stored = Got(list, kept)
        PROVE  stored' = Got(list, kept + 1)
    <3>1. /\ Len(script) = n
          /\ \A k \in 1..n :
               /\ script[k].data = UserlistBlocks(list)[k]
               /\ script[k].type = IF k = 1 THEN "USERLIST_PUT" ELSE "USERLIST_PUT_MORE"
      BY <1>6, <2>4, UserlistPacketsType DEF n
    <3>2. /\ n \in Nat \ {0} /\ Got(list, 0) = <<>>
          /\ \A k \in 1..n : Got(list, k - 1) \o UserlistBlocks(list)[k] = Got(list, k)
                             /\ UserlistBlocks(list)[k] \in Seq(Nat)
      BY <1>6, GotOf DEF n
    <3>3. kept + 1 \in 1..n /\ (kept + 1) - 1 = kept /\ (kept + 1 = 1 <=> kept = 0)
      BY <2>3, <3>1
    <3>4. packet.type = (IF kept = 0 THEN "USERLIST_PUT" ELSE "USERLIST_PUT_MORE")
          /\ packet.data = UserlistBlocks(list)[kept + 1]
      BY <2>3, <3>1, <3>3
    <3>5. /\ Got(list, kept) \o UserlistBlocks(list)[kept + 1] = Got(list, kept + 1)
          /\ UserlistBlocks(list)[kept + 1] \in Seq(Nat)
      BY <3>2, <3>3
    <3>6. CASE kept = 0
      <4>1. <<>> \o UserlistBlocks(list)[kept + 1] = UserlistBlocks(list)[kept + 1]
        BY <3>5, ConcatEmptySeq
      <4> QED
        BY <1>2, <3>2, <3>4, <3>5, <3>6, <4>1 DEF packet
    <3>7. CASE kept # 0
      <4>1. stored = Got(list, kept)
        BY <2>4, <3>7
      <4> QED
        BY <1>2, <3>4, <3>5, <3>7, <4>1 DEF packet
    <3> QED
      BY <3>6, <3>7
  <2>5. Follows(wire'["server"], PutReplies(script), taken, kept + 1)
    <3> DEFINE reply == PutReply(script[kept + 1])
    <3>1. reply = UserlistReply(IF packet.type = "USERLIST_PUT" THEN "PUT_REPLY"
                                ELSE "PUT_MORE_REPLY", <<>>)
      BY <2>3 DEF PutReply
    <3>2. Replies(<<reply>>)
      BY <3>1 DEF ServerStores, packet
    <3>3. reply = PutReplies(script)[kept + 1] /\ reply \in FromServer /\ reply.type \in ListTypes
      <4>1. reply = PutReplies(script)[kept + 1] /\ reply \in ListReplies
        BY <2>2, <2>3
      <4> QED
        BY <4>1 DEF FromServer, ListReplies, ListTypes
    <3> HIDE DEF reply
    <3>4. Follows(<<reply>>, PutReplies(script), kept, kept + 1)
      <4> DEFINE at == [i \in 1..2 |-> IF i = 1 THEN kept ELSE kept + 1]
      <4>1. Len(<<reply>>) = 1 /\ <<reply>>[1] = reply
        OBVIOUS
      <4>2. /\ at \in [1..2 -> 0..Len(script)] /\ at[1] = kept /\ at[2] = kept + 1
            /\ \A i, j \in 1..2 : i <= j => at[i] <= at[j]
        BY <2>2, <2>3
      <4> HIDE DEF at
      <4>3. \A i \in 1..1 : at[i + 1] = at[i] + 1 /\ <<reply>>[i] = PutReplies(script)[at[i] + 1]
                            /\ <<reply>>[i].type \in ListTypes
        BY <3>3, <4>1, <4>2
      <4>4. Len(<<reply>>) + 1 = 2
        BY <4>1
      <4> QED
        BY <2>2, <4>1, <4>2, <4>3, <4>4, SMTT(30) DEF Follows
    <3>5. Follows(wire["server"], PutReplies(script), taken, kept)
      BY <2>1 DEF PutAt
    <3>6. <<reply>> \in Seq(FromServer)
      BY <3>3
    <3>7. Follows(wire["server"] \o <<reply>>, PutReplies(script), taken, kept + 1)
      BY <1>6, <2>2, <3>4, <3>5, <3>6, FollowsOn
    <3>8. wire'["server"] = wire["server"] \o <<reply>>
      BY <1>6, <3>2 DEF Replies
    <3> QED
      BY <3>7, <3>8
  <2>6. PutAt(list, script, counted, kept + 1, taken)'
    <3>1. \/ script = UserlistPackets(list) /\ counted = Len(script)
             /\ (kept + 1 > 0 => stored' = Got(list, kept + 1))
          \/ counted > Len(script)
      BY <2>1, <2>4 DEF PutAt
    <3>2. list' = list
      BY <1>1 DEF list
    <3> QED
      BY <1>1, <2>1, <2>3, <2>5, <3>1, <3>2 DEF PutAt
  <2>7. kept + 1 \in Nat /\ list' = list /\ list = asked.list
    BY <1>1 DEF list
  <2> QED
    BY <2>6, <2>7 DEF Putting, list
<1> QED
  BY <1>1, <1>5, <1>7, <1>8, <1>9 DEF RequestSound, Typed, Memories

LEMMA ServerListsListed ==
  ASSUME Typed, ListsSound, ServerTakes, ServerLists(Head(toServer))
  PROVE  ListsSound'
<1> DEFINE packet == Head(toServer)
           list == asked.list
           rest == Tail(toServer)
           parts == UserlistParts(stored)
<1>1. /\ toServer \in Seq(ForServer) /\ toServer # <<>> /\ toServer' = rest
      /\ UNCHANGED <<userlistBlocks, userlistReply, asked, stored>> /\ last' = Event("none")
      /\ packet.type = "USERLIST_GET" /\ Replies(parts)
  BY DEF ServerTakes, Typed, session, ServerLists, farEnd
<1>2. packet.type \in ListTypes /\ rest \in Seq(ForServer)
  BY <1>1, HeadOf DEF ListTypes
<1>3. ExportDone' /\ ImportWhole'
  BY <1>1 DEF ExportDone, ImportWhole, Event
<1> SUFFICES ASSUME ~asked.overlap PROVE RequestSound'
  BY <1>1, <1>3 DEF ListsSound
<1>4. RequestSound
  BY DEF ListsSound
<1>5. /\ list \in Seq(Nat) /\ wire["server"] \in Seq(FromServer) /\ "server" \in Sources
      /\ wire \in [Sources -> Seq(FromPeers \cup FromServer)] /\ stored \in Seq(Nat)
  BY DEF Typed, Memories, WireTyped, Sources
<1>6. ~Idle
  BY <1>1, <1>2, NoListsRest DEF Idle
<1>7. ~Putting
  <2> SUFFICES ASSUME Putting PROVE FALSE
    OBVIOUS
  <2>1. PICK script \in Seq(Puts), counted, kept, taken \in Nat :
          PutAt(list, script, counted, kept, taken)
    BY DEF Putting
  <2>2. script \in Seq(Script) /\ \A k \in 1..Len(script) : script[k] \in Puts
    BY PutScripts
  <2> HIDE DEF packet, list
  <2>3. packet = script[kept + 1] /\ kept + 1 \in 1..Len(script)
    BY <1>1, <1>2, <2>1, <2>2, FollowsRest DEF PutAt, packet
  <2> QED
    BY <1>1, <2>2, <2>3 DEF Puts
<1>8. ASSUME Getting PROVE Getting'
  <2>1. PICK sent, answered, taken \in Nat : GetAt(sent, answered, taken)
    BY <1>8 DEF Getting
  <2>2. /\ Asking \in Seq(Script) /\ Len(Asking) = 1
        /\ parts \in Seq(Script) /\ parts \in Seq(FromServer) /\ Len(parts) \in Nat
    BY <1>5, Scripts, UserlistPartsType
  <2>3. \A i \in 1..Len(parts) : parts[i].type \in ListTypes
    BY <2>2, ScriptTypes, ElementOfSeq
  <2>4. Follows(parts, parts, 0, Len(parts))
    <3>1. SubSeq(parts, 1, Len(parts)) = parts /\ Len(parts) \in 0..Len(parts)
      BY <2>2, SubSeqFull
    <3> HIDE DEF parts
    <3> QED
      BY <2>2, <2>3, <3>1, FollowsScript
  <2> HIDE DEF packet, rest
  <2>5. Follows(rest, Asking, answered + 1, sent) /\ answered + 1 \in 1..1
    BY <1>1, <1>2, <2>1, <2>2, FollowsRest DEF GetAt, packet, rest
  <2>6. answered = 0
    BY <2>5
  <2>7. Follows(wire["server"], parts, taken, 0)
    BY <2>1, <2>6 DEF GetAt
  <2>8. wire'["server"] = wire["server"] \o parts
    BY <1>1, <1>5 DEF Replies
  <2> HIDE DEF parts
  <2>9. Follows(wire'["server"], parts, taken, Len(parts))
    BY <1>5, <2>2, <2>4, <2>7, <2>8, FollowsOn
  <2>10. GetAt(sent, 1, taken)'
    BY <1>1, <2>1, <2>5, <2>6, <2>9 DEF GetAt, parts
  <2> QED
    BY <2>10 DEF Getting
<1> QED
  BY <1>1, <1>4, <1>6, <1>7, <1>8 DEF RequestSound, Typed, Memories

LEMMA ServerListed ==
  ASSUME Typed, ListsSound, ServerTakes
  PROVE  ListsSound'
<1> DEFINE packet == Head(toServer)
<1>1. /\ toServer \in Seq(ForServer) /\ toServer # <<>> /\ toServer' = Tail(toServer)
      /\ UNCHANGED <<userlistBlocks, userlistReply, asked>> /\ last' = Event("none")
  BY DEF ServerTakes, Typed, session
<1>2. ASSUME packet.type \notin ListTypes, UNCHANGED stored, Alike(wire["server"], wire["server"]')
      PROVE  ListsSound'
  <2>1. Alike(toServer, toServer')
    BY <1>1, <1>2, AlikeRest
  <2> QED
    BY <1>1, <1>2, <2>1, OthersListed DEF Event
<1>3. ASSUME ServerNotes(packet) \/ ServerPassesOn(packet) PROVE ListsSound'
  <2>1. packet.type \notin ListTypes /\ UNCHANGED <<stored, wire>>
    BY <1>3 DEF ServerNotes, ServerPassesOn, ListTypes
  <2> QED
    BY <1>2, <2>1 DEF Alike
<1>4. ASSUME ServerFinds(packet) PROVE ListsSound'
  <2>1. packet.type \notin ListTypes /\ UNCHANGED stored
    BY <1>4 DEF ServerFinds, ListTypes, farEnd
  <2>2. packet \in ForServer
    BY <1>1, HeadOf
  <2>3. PICK reply \in SearchReplies : Replies(<<reply>>)
    BY <1>4, <2>2, SearchAnswered
  <2>4. reply \in FromServer /\ reply.type \notin ListTypes
    BY DEF FromServer, SearchReplies, ListTypes
  <2>5. <<reply>> \in Seq(FromServer) /\ NoLists(<<reply>>)
    BY <2>4, NoListsOne
  <2>6. wire["server"] \in Seq(FromServer) /\ wire'["server"] = wire["server"] \o <<reply>>
    BY <2>3, <2>5, RepliesTyped DEF Typed, WireTyped
  <2>7. Alike(wire["server"], wire["server"]')
    BY <2>5, <2>6, AlikeOn
  <2> QED
    BY <1>2, <2>1, <2>7
<1> QED
  BY <1>3, <1>4, ServerStoresListed, ServerListsListed DEF ServerTakes


LEMMA UserlistTaken ==
  ASSUME Typed, ListsSound, WatchPacket("server"), NEW packet \in ListReplies,
         packet = Head(wire["server"]), TakeUserlistReply(packet)
  PROVE  ListsSound'
<1> DEFINE list == asked.list
           parts == UserlistParts(stored)
           rest == Tail(wire["server"])
<1>1. /\ wire["server"] # <<>> /\ wire'["server"] = rest /\ UNCHANGED <<toServer, stored>>
      /\ wire["server"] \in Seq(FromServer) /\ packet.type \in ListTypes
      /\ packet.data \in Seq(Nat)
  <2>1. "server" \in Sources
    BY DEF Sources
  <2> QED
    BY <2>1, WatchCases DEF ListReplies, ListTypes, Typed, WireTyped
<1>2. list \in Seq(Nat) /\ stored \in Seq(Nat) /\ toServer \in Seq(ForServer)
      /\ asked \in Memories /\ userlistReply \in Seq(Nat)
  BY DEF Typed, SessionTyped, Memories
<1>3. rest \in Seq(FromServer)
  BY <1>1, HeadOf
<1>4. asked' = asked \/ asked' = [asked EXCEPT !.request = "none"]
  BY DEF TakeUserlistReply
<1>5. asked'.overlap = asked.overlap /\ asked'.list = list
  BY <1>2, <1>4 DEF Memories
<1>6. CASE asked.overlap
  BY <1>5, <1>6 DEF ListsSound, ExportDone, ImportWhole
<1>7. CASE ~asked.overlap
  <2>1. RequestSound
    BY <1>7 DEF ListsSound
  <2>2. ~Idle
    BY <1>1, NoListsRest DEF Idle
  <2>3. ASSUME Putting, asked.request = "put" PROVE ListsSound'
    <3>1. PICK script \in Seq(Puts), counted, kept, taken \in Nat :
            PutAt(list, script, counted, kept, taken)
      BY <2>3 DEF Putting
    <3> DEFINE n == Len(script)
    <3>2. /\ script \in Seq(Script) /\ n \in Nat
          /\ PutReplies(script) \in Seq(Script) /\ Len(PutReplies(script)) = n
          /\ \A k \in 1..n : PutReplies(script)[k] = PutReply(script[k])
      BY PutScripts
    <3>3. script = UserlistPackets(list) => Got(list, n) = list
      <4>1. Len(UserlistPackets(list)) = Len(UserlistBlocks(list))
            /\ Got(list, Len(UserlistBlocks(list))) = list
        BY <1>2, GotOf, UserlistPacketsType
      <4> QED
        BY <4>1
    <3> HIDE DEF n, list, rest
    <3>4. /\ Follows(rest, PutReplies(script), taken + 1, kept)
          /\ packet = PutReply(script[taken + 1]) /\ taken + 1 \in 1..n /\ taken + 1 <= kept
      BY <1>1, <3>1, <3>2, FollowsRest DEF PutAt, rest
    <3>5. kept <= n
      BY <1>2, <3>1, <3>2, FollowsBounds DEF PutAt, n
    <3>6. packet.reply \in {"PUT_REPLY", "PUT_MORE_REPLY"} /\ packet.data = <<>>
      BY <3>4 DEF PutReply, UserlistReply
    <3>7. /\ userlistReply = <<>> /\ userlistBlocks = counted - taken /\ taken < counted
          /\ \/ script = UserlistPackets(list) /\ counted = n
                /\ (kept > 0 => stored = Got(list, kept))
             \/ counted > n
      BY <3>1 DEF PutAt, n
    <3>8. userlistBlocks' = userlistBlocks - 1
      BY <3>6 DEF TakeUserlistReply
    <3>9. Joined(userlistReply, packet.data) = <<>>
      BY <3>6, <3>7, ConcatEmptySeq DEF Joined
    <3>10. CASE userlistBlocks' # 0
      <4>1. userlistReply' = userlistReply /\ last' = Event("NONE") /\ asked' = asked
        BY <3>6, <3>10 DEF TakeUserlistReply
      <4>2. ExportDone' /\ ImportWhole'
        BY <4>1 DEF Event, ExportDone, ImportWhole
      <4>3. taken + 1 < counted /\ userlistBlocks' = counted - (taken + 1)
        BY <3>7, <3>8, <3>10
      <4>4. PutAt(list, script, counted, kept, taken + 1)'
        BY <1>1, <1>5, <3>1, <3>4, <4>1, <4>3 DEF PutAt, list
      <4>5. taken + 1 \in Nat
        OBVIOUS
      <4>6. Putting'
        BY <4>4, <4>5 DEF Putting, list
      <4> QED
        BY <2>3, <4>1, <4>2, <4>6 DEF RequestSound, ListsSound
    <3>11. CASE userlistBlocks' = 0
      <4>1. /\ userlistReply' = <<>>
            /\ last' = [type |-> "USERLIST", reply |-> <<>>, of |-> "PUT_REPLY"]
            /\ asked' = [asked EXCEPT !.request = "none"]
        BY <3>6, <3>9, <3>11 DEF TakeUserlistReply
      <4>2. counted = taken + 1
        BY <3>7, <3>8, <3>11
      <4>3. /\ counted = n /\ kept = n /\ taken + 1 = n /\ kept > 0
            /\ script = UserlistPackets(list) /\ stored = Got(list, kept)
        BY <3>2, <3>4, <3>5, <3>7, <4>2
      <4>4. Follows(rest, PutReplies(script), n, n) /\ Follows(toServer, script, n, n)
        BY <3>1, <3>4, <4>3 DEF PutAt, n
      <4>5. NoLists(rest) /\ NoLists(toServer)
        BY <1>2, <1>3, <3>2, <4>4, FollowsEnd
      <4>6. Idle'
        BY <1>1, <4>1, <4>5 DEF Idle
      <4>7. asked'.request = "none"
        BY <1>2, <4>1 DEF Memories
      <4>8. stored = list
        BY <3>3, <4>3
      <4> QED
        BY <1>1, <1>5, <4>1, <4>6, <4>7, <4>8
           DEF RequestSound, ListsSound, ExportDone, ImportWhole, list
    <3> QED
      BY <3>10, <3>11
  <2>4. ASSUME Getting, asked.request = "get" PROVE ListsSound'
    <3>1. PICK sent, answered, taken \in Nat : GetAt(sent, answered, taken)
      BY <2>4 DEF Getting
    <3> DEFINE m == Len(parts)
               blocks == UserlistBlocks(stored)
               to == IF answered = 0 THEN 0 ELSE m
    <3>2. /\ Asking \in Seq(Script) /\ Len(Asking) = 1 /\ parts \in Seq(Script)
          /\ m = Len(blocks) /\ m \in Nat \ {0}
          /\ \A k \in 1..m : /\ parts[k].data = blocks[k]
                             /\ parts[k].reply = IF k < m THEN "GET_MORE_REPLY" ELSE "GET_REPLY"
      BY <1>2, Scripts, UserlistPartsType
    <3>3. Got(stored, m) = stored
          /\ \A k \in 1..m : Got(stored, k - 1) \o blocks[k] = Got(stored, k)
      BY <1>2, <3>2, GotOf
    <3>4. Follows(wire["server"], parts, taken, to) /\ userlistReply = Got(stored, taken)
          /\ Follows(toServer, Asking, answered, sent)
      BY <3>1 DEF GetAt
    <3> HIDE DEF m, blocks, parts, rest, to
    <3>5. /\ Follows(rest, parts, taken + 1, to) /\ packet = parts[taken + 1]
          /\ taken + 1 \in 1..m /\ taken + 1 <= to
      BY <1>1, <3>2, <3>4, FollowsRest DEF rest, m
    <3>6. answered # 0 /\ to = m
      <4>1. answered = 0 => taken + 1 <= 0
        BY <3>5 DEF to
      <4>2. ~(taken + 1 <= 0)
        OBVIOUS
      <4> QED
        BY <4>1, <4>2 DEF to
    <3>7. answered = 1 /\ sent = 1
      <4>1. answered \in 0..1 /\ sent \in 0..1 /\ answered <= sent
        <5> HIDE DEF Asking
        <5>1. answered \in 0..Len(Asking) /\ sent \in 0..Len(Asking) /\ answered <= sent
          BY <1>2, <3>2, <3>4, FollowsBounds
        <5> QED
          BY <3>2, <5>1
      <4> QED
        BY <3>6, <4>1
    <3>8. Joined(userlistReply, packet.data) = Got(stored, taken + 1)
      <4>1. (taken + 1) - 1 = taken
        OBVIOUS
      <4>2. packet.data = blocks[taken + 1]
        BY <3>2, <3>5
      <4>3. Got(stored, taken) \o blocks[taken + 1] = Got(stored, taken + 1)
        BY <3>3, <3>5, <4>1
      <4> QED
        BY <3>4, <4>2, <4>3 DEF Joined
    <3>9. packet.reply = IF taken + 1 < m THEN "GET_MORE_REPLY" ELSE "GET_REPLY"
      BY <3>2, <3>5
    <3>10. CASE taken + 1 < m
      <4>1. packet.reply = "GET_MORE_REPLY"
        BY <3>9, <3>10
      <4>2. userlistReply' = Got(stored, taken + 1) /\ last' = Event("NONE") /\ asked' = asked
        BY <3>8, <4>1 DEF TakeUserlistReply
      <4>3. ExportDone' /\ ImportWhole'
        BY <4>2 DEF Event, ExportDone, ImportWhole
      <4>4. GetAt(sent, answered, taken + 1)'
        BY <1>1, <3>4, <3>5, <3>6, <4>2 DEF GetAt, m, parts
      <4>5. taken + 1 \in Nat
        OBVIOUS
      <4>6. Getting'
        BY <4>4, <4>5 DEF Getting
      <4> QED
        BY <2>4, <4>2, <4>3, <4>6 DEF RequestSound, ListsSound
    <3>11. CASE ~(taken + 1 < m)
      <4>1. packet.reply = "GET_REPLY" /\ taken + 1 = m
        BY <3>2, <3>5, <3>9, <3>11
      <4>2. /\ userlistReply' = <<>>
            /\ last' = [type |-> "USERLIST", reply |-> stored, of |-> "GET_REPLY"]
            /\ asked' = [asked EXCEPT !.request = "none"]
        BY <3>3, <3>8, <4>1 DEF TakeUserlistReply
      <4>3. Follows(rest, parts, m, m) /\ Follows(toServer, Asking, 1, 1)
        BY <3>4, <3>5, <3>6, <3>7, <4>1
      <4>4. NoLists(rest) /\ NoLists(toServer)
        BY <1>2, <1>3, <3>2, <4>3, FollowsEnd
      <4>5. Idle'
        BY <1>1, <4>2, <4>4 DEF Idle
      <4>6. asked'.request = "none"
        BY <1>2, <4>2 DEF Memories
      <4> QED
        BY <1>1, <4>2, <4>5, <4>6 DEF RequestSound, ListsSound, ExportDone, ImportWhole
    <3> QED
      BY <3>10, <3>11
  <2> QED
    BY <1>2, <2>1, <2>2, <2>3, <2>4 DEF RequestSound, Memories
<1> QED
  BY <1>6, <1>7

LEMMA WatchListed ==
  ASSUME Typed, ListsSound, NEW s \in Sources, WatchPacket(s)
  PROVE  ListsSound'
<1> DEFINE packet == Head(wire[s])
<1>1. /\ wire[s] # <<>> /\ wire'[s] = Tail(wire[s])
      /\ \A r \in Sources \ {s} : wire'[r] = wire[r]
      /\ UNCHANGED <<toServer, stored>> /\ asked \in Memories
      /\ wire["server"] \in Seq(FromServer) /\ "server" \in Sources
  BY WatchCases DEF Typed, WireTyped, Sources
<1>2. ASSUME Alike(wire["server"], wire["server"]'), UNCHANGED <<userlistBlocks, userlistReply>>,
             UNCHANGED <<asked.list, asked.request, asked.overlap>>, last'.type # "USERLIST"
      PROVE  ListsSound'
  <2>1. Alike(toServer, toServer')
    BY <1>1 DEF Alike
  <2> QED
    BY <1>1, <1>2, <2>1, OthersListed
<1>3. CASE s = "server" /\ packet \in ListReplies /\ TakeUserlistReply(packet)
  BY <1>3, UserlistTaken
<1>4. CASE s = "server" /\ packet \in SearchReplies \cup Notes
           /\ (TakePubdir50Reply(packet) \/ TakeNotifyReply(packet) \/ TakeNotice(packet))
  <2> HIDE DEF packet
  <2>1. packet.type \notin ListTypes
    BY <1>4, NoticesAssumption DEF SearchReplies, Notes, ListTypes
  <2>2. Alike(wire["server"], wire["server"]')
    BY <1>1, <1>4, <2>1, AlikeRest DEF packet
  <2>3. UNCHANGED <<userlistBlocks, userlistReply>>
    BY <1>4 DEF TakePubdir50Reply, TakeNotifyReply, TakeNotice, session
  <2>4. UNCHANGED <<asked.list, asked.request, asked.overlap>>
    BY <1>1, <1>4 DEF TakePubdir50Reply, TakeNotifyReply, TakeNotice, Memories
  <2>5. last'.type # "USERLIST"
    BY <1>4 DEF TakePubdir50Reply, TakeNotifyReply, TakeNotice, Fails, Event
  <2> QED
    BY <1>2, <2>2, <2>3, <2>4, <2>5
<1>5. CASE s \in Peers /\ (TakeImage(s, packet) \/ TakeUnnamed(s, packet) \/ TakeMessage(s, packet))
  <2> HIDE DEF packet
  <2>1. s # "server"
    BY <1>5, PeersAssumption
  <2>2. Alike(wire["server"], wire["server"]')
    BY <1>1, <2>1 DEF Alike
  <2>3. UNCHANGED <<userlistBlocks, userlistReply>>
    BY <1>5 DEF TakeImage, TakeUnnamed, TakeMessage, session
  <2>4. UNCHANGED <<asked.list, asked.request, asked.overlap>>
    BY <1>1, <1>5 DEF TakeImage, ImageGrows, TakeUnnamed, TakeMessage, Memories
  <2>5. last'.type # "USERLIST"
    BY <1>5 DEF TakeImage, ImageGrows, TakeUnnamed, TakeMessage, Event
  <2> QED
    BY <1>2, <2>2, <2>3, <2>4, <2>5
<1> QED
  BY <1>3, <1>4, <1>5, WatchCases

LEMMA NextListed ==
  ASSUME Typed, ListsSound, [Next]_vars
  PROVE  ListsSound'
<1>1. Typed'
  BY NextTyped
<1>2. /\ wire \in [Sources -> Seq(FromPeers \cup FromServer)] /\ asked \in Memories
      /\ wire["server"] \in Seq(FromServer) /\ Peers \subseteq Sources \ {"server"}
  BY PeersAssumption DEF Typed, WireTyped, Sources
<1>3. ASSUME Alike(wire["server"], wire["server"]'),
             UNCHANGED <<userlistBlocks, userlistReply, toServer, stored>>,
             UNCHANGED <<asked.list, asked.request, asked.overlap>>, last'.type # "USERLIST"
      PROVE  ListsSound'
  <2>1. Alike(toServer, toServer')
    BY <1>3 DEF Alike
  <2> QED
    BY <1>3, <2>1, OthersListed
<1>4. ASSUME Client PROVE ListsSound'
  BY <1>1, <1>4, ClientListed
<1>5. ASSUME ServerTakes PROVE ListsSound'
  BY <1>5, ServerListed
<1>6. ASSUME NEW p \in Peers, PeerAnswers(p) PROVE ListsSound'
  <2>1. UNCHANGED <<userlistBlocks, userlistReply, toServer, stored>> /\ last' = Event("none")
    BY <1>6 DEF PeerAnswers, session
  <2>2. UNCHANGED <<asked.list, asked.request, asked.overlap>>
    BY <1>2, <1>6 DEF PeerAnswers, Memories
  <2>3. wire'["server"] = wire["server"]
    <3>1. PICK packets \in Seq(FromPeers) : wire' = [wire EXCEPT ![p] = @ \o packets]
      BY <1>6, PeerAdds
    <3>2. p # "server" /\ "server" \in Sources
      BY <1>2, PeersAssumption DEF Sources
    <3> QED
      BY <1>2, <3>1, <3>2
  <2> QED
    BY <1>3, <2>1, <2>2, <2>3 DEF Alike, Event
<1>7. ASSUME Unasked PROVE ListsSound'
  <2>1. UNCHANGED <<userlistBlocks, userlistReply, toServer, stored, asked>>
        /\ last' = Event("none")
    BY <1>7 DEF Unasked, session, farEnd
  <2>2. Alike(wire["server"], wire["server"]')
    <3>1. CASE \E type \in Notices : Replies(<<[type |-> type]>>)
      <4>1. PICK type \in Notices : Replies(<<[type |-> type]>>)
        BY <3>1
      <4> DEFINE packet == [type |-> type]
      <4>2. packet \in FromServer /\ packet.type \notin ListTypes
        BY NoticesAssumption DEF FromServer, Notes, ListTypes
      <4>3. Replies(<<packet>>)
        BY <4>1
      <4> HIDE DEF packet
      <4>4. <<packet>> \in Seq(FromServer) /\ NoLists(<<packet>>)
        BY <4>2, NoListsOne
      <4>5. wire'["server"] = wire["server"] \o <<packet>>
        BY <4>3, <4>4, RepliesTyped DEF Typed
      <4> QED
        BY <1>2, <4>4, <4>5, AlikeOn
    <3>2. CASE ~\E type \in Notices : Replies(<<[type |-> type]>>)
      <4>1. PICK p \in Peers : \E packet : wire' = [wire EXCEPT ![p] = packet]
        BY <1>7, <3>2 DEF Unasked, Ours
      <4>2. wire'["server"] = wire["server"]
        BY <1>2, <4>1
      <4> QED
        BY <4>2 DEF Alike
    <3> QED
      BY <3>1, <3>2
  <2> QED
    BY <1>3, <2>1, <2>2 DEF Event
<1>8. ASSUME NEW s \in Sources, WatchPacket(s) PROVE ListsSound'
  BY <1>8, WatchListed
<1>9. ASSUME WatchEnd \/ WatchNothing PROVE ListsSound'
  <2>1. UNCHANGED <<userlistBlocks, userlistReply, toServer, stored, wire, asked>>
        /\ (Fails("EAGAIN") \/ Fails("other"))
    BY <1>9 DEF WatchEnd, WatchNothing, farEnd
  <2>2. last' = Event("NONE") \/ last' = Event("FAILED")
    BY <2>1 DEF Fails
  <2> QED
    BY <1>3, <2>1, <2>2 DEF Alike, Event
<1>10. ASSUME UNCHANGED vars PROVE ListsSound'
  BY <1>10 DEF vars, session, farEnd, ListsSound, RequestSound, Idle, Putting, PutAt, Getting,
     GetAt, ExportDone, ImportWhole
<1> QED
  BY <1>4, <1>5, <1>6, <1>7, <1>8, <1>9, <1>10 DEF Next, Watch

LEMMA InitListed == Init => ListsSound
<1> SUFFICES ASSUME Init PROVE ListsSound
  OBVIOUS
<1>1. /\ userlistReply = <<>> /\ toServer = <<>> /\ wire["server"] = <<>>
      /\ asked.request = "none" /\ last.type = "none"
  BY DEF Init, Event, Sources
<1>2. NoLists(<<>>)
  BY DEF NoLists
<1> QED
  BY <1>1, <1>2 DEF ListsSound, RequestSound, Idle, ExportDone, ImportWhole

\* The client is told that its list is stored only when the server has all of it
\* (gg_userlist_request() counting the blocks, GG_STATE_CONNECTED the replies).
THEOREM ExportsDone == Spec => []ExportDone
<1>1. Init => Typed /\ ListsSound
  BY InitTyped, InitListed
<1>2. Typed /\ ListsSound /\ [Next]_vars => (Typed /\ ListsSound)'
  BY NextTyped, NextListed
<1>3. ListsSound => ExportDone
  BY DEF ListsSound
<1> QED
  BY <1>1, <1>2, <1>3, PTL DEF Spec

\* A list that is fetched arrives whole (userlist_reply, joined from the parts).
THEOREM ImportsWhole == Spec => []ImportWhole
<1>1. Init => Typed /\ ListsSound
  BY InitTyped, InitListed
<1>2. Typed /\ ListsSound /\ [Next]_vars => (Typed /\ ListsSound)'
  BY NextTyped, NextListed
<1>3. ListsSound => ImportWhole
  BY DEF ListsSound
<1> QED
  BY <1>1, <1>2, <1>3, PTL DEF Spec


-----------------------------------------------------------------------------
(***************************************************************************)
(* TypeOK: what is waited for is still under way, so that nothing is       *)
(* answered more often than it was asked.  Of packets under way, those of  *)
(* one kind are numbered in their order.                                   *)
(***************************************************************************)
Tally(packets, Kind, from, to) ==
  \E at \in [1..Len(packets) + 1 -> Nat] :
    /\ at[1] = from /\ at[Len(packets) + 1] = to
    /\ \A i, j \in 1..Len(packets) + 1 : i <= j => at[i] <= at[j]
    /\ \A i \in 1..Len(packets) :
         at[i + 1] = IF packets[i] \in Kind THEN at[i] + 1 ELSE at[i]

LEMMA TallyBounds ==
  ASSUME NEW S, NEW p \in Seq(S), NEW Kind, NEW x, NEW y, Tally(p, Kind, x, y)
  PROVE  x \in Nat /\ y \in Nat /\ x <= y
<1>1. Len(p) \in Nat
  BY LenProperties
<1>2. 1 \in 1..Len(p) + 1 /\ Len(p) + 1 \in 1..Len(p) + 1 /\ 1 <= Len(p) + 1
  BY <1>1
<1> QED
  BY <1>2 DEF Tally

LEMMA TallyOn ==
  ASSUME NEW S, NEW p \in Seq(S), NEW q \in Seq(S), NEW Kind,
         NEW x, NEW y, NEW z, Tally(p, Kind, x, y), Tally(q, Kind, y, z)
  PROVE  Tally(p \o q, Kind, x, z)
<1> DEFINE m == Len(p)
           n == Len(q)
<1>1. m \in Nat /\ n \in Nat
  BY LenProperties
<1>2. PICK at \in [1..m + 1 -> Nat] :
        /\ at[1] = x /\ at[m + 1] = y
        /\ \A i, j \in 1..m + 1 : i <= j => at[i] <= at[j]
        /\ \A i \in 1..m : at[i + 1] = IF p[i] \in Kind THEN at[i] + 1 ELSE at[i]
  BY DEF Tally
<1>3. PICK on \in [1..n + 1 -> Nat] :
        /\ on[1] = y /\ on[n + 1] = z
        /\ \A i, j \in 1..n + 1 : i <= j => on[i] <= on[j]
        /\ \A i \in 1..n : on[i + 1] = IF q[i] \in Kind THEN on[i] + 1 ELSE on[i]
  BY DEF Tally
<1>4. /\ Len(p \o q) = m + n
      /\ \A i \in 1..m + n : (p \o q)[i] = IF i <= m THEN p[i] ELSE q[i - m]
  BY ConcatProperties
<1> HIDE DEF m, n
<1> DEFINE way == [i \in 1..m + n + 1 |-> IF i <= m + 1 THEN at[i] ELSE on[i - m]]
<1>5. way \in [1..m + n + 1 -> Nat]
  BY <1>1, <1>2, <1>3
<1>6. /\ \A i \in 1..m + 1 : way[i] = at[i]
      /\ \A i \in m + 1 .. m + n + 1 : i - m \in 1..n + 1 /\ way[i] = on[i - m]
  <2>1. \A i \in 1..m + 1 : way[i] = at[i]
    BY <1>1
  <2>2. ASSUME NEW i \in m + 1 .. m + n + 1
        PROVE  i - m \in 1..n + 1 /\ way[i] = on[i - m]
    <3>1. i - m \in 1..n + 1 /\ i \in 1..m + n + 1
      BY <1>1
    <3>2. CASE i = m + 1
      <4>1. way[i] = at[m + 1] /\ i - m = 1
        BY <1>1, <3>2
      <4> QED
        BY <1>2, <1>3, <3>1, <4>1
    <3>3. CASE i # m + 1
      BY <1>1, <3>1, <3>3
    <3> QED
      BY <3>2, <3>3
  <2> QED
    BY <2>1, <2>2
<1> HIDE DEF way
<1>7. way[1] = x /\ way[m + n + 1] = z
  <2>1. 1 \in 1..m + 1 /\ m + n + 1 \in m + 1 .. m + n + 1 /\ (m + n + 1) - m = n + 1
    BY <1>1
  <2> QED
    BY <1>2, <1>3, <1>6, <2>1
<1>8. ASSUME NEW i \in 1..m + n + 1, NEW j \in 1..m + n + 1, i <= j
      PROVE  way[i] <= way[j]
  <2>1. CASE j <= m + 1
    <3>1. i \in 1..m + 1 /\ j \in 1..m + 1
      BY <1>1, <1>8, <2>1
    <3> QED
      BY <1>2, <1>6, <1>8, <3>1
  <2>2. CASE i > m + 1
    <3>1. i \in m + 1 .. m + n + 1 /\ j \in m + 1 .. m + n + 1 /\ i - m <= j - m
      BY <1>1, <1>8, <2>2
    <3> QED
      BY <1>3, <1>6, <3>1
  <2>3. CASE i <= m + 1 /\ j > m + 1
    <3>1. i \in 1..m + 1 /\ m + 1 \in 1..m + 1 /\ j \in m + 1 .. m + n + 1
      BY <1>1, <2>3
    <3>2. 1 \in 1..n + 1 /\ 1 <= j - m /\ j - m \in 1..n + 1
      BY <1>1, <2>3
    <3>3. at[i] <= y /\ y <= on[j - m]
      BY <1>2, <1>3, <2>3, <3>1, <3>2
    <3>4. at[i] \in Nat /\ y \in Nat /\ on[j - m] \in Nat
      BY <1>2, <1>3, <3>1, <3>2
    <3> QED
      BY <1>6, <3>1, <3>3, <3>4
  <2> QED
    BY <1>1, <2>1, <2>2, <2>3
<1>9. ASSUME NEW i \in 1..m + n
      PROVE  way[i + 1] = IF (p \o q)[i] \in Kind THEN way[i] + 1 ELSE way[i]
  <2>1. CASE i <= m
    <3>1. i \in 1..m /\ i \in 1..m + 1 /\ i + 1 \in 1..m + 1
      BY <1>1, <2>1
    <3>2. (p \o q)[i] = p[i] /\ way[i] = at[i] /\ way[i + 1] = at[i + 1]
      BY <1>4, <1>6, <2>1, <3>1
    <3> QED
      BY <1>2, <3>1, <3>2
  <2>2. CASE ~(i <= m)
    <3>1. /\ i - m \in 1..n /\ (i + 1) - m = (i - m) + 1
          /\ i \in m + 1 .. m + n + 1 /\ i + 1 \in m + 1 .. m + n + 1
      BY <1>1, <2>2
    <3>2. (p \o q)[i] = q[i - m] /\ way[i] = on[i - m] /\ way[i + 1] = on[(i - m) + 1]
      <4>1. (p \o q)[i] = q[i - m]
        BY <1>4, <2>2
      <4>2. way[i] = on[i - m] /\ way[i + 1] = on[(i + 1) - m]
        BY <1>6, <3>1
      <4> QED
        BY <3>1, <4>1, <4>2
    <3> QED
      BY <1>3, <3>1, <3>2
  <2> QED
    BY <2>1, <2>2
<1>10. Len(p \o q) + 1 = m + n + 1
  BY <1>1, <1>4
<1> QED
  BY <1>4, <1>5, <1>7, <1>8, <1>9, <1>10, ZenonT(40) DEF Tally

LEMMA TallyRest ==
  ASSUME NEW S, NEW p \in Seq(S), p # <<>>, NEW Kind, NEW x, NEW z, Tally(p, Kind, x, z)
  PROVE  Tally(Tail(p), Kind, IF Head(p) \in Kind THEN x + 1 ELSE x, z)
<1> DEFINE m == Len(p)
           q == Tail(p)
<1>1. /\ m \in Nat \ {0} /\ Len(q) = m - 1 /\ Head(p) = p[1]
      /\ \A i \in 1..m - 1 : q[i] = p[i + 1]
  BY HeadOf
<1>2. PICK at \in [1..m + 1 -> Nat] :
        /\ at[1] = x /\ at[m + 1] = z
        /\ \A i, j \in 1..m + 1 : i <= j => at[i] <= at[j]
        /\ \A i \in 1..m : at[i + 1] = IF p[i] \in Kind THEN at[i] + 1 ELSE at[i]
  BY DEF Tally
<1> HIDE DEF m, q
<1> DEFINE way == [i \in 1..m |-> at[i + 1]]
<1>3. way \in [1..Len(q) + 1 -> Nat]
  BY <1>1, <1>2
<1>4. way[1] = at[2] /\ way[Len(q) + 1] = z
  BY <1>1, <1>2
<1>5. ASSUME NEW i \in 1..Len(q) + 1, NEW j \in 1..Len(q) + 1, i <= j
      PROVE  way[i] <= way[j]
  <2>1. i \in 1..m /\ j \in 1..m /\ i + 1 \in 1..m + 1 /\ j + 1 \in 1..m + 1 /\ i + 1 <= j + 1
    BY <1>1, <1>5
  <2> QED
    BY <1>2, <2>1
<1>6. ASSUME NEW i \in 1..Len(q)
      PROVE  way[i + 1] = IF q[i] \in Kind THEN way[i] + 1 ELSE way[i]
  <2>1. i \in 1..m - 1 /\ i + 1 \in 1..m /\ i \in 1..m
    BY <1>1
  <2>2. way[i + 1] = at[(i + 1) + 1] /\ way[i] = at[i + 1] /\ q[i] = p[i + 1]
    BY <1>1, <2>1
  <2> QED
    BY <1>2, <2>1, <2>2
<1> HIDE DEF way
<1>7. Tally(q, Kind, at[2], z)
  BY <1>3, <1>4, <1>5, <1>6 DEF Tally
<1>8. at[2] = IF Head(p) \in Kind THEN x + 1 ELSE x
  <2>1. 1 \in 1..m /\ 1 + 1 = 2
    BY <1>1
  <2> QED
    BY <1>1, <1>2, <2>1
<1> QED
  BY <1>7, <1>8 DEF q

LEMMA TallyNone ==
  ASSUME NEW S, NEW p \in Seq(S), NEW Kind, NEW x \in Nat, \A i \in 1..Len(p) : p[i] \notin Kind
  PROVE  Tally(p, Kind, x, x)
<1>1. Len(p) \in Nat
  BY LenProperties
<1> DEFINE at == [i \in 1..Len(p) + 1 |-> x]
<1>2. /\ at \in [1..Len(p) + 1 -> Nat]
      /\ at[1] = x /\ at[Len(p) + 1] = x
      /\ \A i \in 1..Len(p) + 1 : at[i] = x
      /\ \A i \in 1..Len(p) : at[i] = x /\ at[i + 1] = x
  BY <1>1
<1>3. \A i, j \in 1..Len(p) + 1 : i <= j => at[i] <= at[j]
  BY <1>1, <1>2
<1> HIDE DEF at
<1> QED
  BY <1>2, <1>3 DEF Tally

\* At most the last of some packets counts.
LEMMA TallyLast ==
  ASSUME NEW S, NEW p \in Seq(S), NEW Kind, NEW x \in Nat, Len(p) # 0,
         \A i \in 1..Len(p) : p[i] \in Kind <=> i = Len(p)
  PROVE  Tally(p, Kind, x, x + 1)
<1>1. Len(p) \in Nat \ {0}
  BY LenProperties
<1> DEFINE at == [i \in 1..Len(p) + 1 |-> IF i = Len(p) + 1 THEN x + 1 ELSE x]
<1>2. /\ at \in [1..Len(p) + 1 -> Nat]
      /\ at[1] = x /\ at[Len(p) + 1] = x + 1
      /\ \A i \in 1..Len(p) : at[i] = x
  BY <1>1
<1>3. \A i, j \in 1..Len(p) + 1 : i <= j => at[i] <= at[j]
  BY <1>1
<1>4. ASSUME NEW i \in 1..Len(p)
      PROVE  at[i + 1] = IF p[i] \in Kind THEN at[i] + 1 ELSE at[i]
  <2>1. CASE i = Len(p)
    BY <1>1, <1>2, <2>1
  <2>2. CASE i # Len(p)
    <3>1. i + 1 \in 1..Len(p)
      BY <1>1, <2>2
    <3> QED
      BY <1>2, <2>2, <3>1
  <2> QED
    BY <2>1, <2>2
<1> HIDE DEF at
<1> QED
  BY <1>2, <1>3, <1>4 DEF Tally

LEMMA TallyOne ==
  ASSUME NEW S, NEW packet \in S, NEW fate \in Fates(1), NEW Kind, NEW x \in Nat
  PROVE  LET p == Picked(<<packet>>, fate.through)
             got == Cardinality(fate.through)
         IN  /\ p \in Seq(S) /\ got \in {0, 1} /\ \A i \in 1..Len(p) : p[i] = packet
             /\ Tally(p, Kind, x, IF packet \in Kind THEN x + got ELSE x)
<1> DEFINE p == Picked(<<packet>>, fate.through)
           got == Cardinality(fate.through)
<1>1. got \in {0, 1} /\ (got = 1 => p = <<packet>>) /\ (got = 0 => p = <<>>)
  BY SentOne
<1> HIDE DEF p, got
<1>2. p \in Seq(S) /\ Len(p) = got /\ \A i \in 1..got : p[i] = packet
  <2>1. CASE got = 1
    <3>1. <<packet>> \in Seq(S) /\ Len(<<packet>>) = 1 /\ <<packet>>[1] = packet
      OBVIOUS
    <3>2. \A i \in 1..1 : i = 1
      OBVIOUS
    <3> QED
      BY <1>1, <2>1, <3>1, <3>2
  <2>2. CASE got = 0
    <3>1. p = <<>> /\ p \in Seq(S) /\ Len(p) = 0
      BY <1>1, <2>2
    <3>2. 1..0 = {}
      OBVIOUS
    <3> QED
      BY <2>2, <3>1, <3>2
  <2> QED
    BY <1>1, <2>1, <2>2
<1>3. CASE got = 1 /\ packet \in Kind
  <2>1. Len(p) = 1 /\ p[1] \in Kind
    BY <1>2, <1>3
  <2>2. \A i \in 1..Len(p) : p[i] \in Kind <=> i = Len(p)
    BY <2>1
  <2>3. Len(p) # 0 /\ p \in Seq(S)
    BY <1>2, <2>1
  <2>4. Tally(p, Kind, x, x + 1)
    BY <2>2, <2>3, TallyLast
  <2> QED
    BY <1>1, <1>2, <1>3, <2>4 DEF p, got
<1>4. CASE got = 0 \/ packet \notin Kind
  <2>1. \A i \in 1..Len(p) : p[i] \notin Kind
    BY <1>2, <1>4
  <2>2. x = IF packet \in Kind THEN x + got ELSE x
    BY <1>1, <1>4
  <2> QED
    BY <1>1, <1>2, <2>1, <2>2, TallyNone DEF p, got
<1> QED
  BY <1>1, <1>3, <1>4

LEMMA TallySingle ==
  ASSUME NEW S, NEW packet \in S, NEW Kind, NEW x \in Nat
  PROVE  /\ <<packet>> \in Seq(S)
         /\ Tally(<<packet>>, Kind, x, IF packet \in Kind THEN x + 1 ELSE x)
<1> DEFINE p == <<packet>>
<1>1. p \in Seq(S) /\ Len(p) = 1 /\ p[1] = packet
  OBVIOUS
<1> HIDE DEF p
<1>2. CASE packet \in Kind
  <2>1. Len(p) # 0 /\ \A i \in 1..Len(p) : p[i] \in Kind <=> i = Len(p)
    BY <1>1, <1>2
  <2>2. Tally(p, Kind, x, x + 1)
    BY <1>1, <2>1, TallyLast
  <2> QED
    BY <1>1, <1>2, <2>2 DEF p
<1>3. CASE packet \notin Kind
  <2>1. \A i \in 1..Len(p) : p[i] \notin Kind
    BY <1>1, <1>3
  <2>2. Tally(p, Kind, x, x)
    BY <1>1, <2>1, TallyNone
  <2> QED
    BY <1>1, <1>3, <2>2 DEF p
<1> QED
  BY <1>2, <1>3

LEMMA TallyShift ==
  ASSUME NEW S, NEW p \in Seq(S), NEW Kind, NEW x, NEW y, Tally(p, Kind, x, y)
  PROVE  Tally(p, Kind, x + 1, y + 1)
<1> DEFINE m == Len(p)
<1>1. m \in Nat
  BY LenProperties
<1>2. PICK at \in [1..m + 1 -> Nat] :
        /\ at[1] = x /\ at[m + 1] = y
        /\ \A i, j \in 1..m + 1 : i <= j => at[i] <= at[j]
        /\ \A i \in 1..m : at[i + 1] = IF p[i] \in Kind THEN at[i] + 1 ELSE at[i]
  BY DEF Tally
<1> HIDE DEF m
<1> DEFINE way == [i \in 1..m + 1 |-> at[i] + 1]
<1>3. way \in [1..m + 1 -> Nat] /\ \A i \in 1..m + 1 : way[i] = at[i] + 1
  BY <1>2
<1> HIDE DEF way
<1>4. 1 \in 1..m + 1 /\ m + 1 \in 1..m + 1 /\ \A i \in 1..m : i \in 1..m + 1 /\ i + 1 \in 1..m + 1
  BY <1>1
<1>5. way[1] = x + 1 /\ way[m + 1] = y + 1
  BY <1>2, <1>3, <1>4
<1>6. \A i, j \in 1..m + 1 : i <= j => way[i] <= way[j]
  BY <1>2, <1>3
<1>7. \A i \in 1..m : way[i + 1] = IF p[i] \in Kind THEN way[i] + 1 ELSE way[i]
  BY <1>2, <1>3, <1>4
<1> QED
  BY <1>3, <1>5, <1>6, <1>7 DEF Tally, m


\* What answers a request for an image: its last chunk, or that there is none.
Ends == {chunk \in Chunks : ChunkTo(chunk) = chunk.image.size} \cup NoImages
Asks(p) == {packet \in ImageRequests : packet.to = p}

SearchesOwed ==
  \E taken, answered, sent \in Nat :
    /\ Tally(wire["server"], SearchReplies, taken, answered)
    /\ Tally(toServer, Searches, answered, sent)
    /\ sent - taken <= asked.searches

ImagesOwed(p) ==
  \E taken, answered, passed, sent \in Nat :
    /\ Tally(wire[p], Ends, taken, answered)
    /\ Tally(owed[p], Images, answered, passed)
    /\ Tally(toServer, Asks(p), passed, sent)
    /\ sent - taken <= asked.images[p]

OwedSound == SearchesOwed /\ \A p \in Peers : ImagesOwed(p)

Steady(p, q, Kind) ==
  \A x \in Nat, y \in Nat : Tally(p, Kind, x, y) => Tally(q, Kind, x, y)

LEMMA SteadyOn ==
  ASSUME NEW S, NEW p \in Seq(S), NEW q \in Seq(S), NEW Kind, \A i \in 1..Len(q) : q[i] \notin Kind
  PROVE  Steady(p, p \o q, Kind)
<1>1. ASSUME NEW x \in Nat, NEW y \in Nat, Tally(p, Kind, x, y)
      PROVE  Tally(p \o q, Kind, x, y)
  <2>1. Tally(q, Kind, y, y)
    BY TallyNone
  <2> QED
    BY <1>1, <2>1, TallyOn
<1> QED
  BY <1>1 DEF Steady

LEMMA SteadyOne ==
  ASSUME NEW S, NEW p \in Seq(S), NEW packet \in S, NEW Kind, packet \notin Kind
  PROVE  Steady(p, p \o <<packet>>, Kind)
<1>1. <<packet>> \in Seq(S) /\ \A i \in 1..Len(<<packet>>) : <<packet>>[i] \notin Kind
  OBVIOUS
<1> QED
  BY <1>1, SteadyOn

LEMMA SteadyRest ==
  ASSUME NEW S, NEW p \in Seq(S), p # <<>>, NEW Kind, Head(p) \notin Kind
  PROVE  Steady(p, Tail(p), Kind)
BY TallyRest DEF Steady

LEMMA SteadySame ==
  ASSUME NEW p, NEW q, p = q, NEW Kind
  PROVE  Steady(p, q, Kind)
BY DEF Steady

LEMMA SearchesLeft ==
  ASSUME Typed, Typed', SearchesOwed, Steady(wire["server"], wire["server"]', SearchReplies),
         Steady(toServer, toServer', Searches), asked'.searches = asked.searches
  PROVE  SearchesOwed'
<1>1. PICK taken, answered, sent \in Nat :
        /\ Tally(wire["server"], SearchReplies, taken, answered)
        /\ Tally(toServer, Searches, answered, sent)
        /\ sent - taken <= asked.searches
  BY DEF SearchesOwed
<1>2. Tally(wire["server"]', SearchReplies, taken, answered)
      /\ Tally(toServer', Searches, answered, sent)
  BY <1>1 DEF Steady
<1>3. sent - taken <= asked'.searches
  BY <1>1
<1> QED
  BY <1>2, <1>3 DEF SearchesOwed

LEMMA ImagesLeft ==
  ASSUME NEW p \in Peers, ImagesOwed(p), Steady(wire[p], wire[p]', Ends),
         Steady(owed[p], owed[p]', Images), Steady(toServer, toServer', Asks(p)),
         asked'.images[p] = asked.images[p]
  PROVE  ImagesOwed(p)'
<1>1. PICK taken, answered, passed, sent \in Nat :
        /\ Tally(wire[p], Ends, taken, answered)
        /\ Tally(owed[p], Images, answered, passed)
        /\ Tally(toServer, Asks(p), passed, sent)
        /\ sent - taken <= asked.images[p]
  BY DEF ImagesOwed
<1>2. /\ Tally(wire[p]', Ends, taken, answered)
      /\ Tally(owed[p]', Images, answered, passed)
      /\ Tally(toServer', Asks(p), passed, sent)
  BY <1>1 DEF Steady
<1>3. sent - taken <= asked'.images[p]
  BY <1>1
<1> QED
  BY <1>2, <1>3 DEF ImagesOwed

LEMMA CallOwed ==
  ASSUME Typed, Typed', OwedSound, Client,
         NEW packets \in Seq(ForServer), NEW fate \in Fates(Len(packets)),
         Sends(packets, fate),
         \A i \in 1..Len(packets) : packets[i] \notin ImageRequests /\ packets[i] \notin Searches,
         UNCHANGED <<asked.searches, asked.images>>
  PROVE  OwedSound'
<1>1. UNCHANGED <<wire, owed>> /\ toServer \in Seq(ForServer)
  BY ClientCalls DEF Typed
<1> DEFINE part == Picked(packets, fate.through)
<1>2. part \in Seq(ForServer) /\ toServer' = toServer \o part
      /\ \A i \in 1..Len(part) : part[i] \notin ImageRequests /\ part[i] \notin Searches
  <2>1. /\ part \in Seq(ForServer) /\ Len(part) = Cardinality(fate.through)
        /\ \A k \in 1..Cardinality(fate.through) : \E j \in 1..Len(packets) : part[k] = packets[j]
    BY SentOf
  <2>2. toServer' = toServer \o part
    BY DEF Sends
  <2> HIDE DEF part
  <2> QED
    BY <2>1, <2>2
<1> HIDE DEF part
<1>3. Steady(toServer, toServer', Searches)
  BY <1>1, <1>2, SteadyOn
<1>4. ASSUME NEW p \in Peers PROVE ImagesOwed(p)'
  <2>1. \A i \in 1..Len(part) : part[i] \notin Asks(p)
    BY <1>2 DEF Asks
  <2>2. Steady(toServer, toServer', Asks(p))
    BY <1>1, <1>2, <2>1, SteadyOn
  <2> QED
    BY <1>1, <2>2, ImagesLeft, SteadySame DEF OwedSound
<1>5. SearchesOwed'
  BY <1>1, <1>3, SearchesLeft, SteadySame DEF OwedSound
<1> QED
  BY <1>4, <1>5 DEF OwedSound

LEMMA ImageRequestOwed ==
  ASSUME Typed, Typed', OwedSound, Client, NEW peer \in Peers, NEW image \in Images,
         ImageRequest(peer, image)
  PROVE  OwedSound'
<1> DEFINE packet == [type |-> "SEND_MSG", to |-> peer, image |-> image]
<1>1. UNCHANGED <<wire, owed>> /\ toServer \in Seq(ForServer) /\ asked \in Memories
      /\ asked.images \in [Peers -> Int]
  BY ClientCalls DEF Typed, Memories
<1>2. PICK fate \in Fates(1) :
        /\ Sends(<<packet>>, fate)
        /\ asked' = [asked EXCEPT !.images[peer] = @ + Cardinality(fate.through)]
  BY DEF ImageRequest
<1>3. packet \in ForServer /\ packet \in ImageRequests /\ packet.to = peer
  BY DEF ForServer, ImageRequests
<1> HIDE DEF packet
<1> DEFINE got == Cardinality(fate.through)
           part == Picked(<<packet>>, fate.through)
<1>4. part \in Seq(ForServer) /\ toServer' = toServer \o part /\ got \in {0, 1}
  BY <1>2, <1>3, 0 \in Nat, TallyOne DEF Sends
<1>5. \A i \in 1..Len(part) : part[i] = packet
  BY <1>3, 0 \in Nat, TallyOne
<1>6. SearchesOwed'
  <2>1. packet \notin Searches
    BY <1>3 DEF ImageRequests, Searches
  <2>2. Steady(toServer, toServer', Searches)
    <3> HIDE DEF part
    <3> QED
      BY <1>1, <1>4, <1>5, <2>1, SteadyOn
  <2>3. asked'.searches = asked.searches
    BY <1>1, <1>2 DEF Memories
  <2> QED
    BY <1>1, <2>2, <2>3, SearchesLeft, SteadySame DEF OwedSound
<1>7. ASSUME NEW p \in Peers PROVE ImagesOwed(p)'
  <2>1. asked'.images[p] = IF p = peer THEN asked.images[p] + got ELSE asked.images[p]
    BY <1>1, <1>2 DEF Memories
  <2>2. CASE p # peer
    <3>1. packet \notin Asks(p)
      BY <1>3, <2>2 DEF Asks
    <3>2. Steady(toServer, toServer', Asks(p))
      <4> HIDE DEF part
      <4> QED
        BY <1>1, <1>4, <1>5, <3>1, SteadyOn
    <3> QED
      BY <1>1, <2>1, <2>2, <3>2, ImagesLeft, SteadySame DEF OwedSound
  <2>3. CASE p = peer
    <3>1. PICK taken, answered, passed, sent \in Nat :
            /\ Tally(wire[p], Ends, taken, answered)
            /\ Tally(owed[p], Images, answered, passed)
            /\ Tally(toServer, Asks(p), passed, sent)
            /\ sent - taken <= asked.images[p]
      BY DEF OwedSound, ImagesOwed
    <3>2. packet \in Asks(p)
      BY <1>3, <2>3 DEF Asks
    <3>3. Tally(part, Asks(p), sent, sent + got)
      BY <1>2, <1>3, <3>2, TallyOne
    <3>4. Tally(toServer', Asks(p), passed, sent + got)
      <4> HIDE DEF part
      <4> QED
        BY <1>1, <1>4, <3>1, <3>3, TallyOn
    <3>5. (sent + got) - taken <= asked'.images[p] /\ sent + got \in Nat
      <4>1. asked.images[p] \in Int /\ got \in Nat
        BY <1>1, <1>4
      <4> QED
        BY <2>1, <2>3, <3>1, <4>1
    <3> QED
      BY <1>1, <3>1, <3>4, <3>5 DEF ImagesOwed
  <2> QED
    BY <2>2, <2>3
<1> QED
  BY <1>6, <1>7 DEF OwedSound

LEMMA Pubdir50Owed ==
  ASSUME Typed, Typed', OwedSound, Client, NEW seq \in Seqs, Pubdir50(seq)
  PROVE  OwedSound'
<1>1. UNCHANGED <<wire, owed>> /\ toServer \in Seq(ForServer) /\ asked \in Memories
      /\ asked.searches \in Int
  BY ClientCalls DEF Typed, Memories
<1>2. PICK clock \in Clocks, fate \in Fates(1) :
        LET sent == IF seq # 0 THEN seq ELSE clock[2]
        IN  /\ Called("search", IF fate.res = -1 THEN 0 ELSE clock[1])
            /\ Sends(<<[type |-> "PUBDIR50_REQUEST", seq |-> sent]>>, fate)
            /\ asked' = [asked EXCEPT !.searches = @ + Cardinality(fate.through),
                                      !.numbers = IF fate.res = 0 THEN @ \cup {clock[1]} ELSE @]
            /\ UNCHANGED <<userlistBlocks, userlistReply, images>>
  BY DEF Pubdir50
<1> DEFINE number == IF seq # 0 THEN seq ELSE clock[2]
           packet == [type |-> "PUBDIR50_REQUEST", seq |-> number]
<1>3. packet \in ForServer /\ packet \in Searches
  <2>1. number \in Numbers
    BY DEF Numbers
  <2> HIDE DEF number
  <2> QED
    BY <2>1 DEF ForServer, Searches
<1>4. Sends(<<packet>>, fate)
  BY <1>2
<1> HIDE DEF packet
<1>5. asked'.searches = asked.searches + Cardinality(fate.through) /\ asked'.images = asked.images
  BY <1>1, <1>2 DEF Memories
<1> DEFINE got == Cardinality(fate.through)
           part == Picked(<<packet>>, fate.through)
<1>6. part \in Seq(ForServer) /\ toServer' = toServer \o part /\ got \in {0, 1}
  BY <1>3, <1>4, 0 \in Nat, TallyOne DEF Sends
<1>7. \A i \in 1..Len(part) : part[i] = packet
  BY <1>3, 0 \in Nat, TallyOne
<1>8. SearchesOwed'
  <2>1. PICK taken, answered, sent \in Nat :
          /\ Tally(wire["server"], SearchReplies, taken, answered)
          /\ Tally(toServer, Searches, answered, sent)
          /\ sent - taken <= asked.searches
    BY DEF OwedSound, SearchesOwed
  <2>2. Tally(part, Searches, sent, sent + got)
    BY <1>3, TallyOne
  <2>3. Tally(toServer', Searches, answered, sent + got)
    <3> HIDE DEF part
    <3> QED
      BY <1>1, <1>6, <2>1, <2>2, TallyOn
  <2>4. (sent + got) - taken <= asked'.searches /\ sent + got \in Nat
    <3>1. got \in Nat
      BY <1>6
    <3> QED
      BY <1>1, <1>5, <2>1, <3>1
  <2> QED
    BY <1>1, <2>1, <2>3, <2>4 DEF SearchesOwed
<1>9. ASSUME NEW p \in Peers PROVE ImagesOwed(p)'
  <2>1. packet \notin Asks(p)
    BY <1>3 DEF Asks, ImageRequests, Searches
  <2>2. Steady(toServer, toServer', Asks(p))
    <3> HIDE DEF part
    <3> QED
      BY <1>1, <1>6, <1>7, <2>1, SteadyOn
  <2> QED
    BY <1>1, <1>5, <2>2, ImagesLeft, SteadySame DEF OwedSound
<1> QED
  BY <1>8, <1>9 DEF OwedSound

LEMMA ClientOwed ==
  ASSUME Typed, Typed', OwedSound, Client
  PROVE  OwedSound'
<1>1. asked \in Memories
  BY DEF Typed
<1>2. ASSUME NEW list \in Lists, UserlistPut(list) PROVE OwedSound'
  <2> DEFINE packets == UserlistPackets(list)
  <2>1. packets \in Seq(ForServer) /\ packets \in Seq(ListRequests)
    BY ListsAssumption, UserlistPacketsType
  <2>2. PICK fate \in Fates(Len(packets)) :
          /\ Sends(packets, fate)
          /\ asked' = [AsksList(asked, "put") EXCEPT !.list = list]
    BY <1>2 DEF UserlistPut
  <2> HIDE DEF packets
  <2>3. UNCHANGED <<asked.searches, asked.images>>
    BY <1>1, <2>2 DEF AsksList, Memories
  <2>4. \A i \in 1..Len(packets) : packets[i] \in ListRequests
    BY <2>1, ElementOfSeq
  <2>5. \A i \in 1..Len(packets) : packets[i] \notin ImageRequests /\ packets[i] \notin Searches
    BY <2>4 DEF ListRequests, ImageRequests, Searches
  <2> QED
    BY <2>1, <2>2, <2>3, <2>5, CallOwed
<1>3. ASSUME UserlistGet PROVE OwedSound'
  <2> DEFINE packets == <<[type |-> "USERLIST_GET"]>>
  <2>1. PICK fate \in Fates(1) :
          Sends(packets, fate) /\ asked' = AsksList(asked, "get")
    BY <1>3 DEF UserlistGet
  <2>2. packets \in Seq(ForServer) /\ Len(packets) = 1 /\ packets[1] = [type |-> "USERLIST_GET"]
    BY DEF ForServer, ListRequests
  <2> HIDE DEF packets
  <2>3. UNCHANGED <<asked.searches, asked.images>>
    BY <1>1, <2>1 DEF AsksList, Memories
  <2>4. packets[1] \notin ImageRequests /\ packets[1] \notin Searches
    BY <2>1, <2>2 DEF ImageRequests, Searches
  <2>5. /\ fate \in Fates(Len(packets))
        /\ \A i \in 1..Len(packets) : packets[i] \notin ImageRequests /\ packets[i] \notin Searches
    BY <2>2, <2>4
  <2> QED
    BY <2>1, <2>2, <2>3, <2>5, CallOwed
<1>4. ASSUME NEW list \in ContactLists, Notify(list) PROVE OwedSound'
  <2> DEFINE packets == NotifyPackets(list)
  <2>1. packets \in Seq(ForServer) /\ packets \in Seq(NoteRequests)
    BY ListsAssumption, NotifyPacketsType
  <2>2. PICK fate \in Fates(Len(packets)) :
          /\ Sends(packets, fate)
          /\ asked' = [asked EXCEPT !.contacts = ToSet(list)]
    BY <1>4 DEF Notify
  <2> HIDE DEF packets
  <2>3. UNCHANGED <<asked.searches, asked.images>>
    BY <1>1, <2>2 DEF Memories
  <2>4. \A i \in 1..Len(packets) : packets[i] \in NoteRequests
    BY <2>1, ElementOfSeq
  <2>5. \A i \in 1..Len(packets) : packets[i] \notin ImageRequests /\ packets[i] \notin Searches
    BY <2>4 DEF NoteRequests, NoteTypes, ImageRequests, Searches
  <2> QED
    BY <2>1, <2>2, <2>3, <2>5, CallOwed
<1>5. ASSUME NEW uin \in Uins, NEW type \in {"ADD_NOTIFY", "REMOVE_NOTIFY"},
             AddOrRemoveNotify(uin, type)
      PROVE  OwedSound'
  <2> DEFINE packet == [type |-> type, data |-> <<uin>>]
             packets == <<packet>>
  <2>1. PICK fate \in Fates(1) :
          /\ Sends(packets, fate)
          /\ asked' = [asked EXCEPT !.contacts = IF type = "ADD_NOTIFY" THEN @ \cup {uin}
                                                 ELSE @ \ {uin}]
    BY <1>5 DEF AddOrRemoveNotify
  <2>2. packet \in NoteRequests
    <3>1. uin \in Nat
      BY ListsAssumption
    <3>2. <<uin>> \in Seq(Nat)
      BY <3>1
    <3> QED
      BY <3>2 DEF NoteRequests, NoteTypes
  <2> HIDE DEF packet
  <2>3. packets \in Seq(ForServer) /\ Len(packets) = 1 /\ packets[1] = packet
    BY <2>2 DEF ForServer
  <2> HIDE DEF packets
  <2>4. UNCHANGED <<asked.searches, asked.images>>
    BY <1>1, <2>1 DEF Memories
  <2>5. packets[1] \notin ImageRequests /\ packets[1] \notin Searches
    BY <2>1, <2>2, <2>3 DEF NoteRequests, NoteTypes, ImageRequests, Searches
  <2>6. /\ fate \in Fates(Len(packets))
        /\ \A i \in 1..Len(packets) : packets[i] \notin ImageRequests /\ packets[i] \notin Searches
    BY <2>3, <2>5
  <2> QED
    BY <2>1, <2>3, <2>4, <2>6, CallOwed
<1> QED
  BY <1>2, <1>3, <1>4, <1>5, ImageRequestOwed, Pubdir50Owed DEF Client


LEMMA ServerOwed ==
  ASSUME Typed, Typed', OwedSound, ServerTakes
  PROVE  OwedSound'
<1> DEFINE packet == Head(toServer)
<1>1. /\ toServer \in Seq(ForServer) /\ toServer # <<>> /\ toServer' = Tail(toServer)
      /\ UNCHANGED asked /\ packet \in ForServer /\ stored \in Seq(Nat) /\ WireTyped
      /\ owed \in [Peers -> Seq(Images)] /\ wire["server"] \in Seq(FromServer)
  BY HeadOf DEF ServerTakes, Typed, WireTyped
<1>2. /\ packet \in ImageRequests <=> packet.type = "SEND_MSG"
      /\ packet \in Searches <=> packet.type = "PUBDIR50_REQUEST"
  BY <1>1, RequestTypes
<1> HIDE DEF packet
<1>3. \A p \in Peers : wire'[p] = wire[p]
  <2>1. "server" \in Sources /\ Peers \subseteq Sources \ {"server"}
    BY PeersAssumption DEF Sources
  <2>2. wire \in [Sources -> Seq(FromPeers \cup FromServer)]
    BY <1>1 DEF WireTyped
  <2>3. wire' = wire \/ \E packets \in Seq(FromServer) : Replies(packets)
    BY ServerRepliesOnly
  <2> QED
    BY <2>1, <2>2, <2>3 DEF Replies
<1>4. ASSUME packet \notin ImageRequests, UNCHANGED owed
      PROVE  \A p \in Peers : ImagesOwed(p)'
  <2> SUFFICES ASSUME NEW p \in Peers PROVE ImagesOwed(p)'
    OBVIOUS
  <2>1. packet \notin Asks(p)
    BY <1>4 DEF Asks
  <2>2. Steady(toServer, toServer', Asks(p))
    BY <1>1, <2>1, SteadyRest DEF packet
  <2> QED
    BY <1>1, <1>3, <1>4, <2>2, ImagesLeft, SteadySame DEF OwedSound
<1>5. ASSUME packet \notin Searches, Steady(wire["server"], wire["server"]', SearchReplies)
      PROVE  SearchesOwed'
  <2>1. Steady(toServer, toServer', Searches)
    BY <1>1, <1>5, SteadyRest DEF packet
  <2> QED
    BY <1>1, <1>5, <2>1, SearchesLeft DEF OwedSound
<1>6. ASSUME NEW packets \in Seq(FromServer), Replies(packets),
             \A i \in 1..Len(packets) : packets[i] \notin SearchReplies
      PROVE  Steady(wire["server"], wire["server"]', SearchReplies)
  BY <1>1, <1>6, RepliesTyped, SteadyOn, ZenonT(40)
<1>7. ASSUME ServerStores(packet) PROVE OwedSound'
  <2> DEFINE type == IF packet.type = "USERLIST_PUT" THEN "PUT_REPLY" ELSE "PUT_MORE_REPLY"
             reply == UserlistReply(type, <<>>)
  <2>1. reply \in FromServer /\ reply \notin SearchReplies
    <3>1. type \in {"PUT_REPLY", "PUT_MORE_REPLY"} /\ <<>> \in Seq(Nat)
      OBVIOUS
    <3> HIDE DEF type
    <3> QED
      BY <3>1 DEF FromServer, ListReplies, UserlistReply, SearchReplies
  <2>2. Replies(<<reply>>) /\ UNCHANGED owed /\ packet.type \in {"USERLIST_PUT", "USERLIST_PUT_MORE"}
    BY <1>7 DEF ServerStores
  <2> HIDE DEF reply
  <2>3. <<reply>> \in Seq(FromServer) /\ \A i \in 1..Len(<<reply>>) : <<reply>>[i] \notin SearchReplies
    BY <2>1
  <2>4. packet \notin ImageRequests /\ packet \notin Searches
    BY <1>2, <2>2
  <2> QED
    BY <1>4, <1>5, <1>6, <2>2, <2>3, <2>4 DEF OwedSound
<1>8. ASSUME ServerLists(packet) PROVE OwedSound'
  <2> DEFINE packets == UserlistParts(stored)
  <2>1. packets \in Seq(FromServer) /\ packets \in Seq(ListReplies)
    BY <1>1, UserlistPartsType
  <2>2. Replies(packets) /\ UNCHANGED owed /\ packet.type = "USERLIST_GET"
    BY <1>8 DEF ServerLists, farEnd
  <2> HIDE DEF packets
  <2>3. \A i \in 1..Len(packets) : packets[i] \notin SearchReplies
    <3>1. \A i \in 1..Len(packets) : packets[i] \in ListReplies
      BY <2>1, ElementOfSeq
    <3> QED
      BY <3>1 DEF ListReplies, SearchReplies
  <2>4. packet \notin ImageRequests /\ packet \notin Searches
    BY <1>2, <2>2
  <2> QED
    BY <1>4, <1>5, <1>6, <2>1, <2>2, <2>3, <2>4 DEF OwedSound
<1>9. ASSUME ServerNotes(packet) PROVE OwedSound'
  <2>1. UNCHANGED <<wire, owed>>
        /\ packet.type \in {"LIST_EMPTY", "NOTIFY_FIRST", "NOTIFY_LAST", "ADD_NOTIFY", "REMOVE_NOTIFY"}
    BY <1>9 DEF ServerNotes
  <2>2. packet \notin ImageRequests /\ packet \notin Searches
    BY <1>2, <2>1
  <2> QED
    BY <1>4, <1>5, <2>1, <2>2, SteadySame DEF OwedSound
<1>10. ASSUME ServerPassesOn(packet) PROVE OwedSound'
  <2>1. /\ packet.type = "SEND_MSG" /\ wire' = wire
        /\ owed' = [owed EXCEPT ![packet.to] = Append(@, packet.image)]
    BY <1>10 DEF ServerPassesOn
  <2>2. /\ packet \in ImageRequests /\ packet \notin Searches
        /\ packet.to \in Peers /\ packet.image \in Images
    BY <1>2, <2>1 DEF ImageRequests
  <2>3. SearchesOwed'
    BY <1>5, <2>1, <2>2, SteadySame
  <2>4. ASSUME NEW p \in Peers PROVE ImagesOwed(p)'
    <3>1. CASE p # packet.to
      <4>1. owed'[p] = owed[p]
        BY <1>1, <2>1, <3>1
      <4>2. packet \notin Asks(p)
        BY <3>1 DEF Asks
      <4>3. Steady(toServer, toServer', Asks(p))
        BY <1>1, <4>2, SteadyRest DEF packet
      <4> QED
        BY <1>1, <1>3, <4>1, <4>3, ImagesLeft, SteadySame DEF OwedSound
    <3>2. CASE p = packet.to
      <4>1. PICK taken, answered, passed, sent \in Nat :
              /\ Tally(wire[p], Ends, taken, answered)
              /\ Tally(owed[p], Images, answered, passed)
              /\ Tally(toServer, Asks(p), passed, sent)
              /\ sent - taken <= asked.images[p]
        BY DEF OwedSound, ImagesOwed
      <4>2. packet \in Asks(p)
        BY <2>2, <3>2 DEF Asks
      <4>3. Tally(toServer', Asks(p), passed + 1, sent)
        BY <1>1, <4>1, <4>2, TallyRest DEF packet
      <4>4. owed[p] \in Seq(Images) /\ owed'[p] = Append(owed[p], packet.image)
        BY <1>1, <2>1, <3>2
      <4>5. owed'[p] = owed[p] \o <<packet.image>>
        BY <2>2, <4>4, AppendIsConcat
      <4>6. /\ <<packet.image>> \in Seq(Images)
            /\ Tally(<<packet.image>>, Images, passed, passed + 1)
        BY <2>2, TallySingle
      <4>7. Tally(owed'[p], Images, answered, passed + 1)
        BY <4>1, <4>4, <4>5, <4>6, TallyOn
      <4>8. passed + 1 \in Nat
        OBVIOUS
      <4> QED
        BY <1>1, <1>3, <4>1, <4>3, <4>7, <4>8 DEF ImagesOwed
    <3> QED
      BY <3>1, <3>2
  <2> QED
    BY <2>3, <2>4 DEF OwedSound
<1>11. ASSUME ServerFinds(packet) PROVE OwedSound'
  <2>1. packet \in Searches /\ packet \notin ImageRequests /\ UNCHANGED owed
    BY <1>2, <1>11 DEF ServerFinds, farEnd
  <2>2. PICK reply \in SearchReplies : Replies(<<reply>>)
    BY <1>1, <1>11, SearchAnswered
  <2>3. reply \in FromServer /\ reply \in SearchReplies
    BY DEF FromServer
  <2>4. PICK taken, answered, sent \in Nat :
          /\ Tally(wire["server"], SearchReplies, taken, answered)
          /\ Tally(toServer, Searches, answered, sent)
          /\ sent - taken <= asked.searches
    BY DEF OwedSound, SearchesOwed
  <2>5. Tally(toServer', Searches, answered + 1, sent)
    BY <1>1, <2>1, <2>4, TallyRest DEF packet
  <2>6. <<reply>> \in Seq(FromServer) /\ Tally(<<reply>>, SearchReplies, answered, answered + 1)
    BY <2>3, TallySingle
  <2>7. wire'["server"] = wire["server"] \o <<reply>>
    BY <1>1, <2>2, <2>6, RepliesTyped
  <2>8. Tally(wire'["server"], SearchReplies, taken, answered + 1)
    BY <1>1, <2>4, <2>6, <2>7, TallyOn
  <2>9. answered + 1 \in Nat
    OBVIOUS
  <2>10. SearchesOwed'
    BY <1>1, <2>4, <2>5, <2>8, <2>9 DEF SearchesOwed
  <2> QED
    BY <1>4, <2>1, <2>10 DEF OwedSound
<1> QED
  BY <1>7, <1>8, <1>9, <1>10, <1>11 DEF ServerTakes, packet

\* The last chunk of an image, and no other, answers the request for it.
LEMMA FirstChunks ==
  ASSUME NEW image \in Images, NEW n \in 0..ChunkCount(image.size), NEW whole \in BOOLEAN,
         NEW x \in Nat
  PROVE  LET part == SubSeq(ImagePackets(image, whole), 1, n)
         IN  /\ part \in Seq(FromPeers)
             /\ Tally(part, Ends, x,
                      IF n = ChunkCount(image.size) /\ n # 0 THEN x + 1 ELSE x)
<1> DEFINE packets == ImagePackets(image, whole)
           part == SubSeq(packets, 1, n)
<1>1. /\ packets \in Seq(FromPeers) /\ packets \in Seq(Chunks)
      /\ Len(packets) = ChunkCount(image.size) /\ Len(packets) \in Nat /\ image.size \in Nat
  BY ImagePacketsType, ImagesAssumption
<1>2. ASSUME NEW k \in 1..Len(packets)
      PROVE  packets[k] \in Ends <=> k = Len(packets)
  <2> DEFINE chunk == packets[k]
  <2>1. k \in 1..ChunkCount(image.size)
    BY <1>1
  <2>2. /\ chunk.image = image /\ ChunkTo(chunk) = ChunkEnd(image.size, k)
        /\ chunk.option = IF k = 1 THEN "IMAGE_FIRST" ELSE "IMAGE_MORE"
    BY <2>1, ChunkOf
  <2>3. ChunkEnd(image.size, k) = image.size <=> k = Len(packets)
    BY <1>1, <2>1, ChunkEnds
  <2> HIDE DEF packets
  <2>4. chunk \in Chunks
    BY <1>1, ElementOfSeq
  <2> HIDE DEF chunk
  <2>5. chunk \notin NoImages
    BY <2>2 DEF NoImages
  <2> QED
    BY <2>2, <2>3, <2>4, <2>5 DEF Ends, chunk
<1> HIDE DEF packets
<1>3. /\ part \in Seq(FromPeers) /\ Len(part) = n /\ n \in Nat /\ n <= Len(packets)
      /\ \A i \in 1..n : part[i] = packets[i] /\ i \in 1..Len(packets)
  <2>1. n \in 0..Len(packets)
    BY <1>1
  <2> QED
    BY <1>1, <2>1, FirstPart
<1> HIDE DEF part
<1>4. CASE n = Len(packets) /\ n # 0
  <2>1. \A i \in 1..Len(part) : part[i] \in Ends <=> i = Len(part)
    BY <1>2, <1>3, <1>4
  <2>2. Len(part) # 0
    BY <1>3, <1>4
  <2>3. Tally(part, Ends, x, x + 1)
    BY <1>3, <2>1, <2>2, TallyLast
  <2> QED
    BY <1>1, <1>3, <1>4, <2>3 DEF packets, part
<1>5. CASE ~(n = Len(packets) /\ n # 0)
  <2>1. \A i \in 1..Len(part) : part[i] \notin Ends
    BY <1>1, <1>2, <1>3, <1>5
  <2>2. Tally(part, Ends, x, x)
    BY <1>3, <2>1, TallyNone
  <2> QED
    BY <1>1, <1>3, <1>5, <2>2 DEF packets, part
<1> QED
  BY <1>4, <1>5

LEMMA PeerOwed ==
  ASSUME Typed, Typed', OwedSound, NEW p \in Peers, PeerAnswers(p)
  PROVE  OwedSound'
<1> DEFINE image == Head(owed[p])
           all == ChunkCount(image.size)
           packets(n) == ImagePackets(image, n = all)
           none == [type |-> "RECV_MSG", option |-> "IMAGE_NONE", image |-> image]
           unnamed == [type |-> "RECV_MSG", option |-> "IMAGE_UNNAMED", image |-> image]
<1>1. /\ owed \in [Peers -> Seq(Images)] /\ owed[p] # <<>> /\ owed' = [owed EXCEPT ![p] = Tail(@)]
      /\ UNCHANGED toServer /\ asked \in Memories /\ asked.images \in [Peers -> Int]
      /\ wire \in [Sources -> Seq(FromPeers \cup FromServer)] /\ wire[p] \in Seq(FromPeers)
      /\ p \in Sources /\ p # "server" /\ "server" \in Sources
  BY PeersAssumption DEF PeerAnswers, Typed, WireTyped, Memories, Sources
<1>2. image \in Images /\ owed[p] \in Seq(Images) /\ owed'[p] = Tail(owed[p])
  BY <1>1, HeadOf
<1>3. /\ none \in FromPeers /\ none \in Ends
  BY <1>2 DEF FromPeers, NoImages, Ends
<1>4. unnamed \in FromPeers /\ unnamed \notin Ends
  <2>1. unnamed \in FromPeers /\ unnamed.option = "IMAGE_UNNAMED"
    BY <1>2 DEF FromPeers, Unnamed
  <2> HIDE DEF unnamed
  <2>2. unnamed \notin Chunks
    BY <2>1, ChunkShape, SMTT(30)
  <2> QED
    BY <2>1, <2>2 DEF Ends, NoImages
<1>5. \/ \E n \in 0 .. all :
            /\ wire' = [wire EXCEPT ![p] = @ \o SubSeq(packets(n), 1, n)]
            /\ asked' = IF n = all THEN asked ELSE [asked EXCEPT !.images[p] = @ - 1]
      \/ wire' = [wire EXCEPT ![p] = Append(@, none)] /\ UNCHANGED asked
      \/ /\ wire' = [wire EXCEPT ![p] = Append(@, unnamed)]
         /\ asked' = [asked EXCEPT !.images[p] = @ - 1]
  BY DEF PeerAnswers
<1> HIDE DEF packets, all, none, unnamed
<1>6. PICK taken, answered, passed, sent \in Nat :
        /\ Tally(wire[p], Ends, taken, answered)
        /\ Tally(owed[p], Images, answered, passed)
        /\ Tally(toServer, Asks(p), passed, sent)
        /\ sent - taken <= asked.images[p]
  BY DEF OwedSound, ImagesOwed
<1>7. Tally(owed'[p], Images, answered + 1, passed)
  <2> HIDE DEF image
  <2> QED
    BY <1>1, <1>2, <1>6, TallyRest DEF image
<1>8. ASSUME NEW part \in Seq(FromPeers), wire' = [wire EXCEPT ![p] = @ \o part],
             asked'.searches = asked.searches,
             \A r \in Peers \ {p} : asked'.images[r] = asked.images[r],
             \/ /\ Tally(part, Ends, answered, answered + 1)
                /\ asked'.images[p] = asked.images[p]
             \/ /\ Tally(part, Ends, answered, answered)
                /\ asked'.images[p] >= asked.images[p] - 1
      PROVE  OwedSound'
  <2>1. wire'[p] = wire[p] \o part /\ \A r \in Sources \ {p} : wire'[r] = wire[r]
    BY <1>1, <1>8
  <2>2. SearchesOwed'
    BY <1>1, <1>8, <2>1, SearchesLeft, SteadySame DEF OwedSound
  <2>3. ASSUME NEW r \in Peers, r # p PROVE ImagesOwed(r)'
    <3>1. wire'[r] = wire[r] /\ owed'[r] = owed[r] /\ asked'.images[r] = asked.images[r]
      BY <1>1, <1>8, <2>1, <2>3 DEF Sources
    <3> QED
      BY <1>1, <3>1, ImagesLeft, SteadySame DEF OwedSound
  <2>4. ImagesOwed(p)'
    <3>1. CASE Tally(part, Ends, answered, answered + 1) /\ asked'.images[p] = asked.images[p]
      <4>1. Tally(wire'[p], Ends, taken, answered + 1)
        BY <1>1, <1>6, <1>8, <2>1, <3>1, TallyOn
      <4>2. answered + 1 \in Nat
        OBVIOUS
      <4> QED
        BY <1>1, <1>6, <1>7, <3>1, <4>1, <4>2 DEF ImagesOwed
    <3>2. CASE Tally(part, Ends, answered, answered) /\ asked'.images[p] >= asked.images[p] - 1
      <4>1. Tally(wire'[p], Ends, taken, answered)
        BY <1>1, <1>6, <1>8, <2>1, <3>2, TallyOn
      <4>2. wire'[p] \in Seq(FromPeers)
        BY <1>1, <1>8, <2>1, ConcatProperties
      <4>3. Tally(wire'[p], Ends, taken + 1, answered + 1)
        BY <4>1, <4>2, TallyShift
      <4>4. sent - (taken + 1) <= asked'.images[p] /\ taken + 1 \in Nat /\ answered + 1 \in Nat
        <5>1. asked'.images[p] \in Int /\ asked.images[p] \in Int
          BY <1>1 DEF Typed, Memories
        <5> QED
          BY <1>6, <3>2, <5>1
      <4> QED
        BY <1>1, <1>6, <1>7, <4>3, <4>4 DEF ImagesOwed
    <3> QED
      BY <1>8, <3>1, <3>2
  <2> QED
    BY <2>2, <2>3, <2>4 DEF OwedSound
<1>9. ASSUME NEW n \in 0 .. all,
             wire' = [wire EXCEPT ![p] = @ \o SubSeq(packets(n), 1, n)],
             asked' = IF n = all THEN asked ELSE [asked EXCEPT !.images[p] = @ - 1]
      PROVE  OwedSound'
  <2> DEFINE part == SubSeq(packets(n), 1, n)
  <2>1. /\ part \in Seq(FromPeers)
        /\ Tally(part, Ends, answered, IF n = all /\ n # 0 THEN answered + 1 ELSE answered)
    BY <1>2, <1>9, FirstChunks DEF packets, all
  <2>2. wire' = [wire EXCEPT ![p] = @ \o part]
    BY <1>9
  <2> HIDE DEF part
  <2>3. CASE n = all /\ n # 0
    <3>1. Tally(part, Ends, answered, answered + 1) /\ asked' = asked
      BY <1>9, <2>1, <2>3
    <3> QED
      BY <1>8, <2>1, <2>2, <3>1
  <2>4. CASE ~(n = all /\ n # 0)
    <3>1. Tally(part, Ends, answered, answered)
      BY <2>1, <2>4
    <3>2. /\ asked'.searches = asked.searches
          /\ \A r \in Peers \ {p} : asked'.images[r] = asked.images[r]
          /\ asked'.images[p] >= asked.images[p] - 1
      BY <1>1, <1>9 DEF Memories
    <3> QED
      BY <1>8, <2>1, <2>2, <3>1, <3>2
  <2> QED
    BY <2>3, <2>4
<1>10. ASSUME wire' = [wire EXCEPT ![p] = Append(@, none)], UNCHANGED asked
       PROVE  OwedSound'
  <2>1. <<none>> \in Seq(FromPeers) /\ Tally(<<none>>, Ends, answered, answered + 1)
    BY <1>3, TallySingle
  <2>2. Append(wire[p], none) = wire[p] \o <<none>>
    BY <1>1, <1>3, AppendIsConcat
  <2>3. wire' = [wire EXCEPT ![p] = wire[p] \o <<none>>]
    BY <1>10, <2>2
  <2> QED
    BY <1>8, <1>10, <2>1, <2>3
<1>11. ASSUME wire' = [wire EXCEPT ![p] = Append(@, unnamed)],
              asked' = [asked EXCEPT !.images[p] = @ - 1]
       PROVE  OwedSound'
  <2>1. <<unnamed>> \in Seq(FromPeers) /\ Tally(<<unnamed>>, Ends, answered, answered)
    BY <1>4, TallySingle
  <2>2. Append(wire[p], unnamed) = wire[p] \o <<unnamed>>
    BY <1>1, <1>4, AppendIsConcat
  <2>3. wire' = [wire EXCEPT ![p] = wire[p] \o <<unnamed>>]
    BY <1>11, <2>2
  <2>4. /\ asked'.searches = asked.searches
        /\ \A r \in Peers \ {p} : asked'.images[r] = asked.images[r]
        /\ asked'.images[p] >= asked.images[p] - 1
    BY <1>1, <1>11 DEF Memories
  <2> QED
    BY <1>8, <2>1, <2>3, <2>4
<1> QED
  BY <1>5, <1>9, <1>10, <1>11

LEMMA UnaskedOwed ==
  ASSUME Typed, Typed', OwedSound, Unasked
  PROVE  OwedSound'
<1>1. /\ UNCHANGED <<toServer, owed, asked>> /\ WireTyped
      /\ wire \in [Sources -> Seq(FromPeers \cup FromServer)]
      /\ wire["server"] \in Seq(FromServer) /\ \A p \in Peers : wire[p] \in Seq(FromPeers)
      /\ Peers \subseteq Sources \ {"server"} /\ "server" \in Sources
  BY PeersAssumption DEF Unasked, farEnd, Typed, WireTyped, Sources
<1>2. ASSUME Steady(wire["server"], wire["server"]', SearchReplies),
             \A p \in Peers : Steady(wire[p], wire[p]', Ends)
      PROVE  OwedSound'
  <2>1. SearchesOwed'
    BY <1>1, <1>2, SearchesLeft, SteadySame DEF OwedSound
  <2>2. \A p \in Peers : ImagesOwed(p)'
    BY <1>1, <1>2, ImagesLeft, SteadySame DEF OwedSound
  <2> QED
    BY <2>1, <2>2 DEF OwedSound
<1>3. ASSUME NEW type \in Notices, Replies(<<[type |-> type]>>)
      PROVE  OwedSound'
  <2> DEFINE packet == [type |-> type]
  <2>1. packet \in FromServer /\ packet \notin SearchReplies
    <3>1. packet \in FromServer /\ packet.type # "PUBDIR50_REPLY"
      BY NoticesAssumption DEF FromServer, Notes
    <3> QED
      BY <3>1 DEF SearchReplies
  <2>2. Replies(<<packet>>)
    BY <1>3
  <2> HIDE DEF packet
  <2>3. /\ wire'["server"] = wire["server"] \o <<packet>>
        /\ \A p \in Peers : wire'[p] = wire[p]
    BY <1>1, <2>1, <2>2, ReplyOfServer, RepliesTyped
  <2>4. Steady(wire["server"], wire["server"]', SearchReplies)
    BY <1>1, <2>1, <2>3, SteadyOne
  <2> QED
    BY <1>2, <2>3, <2>4, SteadySame
<1>4. ASSUME NEW p \in Peers, NEW packet \in Conferences,
             wire' = [wire EXCEPT ![p] = Append(@, packet)]
      PROVE  OwedSound'
  <2>1. packet \in FromPeers /\ packet \notin Ends
    <3>1. packet \in FromPeers
      BY DEF FromPeers
    <3>2. packet \notin Chunks /\ packet \notin NoImages
      BY <3>1, MessageTypes
    <3> QED
      BY <3>1, <3>2 DEF Ends
  <2>2. /\ Append(wire[p], packet) = wire[p] \o <<packet>>
        /\ wire'[p] = Append(wire[p], packet)
        /\ \A r \in Sources \ {p} : wire'[r] = wire[r]
    BY <1>1, <1>4, <2>1, AppendIsConcat
  <2>3. ASSUME NEW r \in Peers PROVE Steady(wire[r], wire[r]', Ends)
    <3>1. CASE r = p
      <4>1. Steady(wire[p], wire[p] \o <<packet>>, Ends)
        BY <1>1, <2>1, SteadyOne
      <4>2. wire'[p] = wire[p] \o <<packet>>
        BY <2>2
      <4> QED
        BY <3>1, <4>1, <4>2
    <3>2. CASE r # p
      BY <1>1, <2>2, <3>2, SteadySame
    <3> QED
      BY <3>1, <3>2
  <2>4. wire'["server"] = wire["server"]
    BY <1>1, <2>2
  <2> QED
    BY <1>2, <2>3, <2>4, SteadySame
<1>5. \/ \E p \in Peers, packet \in Conferences : wire' = [wire EXCEPT ![p] = Append(@, packet)]
      \/ \E type \in Notices : Replies(<<[type |-> type]>>)
  <2>1. ASSUME NEW p \in Peers, NEW group \in Groups, NEW stale \in ToSet(group),
               NEW i \in Ours(group),
               wire' = [wire EXCEPT ![p] = Append(@, ConferPackets(p, group, stale)[i])]
        PROVE  \E q \in Peers, packet \in Conferences : wire' = [wire EXCEPT ![q] = Append(@, packet)]
    <3> DEFINE packet == ConferPackets(p, group, stale)[i]
    <3>1. packet \in Conferences
      <4>1. packet \in {ConferPackets(q, group, st)[j] :
                           q \in Peers, st \in ToSet(group), j \in Ours(group)}
        OBVIOUS
      <4> QED
        BY <4>1 DEF Conferences
    <3> HIDE DEF packet
    <3>2. wire' = [wire EXCEPT ![p] = Append(@, packet)]
      BY <2>1 DEF packet
    <3> QED
      BY <3>1, <3>2
  <2> QED
    BY <2>1 DEF Unasked, Ours
<1> QED
  BY <1>3, <1>4, <1>5

LEMMA WatchOwed ==
  ASSUME Typed, Typed', ImagesSound, OwedSound, NEW s \in Sources, WatchPacket(s)
  PROVE  OwedSound'
<1> DEFINE packet == Head(wire[s])
<1>1. /\ wire[s] # <<>> /\ wire'[s] = Tail(wire[s])
      /\ \A r \in Sources \ {s} : wire'[r] = wire[r]
      /\ UNCHANGED <<toServer, owed>> /\ asked \in Memories /\ asked.images \in [Peers -> Int]
      /\ wire["server"] \in Seq(FromServer) /\ "server" \in Sources
      /\ Peers \subseteq Sources \ {"server"} /\ \A p \in Peers : wire[p] \in Seq(FromPeers)
  BY WatchCases, PeersAssumption DEF Typed, WireTyped, Memories, Sources
<1>2. ASSUME s = "server", UNCHANGED asked.images,
             \/ packet \notin SearchReplies /\ asked'.searches = asked.searches
             \/ packet \in SearchReplies /\ asked'.searches >= asked.searches - 1
      PROVE  OwedSound'
  <2>1. ASSUME NEW p \in Peers PROVE ImagesOwed(p)'
    <3>1. wire'[p] = wire[p]
      BY <1>1, <1>2
    <3> QED
      BY <1>1, <1>2, <3>1, ImagesLeft, SteadySame DEF OwedSound
  <2>2. CASE packet \notin SearchReplies
    <3>1. Steady(wire["server"], wire["server"]', SearchReplies)
      BY <1>1, <1>2, <2>2, SteadyRest
    <3>2. SearchesOwed'
      BY <1>1, <1>2, <2>2, <3>1, SearchesLeft, SteadySame DEF OwedSound
    <3> QED
      BY <2>1, <3>2 DEF OwedSound
  <2>3. CASE packet \in SearchReplies
    <3>1. PICK taken, answered, sent \in Nat :
            /\ Tally(wire["server"], SearchReplies, taken, answered)
            /\ Tally(toServer, Searches, answered, sent)
            /\ sent - taken <= asked.searches
      BY DEF OwedSound, SearchesOwed
    <3>2. Tally(wire'["server"], SearchReplies, taken + 1, answered)
      BY <1>1, <1>2, <2>3, <3>1, TallyRest
    <3>3. sent - (taken + 1) <= asked'.searches /\ taken + 1 \in Nat
      <4>1. asked.searches \in Int /\ asked'.searches \in Int
        BY DEF Typed, Memories
      <4> QED
        BY <1>2, <2>3, <3>1, <4>1
    <3>4. SearchesOwed'
      BY <1>1, <3>1, <3>2, <3>3 DEF SearchesOwed
    <3> QED
      BY <2>1, <3>4 DEF OwedSound
  <2> QED
    BY <2>2, <2>3
<1>3. ASSUME s \in Peers, asked'.searches = asked.searches,
             \A r \in Peers \ {s} : asked'.images[r] = asked.images[r],
             \/ asked'.images[s] = asked.images[s]
             \/ packet \in Ends /\ asked'.images[s] = asked.images[s] - 1
      PROVE  OwedSound'
  <2>1. SearchesOwed'
    <3>1. wire'["server"] = wire["server"]
      BY <1>1, <1>3
    <3> QED
      BY <1>1, <1>3, <3>1, SearchesLeft, SteadySame DEF OwedSound
  <2>2. ASSUME NEW p \in Peers PROVE ImagesOwed(p)'
    <3>1. CASE p # s
      <4>1. wire'[p] = wire[p] /\ asked'.images[p] = asked.images[p]
        BY <1>1, <1>3, <3>1
      <4> QED
        BY <1>1, <4>1, ImagesLeft, SteadySame DEF OwedSound
    <3>2. CASE p = s /\ packet \notin Ends
      <4>1. Steady(wire[p], wire[p]', Ends)
        BY <1>1, <3>2, SteadyRest
      <4>2. asked'.images[p] = asked.images[p]
        BY <1>3, <3>2
      <4> QED
        BY <1>1, <4>1, <4>2, ImagesLeft, SteadySame DEF OwedSound
    <3>3. CASE p = s /\ packet \in Ends
      <4>1. PICK taken, answered, passed, sent \in Nat :
              /\ Tally(wire[p], Ends, taken, answered)
              /\ Tally(owed[p], Images, answered, passed)
              /\ Tally(toServer, Asks(p), passed, sent)
              /\ sent - taken <= asked.images[p]
        BY DEF OwedSound, ImagesOwed
      <4>2. Tally(wire'[p], Ends, taken + 1, answered)
        BY <1>1, <3>3, <4>1, TallyRest
      <4>3. sent - (taken + 1) <= asked'.images[p] /\ taken + 1 \in Nat
        <5>1. asked.images[p] \in Int
          BY <1>1
        <5> QED
          BY <1>3, <3>3, <4>1, <5>1
      <4> QED
        BY <1>1, <4>1, <4>2, <4>3 DEF ImagesOwed
    <3> QED
      BY <3>1, <3>2, <3>3
  <2> QED
    BY <2>1, <2>2 DEF OwedSound
<1> HIDE DEF packet
<1>4. ASSUME s = "server", packet \in ListReplies, TakeUserlistReply(packet)
      PROVE  OwedSound'
  <2>1. packet \notin SearchReplies
    BY <1>4 DEF ListReplies, SearchReplies
  <2>2. asked' = asked \/ asked' = [asked EXCEPT !.request = "none"]
    BY <1>4 DEF TakeUserlistReply
  <2>3. asked'.images = asked.images /\ asked'.searches = asked.searches
    BY <1>1, <2>2 DEF Memories
  <2> QED
    BY <1>2, <1>4, <2>1, <2>3
<1>5. ASSUME s = "server", packet \in SearchReplies, TakePubdir50Reply(packet)
      PROVE  OwedSound'
  <2>1. \/ asked' = [asked EXCEPT !.searches = @ - 1]
        \/ \E hidden : asked' = [asked EXCEPT !.hidden = hidden]
    BY <1>5 DEF TakePubdir50Reply
  <2>2. asked'.images = asked.images /\ asked'.searches >= asked.searches - 1
    <3>1. asked.searches \in Int
      BY <1>1 DEF Memories
    <3>2. asked'.searches \in {asked.searches, asked.searches - 1} /\ asked'.images = asked.images
      BY <1>1, <2>1 DEF Memories
    <3> QED
      BY <3>1, <3>2
  <2> QED
    BY <1>2, <1>5, <2>2
<1>6. ASSUME s = "server", packet \in Notes, TakeNotifyReply(packet) \/ TakeNotice(packet)
      PROVE  OwedSound'
  <2>1. packet \notin SearchReplies
    BY <1>6, NoticesAssumption DEF Notes, SearchReplies
  <2>2. asked' = asked
    BY <1>6 DEF TakeNotifyReply, TakeNotice
  <2> QED
    BY <1>2, <1>6, <2>1, <2>2
<1>7. ASSUME s \in Peers, packet \in NoImages \cup Conferences, TakeMessage(s, packet)
      PROVE  OwedSound'
  <2>1. CASE packet.option = "IMAGE_NONE"
    <3>1. packet \in Ends
      <4>1. packet \in FromPeers
        BY <1>7 DEF FromPeers
      <4> QED
        BY <2>1, <4>1, MessageTypes DEF Ends
    <3>2. asked' = [asked EXCEPT !.images[s] = @ - 1]
      BY <1>7, <2>1 DEF TakeMessage
    <3>3. /\ asked'.searches = asked.searches /\ asked'.images[s] = asked.images[s] - 1
          /\ \A r \in Peers \ {s} : asked'.images[r] = asked.images[r]
      BY <1>1, <1>7, <3>2 DEF Memories
    <3> QED
      BY <1>3, <1>7, <3>1, <3>3
  <2>2. CASE packet.option # "IMAGE_NONE"
    <3>1. asked' = asked
      BY <1>7, <2>2 DEF TakeMessage
    <3> QED
      BY <1>3, <1>7, <3>1
  <2> QED
    BY <2>1, <2>2
<1>8. ASSUME s \in Peers, packet \in Chunks, TakeImage(s, packet)
      PROVE  OwedSound'
  <2>1. CASE asked' = asked
    BY <1>3, <1>8, <2>1
  <2>2. ASSUME NEW q \in 1..Len(images), Fits(images[q], s, packet.image),
               ImageGrows(s, q, packet)
        PROVE  OwedSound'
    <3> DEFINE filled == Filled(Begun(images[q], packet), packet.data)
               leaked == asked.leaked \/ filled.lost
    <3>1. \/ /\ Complete(filled)
             /\ asked' = [asked EXCEPT !.images[s] = @ - 1, !.leaked = leaked]
          \/ asked' = [asked EXCEPT !.leaked = leaked]
      BY <2>2 DEF ImageGrows
    <3>2. /\ images[q] \in Entries /\ EntryFits(images[q]) /\ EntrySound(images[q])
      BY <2>2, LenProperties, ElementOfSeq DEF Typed, SessionTyped, ImagesSound, QueueSound
    <3>3. packet = wire[s][1]
      BY <1>1, <1>8, HeadOf DEF packet
    <3>4. More(packet) => Reached(images[q], ChunkFrom(packet))
      BY <1>1, <1>8, <2>2, <3>3 DEF ImagesSound, HeadsFit
    <3>5. Reached(filled, ChunkTo(packet)) /\ SameKey(filled, images[q]) /\ filled \in Entries
      BY <1>8, <2>2, <3>2, <3>4, FilledSound
    <3> HIDE DEF filled, leaked
    <3>6. Complete(filled) => packet \in Ends
      <4> SUFFICES ASSUME Complete(filled) PROVE packet \in Ends
        OBVIOUS
      <4>1. filled.done >= filled.size /\ filled.done <= ChunkTo(packet)
            /\ filled.size = packet.image.size
        BY <2>2, <3>5 DEF Complete, Reached, SameKey, Fits
      <4>2. filled.done \in Nat /\ filled.size \in Nat
        BY <3>5 DEF Entries
      <4>3. ChunkTo(packet) \in Nat /\ ChunkTo(packet) <= packet.image.size
        BY <1>8, ChunkShape
      <4>4. ChunkTo(packet) = packet.image.size
        BY <4>1, <4>2, <4>3
      <4> QED
        BY <1>8, <4>4 DEF Ends
    <3>7. CASE Complete(filled) /\ asked' = [asked EXCEPT !.images[s] = @ - 1, !.leaked = leaked]
      <4>1. /\ asked'.searches = asked.searches /\ asked'.images[s] = asked.images[s] - 1
            /\ \A r \in Peers \ {s} : asked'.images[r] = asked.images[r]
        BY <1>1, <1>8, <3>7 DEF Memories
      <4> QED
        BY <1>3, <1>8, <3>6, <3>7, <4>1
    <3>8. CASE asked' = [asked EXCEPT !.leaked = leaked]
      <4>1. asked'.searches = asked.searches /\ asked'.images = asked.images
        BY <1>1, <3>8 DEF Memories
      <4> QED
        BY <1>3, <1>8, <4>1
    <3> QED
      BY <3>1, <3>7, <3>8
  <2>3. \/ asked' = asked
        \/ \E q \in 1..Len(images) : Fits(images[q], s, packet.image) /\ ImageGrows(s, q, packet)
    BY <1>8, ImageCases
  <2> QED
    BY <2>1, <2>2, <2>3
<1>9. ASSUME s \in Peers, packet \in Unnamed, TakeUnnamed(s, packet)
      PROVE  OwedSound'
  <2>1. asked' = asked
    BY <1>9 DEF TakeUnnamed
  <2> QED
    BY <1>3, <1>9, <2>1
<1> QED
  BY <1>4, <1>5, <1>6, <1>7, <1>8, <1>9, WatchCases DEF packet

LEMMA NextOwed ==
  ASSUME Typed, ImagesSound, OwedSound, [Next]_vars
  PROVE  OwedSound'
<1>1. Typed'
  BY NextTyped
<1>2. ASSUME UNCHANGED <<wire, toServer, owed, asked>>
      PROVE  OwedSound'
  BY <1>2 DEF OwedSound, SearchesOwed, ImagesOwed
<1>3. ASSUME WatchEnd \/ WatchNothing \/ UNCHANGED vars
      PROVE  UNCHANGED <<wire, toServer, owed, asked>>
  BY <1>3 DEF WatchEnd, WatchNothing, vars, farEnd
<1> QED
  BY <1>1, <1>2, <1>3, ClientOwed, ServerOwed, PeerOwed, UnaskedOwed, WatchOwed DEF Next, Watch

LEMMA InitOwed == Init => OwedSound
<1> SUFFICES ASSUME Init PROVE OwedSound
  OBVIOUS
<1>1. /\ toServer = <<>> /\ \A s \in Sources : wire[s] = <<>>
      /\ \A p \in Peers : owed[p] = <<>> /\ asked.images[p] = 0
      /\ asked.searches = 0
  BY DEF Init
<1>2. ASSUME NEW Kind PROVE Tally(<<>>, Kind, 0, 0)
  <2>1. <<>> \in Seq({}) /\ Len(<<>>) = 0 /\ 0 \in Nat /\ \A i \in 1..0 : FALSE
    OBVIOUS
  <2>2. \A i \in 1..Len(<<>>) : <<>>[i] \notin Kind
    BY <2>1
  <2> QED
    BY <2>1, <2>2, TallyNone
<1>3. SearchesOwed
  BY <1>1, <1>2 DEF SearchesOwed, Sources
<1>4. ASSUME NEW p \in Peers PROVE ImagesOwed(p)
  <2>1. /\ Tally(wire[p], Ends, 0, 0) /\ Tally(owed[p], Images, 0, 0)
        /\ Tally(toServer, Asks(p), 0, 0)
    BY <1>1, <1>2 DEF Sources
  <2>2. 0 \in Nat /\ 0 - 0 <= asked.images[p]
    BY <1>1
  <2> QED
    BY <2>1, <2>2 DEF ImagesOwed
<1> QED
  BY <1>3, <1>4 DEF OwedSound

\* The variables keep their types: a queue entry never holds more than its size
\* (gg_image_queue_parse()), and nothing is answered more often than it was asked.
THEOREM TypesKept == Spec => []TypeOK
<1>1. Init => Typed /\ ImagesSound /\ OwedSound
  BY InitTyped, InitSound, InitOwed
<1>2. Typed /\ ImagesSound /\ OwedSound /\ [Next]_vars => (Typed /\ ImagesSound /\ OwedSound)'
  BY NextTyped, NextSound, NextOwed
<1>3. Typed /\ OwedSound => TypeOK
  <2> SUFFICES ASSUME Typed, OwedSound PROVE TypeOK
    OBVIOUS
  <2>1. /\ userlistBlocks \in Int /\ errno \in {"EAGAIN", "EINVAL", "other"}
        /\ link \in {"up", "lossy", "broken", "over"} /\ images \in Seq(Entries)
        /\ \A i \in DOMAIN images : EntryFits(images[i])
        /\ asked.images \in [Peers -> Int] /\ asked.searches \in Int
        /\ wire["server"] \in Seq(FromServer) /\ toServer \in Seq(ForServer)
        /\ owed \in [Peers -> Seq(Images)] /\ \A p \in Peers : wire[p] \in Seq(FromPeers)
    BY DEF Typed, SessionTyped, WireTyped, Memories
  <2>2. ASSUME NEW i \in DOMAIN images
        PROVE  /\ images[i].sender \in Peers /\ images[i].done \in 0 .. images[i].size
               /\ DOMAIN images[i].image = 1 .. images[i].size
    <3>1. images[i] \in Entries /\ EntryFits(images[i])
      BY <2>1, LenProperties, ElementOfSeq
    <3>2. /\ images[i].sender \in Peers /\ images[i].done \in Nat /\ images[i].size \in Nat
          /\ images[i].image \in Seq(Nat) /\ images[i].done <= images[i].size
          /\ Len(images[i].image) = images[i].size
      BY <3>1 DEF Entries, EntryFits
    <3>3. DOMAIN images[i].image = 1..Len(images[i].image)
      BY <3>2, LenProperties
    <3> QED
      BY <3>2, <3>3
  <2>3. asked.searches >= 0
    <3>1. PICK taken, answered, sent \in Nat :
            /\ Tally(wire["server"], SearchReplies, taken, answered)
            /\ Tally(toServer, Searches, answered, sent)
            /\ sent - taken <= asked.searches
      BY DEF OwedSound, SearchesOwed
    <3>2. taken <= answered /\ answered <= sent
      BY <2>1, <3>1, TallyBounds
    <3> QED
      BY <2>1, <3>1, <3>2
  <2>4. ASSUME NEW p \in Peers PROVE asked.images[p] >= 0
    <3>1. PICK taken, answered, passed, sent \in Nat :
            /\ Tally(wire[p], Ends, taken, answered)
            /\ Tally(owed[p], Images, answered, passed)
            /\ Tally(toServer, Asks(p), passed, sent)
            /\ sent - taken <= asked.images[p]
      BY DEF OwedSound, ImagesOwed
    <3>2. taken <= answered /\ answered <= passed /\ passed <= sent
      BY <2>1, <3>1, TallyBounds
    <3>3. asked.images[p] \in Int
      BY <2>1
    <3> QED
      BY <3>1, <3>2, <3>3
  <2>5. asked.images \in [Peers -> Nat]
    BY <2>1, <2>4
  <2>6. asked.searches \in Nat
    BY <2>1, <2>3
  <2> QED
    BY <2>1, <2>2, <2>5, <2>6 DEF TypeOK
<1> QED
  BY <1>1, <1>2, <1>3, PTL DEF Spec

LEMMA LenDomain ==
  ASSUME NEW n \in Nat, NEW f, DOMAIN f = 1..n, f = [k \in 1..n |-> f[k]]
  PROVE  Len(f) = n
OBVIOUS

-----------------------------------------------------------------------------
(***************************************************************************)
(* ConferenceKnown: the places of the recipients that are kept.            *)
(***************************************************************************)
LEMMA PlacesOf ==
  ASSUME NEW S, NEW s \in Seq(S), IsInjective(s), NEW i \in 1..Len(s)
  PROVE  /\ Kept(s, i) = 1..Len(s) \ {i}
         /\ \A j \in Kept(s, i) : Place(Kept(s, i), j) = IF j < i THEN j ELSE j - 1
<1> DEFINE n == Len(s)
           kept == 1..n \ {i}
<1>1. n \in Nat /\ DOMAIN s = 1..n
  BY LenProperties
<1>2. Kept(s, i) = kept
  BY <1>1 DEF Kept, IsInjective
<1>3. ASSUME NEW j \in kept
      PROVE  Place(kept, j) = IF j < i THEN j ELSE j - 1
  <2>1. j \in 1..n /\ j # i /\ IsFiniteSet(1..j) /\ Cardinality(1..j) = j
    BY <1>1, FS_Interval
  <2>2. CASE j < i
    <3>1. {h \in kept : h <= j} = 1..j
      BY <1>1, <2>1, <2>2
    <3> QED
      BY <2>1, <2>2, <3>1 DEF Place
  <2>3. CASE i < j
    <3>1. {h \in kept : h <= j} = 1..j \ {i} /\ i \in 1..j
      BY <1>1, <2>1, <2>3
    <3>2. Cardinality(1..j \ {i}) = j - 1
      BY <2>1, <3>1, FS_RemoveElement
    <3>3. Place(kept, j) = Cardinality(1..j \ {i})
      BY <3>1 DEF Place
    <3> QED
      BY <1>1, <2>1, <2>3, <3>2, <3>3
  <2> QED
    BY <1>1, <2>1, <2>2, <2>3
<1> QED
  BY <1>2, <1>3

\* Of a group without repetitions, a packet lists everyone but its recipient.
LEMMA OthersOf ==
  ASSUME NEW S, NEW s \in Seq(S), IsInjective(s), NEW i \in 1..Len(s), NEW stale
  PROVE  /\ Len(Others(s, i, stale)) = Len(s) - 1
         /\ ToSet(Others(s, i, stale)) = {s[j] : j \in 1..Len(s) \ {i}}
<1> DEFINE n == Len(s)
           kept == Kept(s, i)
           others == Others(s, i, stale)
<1>1. n \in Nat \ {0} /\ DOMAIN s = 1..n
  BY LenProperties
<1>2. /\ kept = 1..n \ {i}
      /\ \A j \in kept : Place(kept, j) = IF j < i THEN j ELSE j - 1
  BY PlacesOf
<1> DEFINE from(k) == IF k < i THEN k ELSE k + 1
<1>3. ASSUME NEW k \in 1..n - 1
      PROVE  /\ from(k) \in kept /\ Place(kept, from(k)) = k
             /\ \A j \in kept : Place(kept, j) = k => j = from(k)
  <2>1. from(k) \in 1..n /\ from(k) # i
    BY <1>1
  <2>2. from(k) \in kept
    BY <1>2, <2>1
  <2>3. Place(kept, from(k)) = k
    <3>1. Place(kept, from(k)) = IF from(k) < i THEN from(k) ELSE from(k) - 1
      BY <1>2, <2>2
    <3>2. (IF from(k) < i THEN from(k) ELSE from(k) - 1) = k
      BY <1>1
    <3> QED
      BY <3>1, <3>2
  <2>4. ASSUME NEW j \in kept, Place(kept, j) = k
        PROVE  j = from(k)
    <3>1. k = IF j < i THEN j ELSE j - 1
      BY <1>2, <2>4
    <3>2. j \in 1..n /\ j # i
      BY <1>2
    <3> QED
      BY <1>1, <3>1, <3>2
  <2> QED
    BY <2>2, <2>3, <2>4
<1>4. others = [k \in 1..n - 1 |->
                  IF k \in {Place(kept, j) : j \in kept}
                  THEN s[CHOOSE j \in kept : Place(kept, j) = k] ELSE stale]
  BY DEF Others
<1> HIDE DEF kept, others
<1>5. ASSUME NEW k \in 1..n - 1
      PROVE  others[k] = s[from(k)]
  <2>1. (CHOOSE j \in kept : Place(kept, j) = k) = from(k)
    BY <1>3
  <2>2. k \in {Place(kept, j) : j \in kept}
    BY <1>3
  <2> QED
    BY <1>4, <2>1, <2>2
<1>6. DOMAIN others = 1..n - 1 /\ n - 1 \in Nat
  BY <1>1, <1>4
<1>7. Len(others) = n - 1
  BY <1>4, <1>6, LenDomain
<1>8. ASSUME NEW j \in kept
      PROVE  \E k \in 1..n - 1 : others[k] = s[j]
  <2> DEFINE k == Place(kept, j)
  <2>1. k \in 1..n - 1 /\ from(k) = j
    <3>1. k = (IF j < i THEN j ELSE j - 1) /\ j \in 1..n /\ j # i
      BY <1>2
    <3> HIDE DEF k
    <3> QED
      BY <1>1, <3>1
  <2> QED
    BY <1>5, <2>1
<1>9. ToSet(others) = {s[j] : j \in kept}
  <2>1. ASSUME NEW k \in 1..n - 1 PROVE others[k] \in {s[j] : j \in kept}
    BY <1>3, <1>5
  <2> QED
    BY <1>6, <1>8, <2>1 DEF ToSet
<1> QED
  BY <1>2, <1>7, <1>9 DEF others, kept

\* The numbers that are kept have places of their own, one fewer than all numbers
\* where one is left out.
LEMMA PlacesApart ==
  ASSUME NEW n \in Nat, NEW i \in 1..n, NEW kept \in SUBSET (1..n \ {i})
  PROVE  /\ \A j \in kept : Place(kept, j) \in 1..n - 1
         /\ \A j, l \in kept : Place(kept, j) = Place(kept, l) => j = l
<1> DEFINE upto(j) == {h \in kept : h <= j}
           all == 1..n \ {i}
<1>1. IsFiniteSet(all) /\ Cardinality(all) = n - 1
  <2>1. IsFiniteSet(1..n) /\ Cardinality(1..n) = n
    BY FS_Interval
  <2> QED
    BY <2>1, FS_RemoveElement
<1>2. \A j \in kept : j \in Int /\ upto(j) \subseteq all /\ j \in upto(j)
  <2>1. kept \subseteq all /\ kept \subseteq Int
    OBVIOUS
  <2> HIDE DEF all
  <2>2. ASSUME NEW j \in kept PROVE j \in Int /\ upto(j) \subseteq all /\ j \in upto(j)
    <3>1. j \in Int /\ j <= j
      BY <2>1
    <3> QED
      BY <2>1, <3>1
  <2> QED
    BY <2>2
<1>3. \A j, l \in kept : j < l => upto(j) \subseteq upto(l) /\ upto(l) # upto(j)
  <2> SUFFICES ASSUME NEW j \in kept, NEW l \in kept, j < l
               PROVE  upto(j) \subseteq upto(l) /\ l \notin upto(j) /\ l \in upto(l)
    OBVIOUS
  <2> QED
    BY <1>2
<1>5. \A j \in kept : Place(kept, j) = Cardinality(upto(j))
  BY DEF Place
<1> HIDE DEF upto, all
<1>6. ASSUME NEW j \in kept
      PROVE  IsFiniteSet(upto(j)) /\ Cardinality(upto(j)) \in 1..n - 1
  <2>1. IsFiniteSet(upto(j)) /\ Cardinality(upto(j)) <= n - 1
    BY <1>1, <1>2, FS_Subset
  <2>2. Cardinality(upto(j)) \in Nat /\ Cardinality(upto(j)) # 0
    BY <1>2, <2>1, FS_CardinalityType, FS_EmptySet
  <2> QED
    BY <2>1, <2>2
<1>7. ASSUME NEW j \in kept, NEW l \in kept, Place(kept, j) = Place(kept, l)
      PROVE  j = l
  <2>1. ASSUME NEW h \in kept, NEW k \in kept, h < k
        PROVE  Cardinality(upto(h)) # Cardinality(upto(k))
    BY <1>3, <1>6, <2>1, FS_Subset
  <2> QED
    BY <1>2, <1>5, <1>7, <2>1
<1>8. \A j \in kept : Place(kept, j) \in 1..n - 1
  BY <1>5, <1>6
<1> QED
  BY <1>7, <1>8

\* Whatever the group, a packet lists everyone but its recipient.
LEMMA AllListed ==
  ASSUME NEW S, NEW s \in Seq(S), NEW i \in 1..Len(s), NEW stale
  PROVE  /\ Len(Others(s, i, stale)) = Len(s) - 1
         /\ ToSet(s) \subseteq ToSet(Others(s, i, stale)) \cup {s[i]}
<1> DEFINE n == Len(s)
           kept == Kept(s, i)
           others == Others(s, i, stale)
<1>1. n \in Nat \ {0} /\ DOMAIN s = 1..n
  BY LenProperties
<1>2. kept \subseteq 1..n \ {i} /\ \A j \in 1..n : s[j] # s[i] => j \in kept
  BY <1>1 DEF Kept
<1>3. others = [k \in 1..n - 1 |->
                  IF k \in {Place(kept, j) : j \in kept}
                  THEN s[CHOOSE j \in kept : Place(kept, j) = k] ELSE stale]
  BY DEF Others
<1> HIDE DEF kept, others
<1>4. DOMAIN others = 1..n - 1 /\ n - 1 \in Nat
  BY <1>1, <1>3
<1>5. Len(others) = n - 1
  BY <1>3, <1>4, LenDomain
<1>6. ASSUME NEW j \in kept
      PROVE  s[j] \in ToSet(others)
  <2> DEFINE k == Place(kept, j)
  <2>1. /\ k \in 1..n - 1 /\ k \in {Place(kept, l) : l \in kept}
        /\ \A l \in kept : Place(kept, l) = k => l = j
    BY <1>1, <1>2, PlacesApart
  <2>2. (CHOOSE l \in kept : Place(kept, l) = k) = j
    BY <2>1
  <2> HIDE DEF k
  <2>3. others[k] = s[j]
    BY <1>3, <2>1, <2>2
  <2> QED
    BY <1>4, <2>1, <2>3 DEF ToSet
<1>7. ToSet(s) \subseteq ToSet(others) \cup {s[i]}
  BY <1>1, <1>2, <1>6 DEF ToSet
<1> QED
  BY <1>5, <1>7 DEF others

\* A packet of a conference names to us everyone in the group but its sender, and
\* nobody else if nobody is named twice.
LEMMA ConferenceWhole ==
  ASSUME NEW packet \in Conferences
  PROVE  /\ ToSet(packet.group) \subseteq ToSet(packet.recipients) \cup {"me"}
         /\ Len(packet.recipients) + 1 = Len(packet.group)
         /\ IsInjective(packet.group) =>
              ToSet(packet.recipients) \subseteq ToSet(packet.group) \ {"me"}
<1>1. PICK group \in Groups : \E p \in Peers, stale \in ToSet(group), i \in Ours(group) :
        packet = ConferPackets(p, group, stale)[i]
  BY DEF Conferences
<1>2. PICK p \in Peers, stale \in ToSet(group), i \in Ours(group) :
        packet = ConferPackets(p, group, stale)[i]
  BY <1>1
<1>3. i \in DOMAIN group /\ group[i] = "me"
  BY DEF Ours
<1>4. packet.recipients = Others(group, i, stale) /\ packet.group = group
  BY <1>2, <1>3 DEF ConferPackets
<1>5. group \in Seq(ToSet(group))
  BY GroupsAssumption
<1>6. Len(group) \in Nat /\ DOMAIN group = 1..Len(group) /\ i \in 1..Len(group)
  BY <1>3, <1>5, LenProperties, SMTT(30)
<1>7. /\ Len(Others(group, i, stale)) = Len(group) - 1
      /\ ToSet(group) \subseteq ToSet(Others(group, i, stale)) \cup {"me"}
  BY <1>3, <1>5, <1>6, AllListed
<1>8. Len(group) - 1 + 1 = Len(group)
  BY <1>6
<1>9. ASSUME IsInjective(group)
      PROVE  ToSet(Others(group, i, stale)) \subseteq ToSet(group) \ {"me"}
  <2>1. ToSet(Others(group, i, stale)) = {group[j] : j \in 1..Len(group) \ {i}}
    BY <1>5, <1>6, <1>9, OthersOf
  <2>2. \A j \in 1..Len(group) \ {i} : group[j] # "me"
    BY <1>3, <1>6, <1>9 DEF IsInjective
  <2>3. ToSet(group) = {group[j] : j \in 1..Len(group)}
    BY <1>6 DEF ToSet
  <2> QED
    BY <2>1, <2>2, <2>3
<1> QED
  BY <1>4, <1>7, <1>8, <1>9

\* No step but gg_watch_fd()'s has a message or a result of a search to report.
LEMMA NothingTold ==
  ASSUME [Next]_vars, \A s \in Sources : ~WatchPacket(s)
  PROVE  last' = last \/ last'.type \in {"call", "none", "NONE", "FAILED"}
<1>1. ASSUME Client PROVE last'.type = "call"
  <2>1. ASSUME NEW list \in Lists, UserlistPut(list) PROVE last'.type = "call"
    BY <2>1 DEF UserlistPut, Called
  <2>2. ASSUME UserlistGet PROVE last'.type = "call"
    BY <2>2 DEF UserlistGet, Called
  <2>3. ASSUME NEW list \in ContactLists, Notify(list) PROVE last'.type = "call"
    BY <2>3 DEF Notify, Called
  <2>4. ASSUME NEW uin \in Uins, NEW type \in {"ADD_NOTIFY", "REMOVE_NOTIFY"},
               AddOrRemoveNotify(uin, type)
        PROVE last'.type = "call"
    BY <2>4 DEF AddOrRemoveNotify, Called
  <2>5. ASSUME NEW seq \in Seqs, Pubdir50(seq) PROVE last'.type = "call"
    BY <2>5 DEF Pubdir50, Called
  <2>6. ASSUME NEW p \in Peers, NEW image \in Images, ImageRequest(p, image)
        PROVE last'.type = "call"
    BY <2>6 DEF ImageRequest, Called
  <2> QED
    BY <1>1, <2>1, <2>2, <2>3, <2>4, <2>5, <2>6 DEF Client
<1>2. ASSUME ServerTakes \/ (\E p \in Peers : PeerAnswers(p)) \/ Unasked
      PROVE  last'.type = "none"
  <2>1. last' = Event("none")
    BY <1>2 DEF ServerTakes, PeerAnswers, Unasked
  <2> QED
    BY <2>1 DEF Event
<1>3. ASSUME WatchEnd \/ WatchNothing
      PROVE  last'.type \in {"NONE", "FAILED"}
  <2>1. Fails("EAGAIN") \/ Fails("other")
    BY <1>3 DEF WatchEnd, WatchNothing
  <2>2. last' = Event("NONE") \/ last' = Event("FAILED")
    BY <2>1 DEF Fails
  <2> QED
    BY <2>2 DEF Event
<1>4. ASSUME UNCHANGED vars PROVE last' = last
  BY <1>4 DEF vars
<1> QED
  BY <1>1, <1>2, <1>3, <1>4 DEF Next, Watch

\* What gg_watch_fd() reports of each packet.
LEMMA TypesTold ==
  ASSUME NEW p, NEW packet
  PROVE  /\ TakeUserlistReply(packet) => last'.type \in {"NONE", "USERLIST"}
         /\ TakeImage(p, packet) => last'.type \in {"NONE", "IMAGE_REPLY"}
         /\ TakeUnnamed(p, packet) => last'.type = "NONE"
         /\ TakeNotifyReply(packet) => last'.type \in {"NONE", "FAILED", "NOTIFY_REPLY"}
         /\ TakeNotice(packet) => last'.type \in {"NONE", "STATUS", "ACK", "PONG", "DISCONNECTING"}
<1>1. ASSUME TakeUserlistReply(packet) PROVE last'.type \in {"NONE", "USERLIST"}
  BY <1>1 DEF TakeUserlistReply, Event
<1>2. ASSUME TakeImage(p, packet) PROVE last'.type \in {"NONE", "IMAGE_REPLY"}
  <2>1. last'.type = "NONE" \/ ImageGrows(p, Earliest(Fitting(p, packet.image)), packet)
    BY <1>2 DEF TakeImage, Event
  <2> DEFINE q == Earliest(Fitting(p, packet.image))
  <2> HIDE DEF q
  <2>2. ImageGrows(p, q, packet) => last'.type \in {"NONE", "IMAGE_REPLY"}
    BY DEF ImageGrows, Event
  <2> QED
    BY <2>1, <2>2 DEF q
<1>3. ASSUME TakeNotifyReply(packet) PROVE last'.type \in {"NONE", "FAILED", "NOTIFY_REPLY"}
  BY <1>3 DEF TakeNotifyReply, Fails, Event
<1>4. ASSUME TakeNotice(packet)
      PROVE  last'.type \in {"NONE", "STATUS", "ACK", "PONG", "DISCONNECTING"}
  BY <1>4 DEF TakeNotice, Event
<1>5. ASSUME TakeUnnamed(p, packet) PROVE last'.type = "NONE"
  BY <1>5 DEF TakeUnnamed, Event
<1> QED
  BY <1>1, <1>2, <1>3, <1>4, <1>5

LEMMA NextKnown ==
  ASSUME Typed, ConferenceKnown, [Next]_vars
  PROVE  ConferenceKnown'
<1>1. ASSUME NEW s \in Sources, WatchPacket(s) PROVE ConferenceKnown'
  <2> DEFINE packet == Head(wire[s])
  <2>1. \/ \/ TakeUserlistReply(packet) \/ TakePubdir50Reply(packet)
           \/ TakeNotifyReply(packet) \/ TakeNotice(packet)
        \/ TakeImage(s, packet) \/ TakeUnnamed(s, packet)
        \/ packet \in NoImages \cup Conferences /\ TakeMessage(s, packet)
    BY <1>1, WatchCases
  <2> HIDE DEF packet
  <2>2. ASSUME packet \in NoImages \cup Conferences, TakeMessage(s, packet)
        PROVE  ConferenceKnown'
    <3>1. CASE packet.option = "IMAGE_NONE"
      BY <2>2, <3>1 DEF TakeMessage, ConferenceKnown
    <3>2. CASE packet.option # "IMAGE_NONE"
      <4>1. packet \in Conferences
        BY <2>2, <3>2 DEF NoImages
      <4>2. last'.recipients = packet.recipients /\ last'.group = packet.group
        BY <2>2, <3>2 DEF TakeMessage
      <4>3. /\ ToSet(packet.group) \subseteq ToSet(packet.recipients) \cup {"me"}
            /\ Len(packet.recipients) + 1 = Len(packet.group)
            /\ IsInjective(packet.group) =>
                 ToSet(packet.recipients) \subseteq ToSet(packet.group) \ {"me"}
        BY <4>1, ConferenceWhole
      <4>4. ConferenceKnown' <=>
              (last'.type = "MSG" =>
                 /\ ToSet(last'.group) \subseteq ToSet(last'.recipients) \cup {"me"}
                 /\ Len(last'.recipients) + 1 = Len(last'.group)
                 /\ IsInjective(last'.group) =>
                      ToSet(last'.recipients) \subseteq ToSet(last'.group) \ {"me"})
        BY DEF ConferenceKnown
      <4> QED
        BY <4>2, <4>3, <4>4
    <3> QED
      BY <3>1, <3>2
  <2>3. ASSUME TakePubdir50Reply(packet) PROVE last'.type \in {"PUBDIR50", "NONE", "FAILED"}
    BY <2>3 DEF TakePubdir50Reply, Fails, Event
  <2>4. last'.type # "MSG" => ConferenceKnown'
    BY DEF ConferenceKnown
  <2> QED
    BY <2>1, <2>2, <2>3, <2>4, TypesTold
<1>2. ASSUME \A s \in Sources : ~WatchPacket(s) PROVE ConferenceKnown'
  <2>1. CASE last' = last
    BY <2>1 DEF ConferenceKnown
  <2>2. CASE last'.type \in {"call", "none", "NONE", "FAILED"}
    BY <2>2 DEF ConferenceKnown
  <2> QED
    BY <1>2, <2>1, <2>2, NothingTold
<1> QED
  BY <1>1, <1>2

\* Whoever gets a message of a conference knows everyone in it: the packets that
\* gg_send_message_confer_richtext() makes name all recipients but their addressee,
\* and nobody else where no recipient is named twice (libgadu.c:1482, 1506).
THEOREM ConferencesKnown == Spec => []ConferenceKnown
<1>1. Init => Typed /\ ConferenceKnown
  <2> SUFFICES ASSUME Init PROVE Typed /\ ConferenceKnown
    OBVIOUS
  <2>1. last.type = "none"
    BY DEF Init, Event
  <2> QED
    BY <2>1, InitTyped DEF ConferenceKnown
<1>2. Typed /\ ConferenceKnown /\ [Next]_vars => (Typed /\ ConferenceKnown)'
  BY NextTyped, NextKnown
<1> QED
  BY <1>1, <1>2, PTL DEF Spec

-----------------------------------------------------------------------------
(***************************************************************************)
(* ResultsIntact: what the loops that write and read a reply have done     *)
(* after each of their rounds.                                             *)
(***************************************************************************)
LEMMA WrittenRounds ==
  ASSUME NEW results, Len(results) \in Nat
  PROVE  LET w == Written(results)
         IN  /\ w[0] = <<>>
             /\ \A n \in 1..Len(results) : w[n] = w[n - 1] \o Fields(results, n)
<1> DEFINE Rounds(f, N) ==
             f = [n \in 0..N |-> IF n = 0 THEN <<>> ELSE f[n - 1] \o Fields(results, n)]
           L == Len(results)
           G == {N \in 0..L : \E f : Rounds(f, N)}
<1>1. 0 \in G
  <2> DEFINE f == [n \in 0..0 |-> <<>>]
  <2>1. Rounds(f, 0)
    OBVIOUS
  <2>2. 0 \in 0..L
    OBVIOUS
  <2> HIDE DEF f, Rounds
  <2> QED
    BY <2>1, <2>2
<1>2. ASSUME NEW m \in 0..L - 1, m \in G PROVE m + 1 \in G
  <2>1. PICK f : Rounds(f, m)
    BY <1>2
  <2> DEFINE g == [n \in 0..m + 1 |-> IF n = m + 1 THEN f[m] \o Fields(results, m + 1) ELSE f[n]]
  <2>2. ASSUME NEW n \in 0..m + 1
        PROVE  g[n] = IF n = 0 THEN <<>> ELSE g[n - 1] \o Fields(results, n)
    <3>1. CASE n = m + 1
      <4>1. n # 0 /\ n - 1 = m /\ m \in 0..m + 1 /\ m # m + 1
        BY <3>1
      <4> QED
        BY <3>1, <4>1
    <3>2. CASE n # m + 1
      <4>1. n \in 0..m /\ (n # 0 => n - 1 \in 0..m /\ n - 1 # m + 1)
        BY <3>2
      <4>2. g[n] = f[n] /\ (n # 0 => g[n - 1] = f[n - 1])
        BY <3>2, <4>1
      <4>3. f[n] = IF n = 0 THEN <<>> ELSE f[n - 1] \o Fields(results, n)
        BY <2>1, <4>1
      <4> QED
        BY <4>2, <4>3
    <3> QED
      BY <3>1, <3>2
  <2>3. g = [n \in 0..m + 1 |-> g[n]]
    OBVIOUS
  <2> HIDE DEF g
  <2>4. Rounds(g, m + 1)
    BY <2>2, <2>3
  <2>5. m + 1 \in 0..L
    OBVIOUS
  <2> HIDE DEF Rounds
  <2> QED
    BY <2>4, <2>5
<1>3. L \in G
  <2>1. \A n \in 0..L : n \in G
    <3> HIDE DEF G, L
    <3>1. L \in Nat
      BY DEF L
    <3> QED
      BY <1>1, <1>2, <3>1, AllRounds
  <2> QED
    BY <2>1, SMTT(30)
<1>4. \E f : Rounds(f, L)
  BY <1>3
<1>5. Written(results) = CHOOSE f : Rounds(f, L)
  BY DEF Written
<1>6. Rounds(Written(results), L)
  <2> HIDE DEF Rounds
  <2> QED
    BY <1>4, <1>5
<1> DEFINE w == Written(results)
<1>7. w = [n \in 0..L |-> IF n = 0 THEN <<>> ELSE w[n - 1] \o Fields(results, n)]
  BY <1>6
<1> HIDE DEF w
<1>8. \A n \in 0..L : w[n] = IF n = 0 THEN <<>> ELSE w[n - 1] \o Fields(results, n)
  BY <1>7
<1>9. 0 \in 0..L /\ \A n \in 1..L : n \in 0..L /\ n # 0
  OBVIOUS
<1> QED
  BY <1>8, <1>9 DEF w

Unread == [num |-> 0, next |-> 0, entries |-> <<>>]

LEMMA ReadingRounds ==
  ASSUME NEW items, Len(items) \in Nat
  PROVE  LET r == Reading(items)
         IN  /\ r[0] = [num |-> 0, next |-> 0, entries |-> <<>>]
             /\ \A n \in 1..Len(items) : r[n] = ReadItem(r[n - 1], items[n])
<1> DEFINE Rounds(f, N) ==
             f = [n \in 0..N |-> IF n = 0 THEN Unread ELSE ReadItem(f[n - 1], items[n])]
           L == Len(items)
           G == {N \in 0..L : \E f : Rounds(f, N)}
<1>1. 0 \in G
  <2> DEFINE f == [n \in 0..0 |-> Unread]
  <2>1. Rounds(f, 0)
    OBVIOUS
  <2>2. 0 \in 0..L
    OBVIOUS
  <2> HIDE DEF f, Rounds
  <2> QED
    BY <2>1, <2>2
<1>2. ASSUME NEW m \in 0..L - 1, m \in G PROVE m + 1 \in G
  <2>1. PICK f : Rounds(f, m)
    BY <1>2
  <2> DEFINE g == [n \in 0..m + 1 |-> IF n = m + 1 THEN ReadItem(f[m], items[m + 1]) ELSE f[n]]
  <2>2. ASSUME NEW n \in 0..m + 1
        PROVE  g[n] = IF n = 0 THEN Unread ELSE ReadItem(g[n - 1], items[n])
    <3>1. CASE n = m + 1
      <4>1. n # 0 /\ n - 1 = m /\ m \in 0..m + 1 /\ m # m + 1
        BY <3>1
      <4> QED
        BY <3>1, <4>1
    <3>2. CASE n # m + 1
      <4>1. n \in 0..m /\ (n # 0 => n - 1 \in 0..m /\ n - 1 # m + 1)
        BY <3>2
      <4>2. g[n] = f[n] /\ (n # 0 => g[n - 1] = f[n - 1])
        BY <3>2, <4>1
      <4>3. f[n] = IF n = 0 THEN Unread ELSE ReadItem(f[n - 1], items[n])
        BY <2>1, <4>1
      <4> QED
        BY <4>2, <4>3
    <3> QED
      BY <3>1, <3>2
  <2>3. g = [n \in 0..m + 1 |-> g[n]]
    OBVIOUS
  <2> HIDE DEF g
  <2>4. Rounds(g, m + 1)
    BY <2>2, <2>3
  <2>5. m + 1 \in 0..L
    OBVIOUS
  <2> HIDE DEF Rounds
  <2> QED
    BY <2>4, <2>5
<1>3. L \in G
  <2>1. \A n \in 0..L : n \in G
    <3> HIDE DEF G, L
    <3>1. L \in Nat
      BY DEF L
    <3> QED
      BY <1>1, <1>2, <3>1, AllRounds
  <2> QED
    BY <2>1
<1>4. \E f : Rounds(f, L)
  BY <1>3
<1>5. Reading(items) = CHOOSE f : Rounds(f, L)
  BY DEF Reading, Unread
<1>6. Rounds(Reading(items), L)
  <2> HIDE DEF Rounds
  <2> QED
    BY <1>4, <1>5
<1> DEFINE r == Reading(items)
<1>7. r = [n \in 0..L |-> IF n = 0 THEN Unread ELSE ReadItem(r[n - 1], items[n])]
  BY <1>6
<1> HIDE DEF r
<1>8. \A n \in 0..L : r[n] = IF n = 0 THEN Unread ELSE ReadItem(r[n - 1], items[n])
  BY <1>7
<1>9. 0 \in 0..L /\ \A n \in 1..L : n \in 0..L /\ n # 0
  OBVIOUS
<1> QED
  BY <1>8, <1>9 DEF r, Unread

LEMMA ResultOf ==
  ASSUME NEW results \in Results
  PROVE  /\ Len(results) \in Nat /\ DOMAIN results = 1..Len(results)
         /\ Len(results) = 0 <=> results = <<>>
         /\ \A n \in 1..Len(results) :
              /\ Len(results[n]) \in Nat \ {0} /\ DOMAIN results[n] = 1..Len(results[n])
              /\ \A i, j \in 1..Len(results[n]) :
                    results[n][i][1] = results[n][j][1] => i = j
              /\ \A i \in 1..Len(results[n]) : results[n][i][1] # "nextstart"
<1>1. results \in Seq(ToSet(results))
  BY ResultsAssumption
<1>2. /\ Len(results) \in Nat /\ DOMAIN results = 1..Len(results)
      /\ Len(results) = 0 <=> results = <<>>
  BY <1>1, LenProperties, EmptySeq
<1>3. ASSUME NEW n \in 1..Len(results)
      PROVE  /\ Len(results[n]) \in Nat \ {0} /\ DOMAIN results[n] = 1..Len(results[n])
             /\ \A i, j \in 1..Len(results[n]) :
                   results[n][i][1] = results[n][j][1] => i = j
             /\ \A i \in 1..Len(results[n]) : results[n][i][1] # "nextstart"
  <2> DEFINE s == results[n]
  <2>1. /\ s \in Seq(ToSet(s)) /\ s # <<>>
        /\ \A i, j \in DOMAIN s : s[i][1] = s[j][1] => i = j
        /\ \A i \in DOMAIN s : s[i][1] # "nextstart"
    BY <1>2, ResultsAssumption
  <2> HIDE DEF s
  <2>2. Len(s) \in Nat \ {0} /\ DOMAIN s = 1..Len(s)
    BY <2>1, LenProperties, EmptySeq
  <2> QED
    BY <2>1, <2>2 DEF s
<1> QED
  BY <1>2, <1>3

LEMMA FieldsOf ==
  ASSUME NEW results \in Results, NEW n \in 1..Len(results)
  PROVE  LET s == Fields(results, n)
         IN  /\ s \in Seq({s[i] : i \in 1..Len(results[n])})
             /\ Len(s) = Len(results[n])
             /\ \A i \in 1..Len(results[n]) :
                  s[i] = [separated |-> n > 1 /\ i = 1, field |-> results[n][i][1],
                          value |-> results[n][i][2]]
<1> DEFINE m == Len(results[n])
           s == Fields(results, n)
           e(i) == [separated |-> n > 1 /\ i = 1, field |-> results[n][i][1],
                    value |-> results[n][i][2]]
<1>1. m \in Nat /\ DOMAIN results[n] = 1..m
  BY ResultOf
<1>2. s = [i \in 1..m |-> e(i)]
  BY <1>1 DEF Fields
<1> HIDE DEF s, m, e
<1>3. Len(s) = m /\ DOMAIN s = 1..m
  BY <1>1, <1>2, LenDomain
<1>5. s \in Seq({s[i] : i \in 1..m})
  <2> DEFINE T == {s[i] : i \in 1..m}
  <2>1. s \in [1..m -> T]
    BY <1>2
  <2> HIDE DEF T
  <2>2. s \in Seq(T)
    BY <1>1, <2>1
  <2> QED
    BY <2>2 DEF T
<1>6. \A i \in 1..m : s[i] = e(i)
  BY <1>2
<1> QED
  BY <1>3, <1>5, <1>6 DEF s, m, e

\* Where the fields of each result are in the reply.
LEMMA WrittenOf ==
  ASSUME NEW results \in Results
  PROVE  LET w == Written(results)
             N == Len(results)
         IN  /\ \A n \in 0..N : Len(w[n]) \in Nat /\ \E S : w[n] \in Seq(S)
             /\ w[0] = <<>>
             /\ \A n \in 1..N : Len(w[n]) = Len(w[n - 1]) + Len(results[n])
             /\ \A n \in 1..N : \A i \in 1..Len(results[n]) :
                  w[N][Len(w[n - 1]) + i] = Fields(results, n)[i]
             /\ \A n \in 0..N : Len(w[n]) <= Len(w[N])
<1> DEFINE w == Written(results)
           N == Len(results)
           S == UNION {{Fields(results, n)[i] : i \in 1..Len(results[n])} : n \in 1..N}
           len(n) == Len(results[n])
           f(n) == Fields(results, n)
<1>1. N \in Nat /\ \A n \in 1..N : len(n) \in Nat
  BY ResultOf
<1>2. w[0] = <<>> /\ \A n \in 1..N : w[n] = w[n - 1] \o f(n)
  BY <1>1, WrittenRounds
<1>3. ASSUME NEW n \in 1..N PROVE f(n) \in Seq(S) /\ Len(f(n)) = len(n)
  <2> DEFINE T == {Fields(results, n)[i] : i \in 1..Len(results[n])}
  <2>1. f(n) \in Seq(T) /\ Len(f(n)) = len(n)
    BY FieldsOf
  <2>2. T \subseteq S
    OBVIOUS
  <2> HIDE DEF T, S, f
  <2>3. f(n) \in [1..len(n) -> T]
    BY <2>1, LenProperties
  <2>4. f(n) \in [1..len(n) -> S]
    BY <2>2, <2>3
  <2> QED
    BY <1>1, <2>1, <2>4
<1> HIDE DEF w, N, S, len, f
<1>4. \A n \in 0..N : w[n] \in Seq(S)
  <2> DEFINE G == {n \in 0..N : w[n] \in Seq(S)}
  <2>1. 0 \in G
    <3>1. 0 \in 0..N /\ w[0] = <<>>
      BY <1>1, <1>2
    <3>2. <<>> \in Seq(S)
      OBVIOUS
    <3> QED
      BY <3>1, <3>2
  <2>2. ASSUME NEW n \in 0..N - 1, n \in G PROVE n + 1 \in G
    <3>1. n + 1 \in 1..N /\ n + 1 \in 0..N /\ n + 1 - 1 = n
      BY <1>1
    <3> DEFINE k == n + 1
    <3>2. k \in 1..N /\ k - 1 = n
      BY <3>1
    <3> HIDE DEF k
    <3>3. w[k] = w[k - 1] \o f(k)
      BY <1>2, <3>2
    <3>4. w[n] \in Seq(S) /\ f(k) \in Seq(S)
      BY <1>3, <2>2, <3>2
    <3>5. w[n] \o f(k) \in Seq(S)
      BY <3>4, ConcatProperties
    <3>6. w[k] \in Seq(S)
      BY <3>2, <3>3, <3>5
    <3> QED
      BY <3>1, <3>6 DEF k
  <2> HIDE DEF G
  <2>3. \A n \in 0..N : n \in G
    BY <1>1, <2>1, <2>2, AllRounds
  <2> QED
    BY <2>3 DEF G
<1>5. \A n \in 0..N : Len(w[n]) \in Nat
  BY <1>4, LenProperties
<1>6. ASSUME NEW n \in 1..N
      PROVE  /\ n - 1 \in 0..N /\ Len(w[n]) = Len(w[n - 1]) + len(n)
             /\ \A x \in 1..Len(w[n]) :
                  w[n][x] = IF x <= Len(w[n - 1]) THEN w[n - 1][x]
                            ELSE f(n)[x - Len(w[n - 1])]
  <2>1. n - 1 \in 0..N
    BY <1>1
  <2>2. w[n] = w[n - 1] \o f(n)
    BY <1>2
  <2>3. w[n - 1] \in Seq(S) /\ f(n) \in Seq(S) /\ Len(f(n)) = len(n)
    BY <1>3, <1>4, <2>1
  <2>4. /\ Len(w[n - 1] \o f(n)) = Len(w[n - 1]) + Len(f(n))
        /\ \A x \in 1..Len(w[n - 1]) + Len(f(n)) :
             (w[n - 1] \o f(n))[x] = IF x <= Len(w[n - 1]) THEN w[n - 1][x]
                                    ELSE f(n)[x - Len(w[n - 1])]
    BY <2>3, ConcatProperties
  <2> QED
    BY <2>1, <2>2, <2>3, <2>4
<1>7. ASSUME NEW n \in 0..N
      PROVE  Len(w[n]) <= Len(w[N]) /\ \A x \in 1..Len(w[n]) : w[N][x] = w[n][x]
  <2> DEFINE G == {h \in 0..N - n : /\ Len(w[n]) <= Len(w[n + h])
                                    /\ \A x \in 1..Len(w[n]) : w[n + h][x] = w[n][x]}
  <2>1. 0 \in G
    BY <1>1, <1>5
  <2>2. ASSUME NEW h \in 0..N - n - 1, h \in G PROVE h + 1 \in G
    <3>1. /\ h + 1 \in 0..N - n /\ n + h \in 0..N /\ n + (h + 1) \in 1..N /\ n + (h + 1) \in 0..N
          /\ n + (h + 1) - 1 = n + h
      BY <1>1
    <3>2. /\ Len(w[n + (h + 1)]) = Len(w[n + h]) + len(n + (h + 1))
          /\ \A x \in 1..Len(w[n + (h + 1)]) :
               w[n + (h + 1)][x] = IF x <= Len(w[n + h]) THEN w[n + h][x]
                                   ELSE f(n + (h + 1))[x - Len(w[n + h])]
      BY <1>6, <3>1
    <3>3. len(n + (h + 1)) \in Nat /\ Len(w[n + h]) \in Nat /\ Len(w[n]) \in Nat
      BY <1>1, <1>5, <3>1
    <3>4. Len(w[n]) <= Len(w[n + h]) /\ \A x \in 1..Len(w[n]) : w[n + h][x] = w[n][x]
      BY <2>2
    <3>5. Len(w[n]) <= Len(w[n + (h + 1)])
      BY <3>2, <3>3, <3>4
    <3>6. ASSUME NEW x \in 1..Len(w[n]) PROVE w[n + (h + 1)][x] = w[n][x]
      <4>1. x \in 1..Len(w[n + (h + 1)]) /\ x <= Len(w[n + h])
        BY <3>2, <3>3, <3>4
      <4>2. w[n + (h + 1)][x] = w[n + h][x]
        BY <3>2, <4>1
      <4> QED
        BY <3>4, <4>2
    <3> QED
      BY <3>1, <3>5, <3>6
  <2>3. N - n \in Nat /\ N - n - 1 = (N - n) - 1 /\ n + (N - n) = N /\ N - n \in 0..N - n
    BY <1>1
  <2> HIDE DEF G
  <2>4. \A h \in 0..N - n : h \in G
    BY <2>1, <2>2, <2>3, AllRounds
  <2>5. N - n \in G
    BY <2>3, <2>4
  <2>6. Len(w[n]) <= Len(w[n + (N - n)]) /\ \A x \in 1..Len(w[n]) : w[n + (N - n)][x] = w[n][x]
    BY <2>5 DEF G
  <2> QED
    BY <2>3, <2>6
<1>8. ASSUME NEW n \in 1..N, NEW i \in 1..len(n)
      PROVE  w[N][Len(w[n - 1]) + i] = f(n)[i]
  <2> DEFINE x == Len(w[n - 1]) + i
  <2>1. n \in 0..N /\ n - 1 \in 0..N /\ Len(w[n - 1]) \in Nat /\ len(n) \in Nat
    BY <1>1, <1>5, <1>6
  <2>2. x \in 1..Len(w[n]) /\ ~(x <= Len(w[n - 1])) /\ x - Len(w[n - 1]) = i
    BY <1>6, <2>1
  <2>3. w[N][x] = w[n][x]
    BY <1>7, <2>1, <2>2
  <2>4. w[n][x] = f(n)[x - Len(w[n - 1])]
    BY <1>6, <2>2
  <2> QED
    BY <2>2, <2>3, <2>4
<1>9. \A n \in 0..N : Len(w[n]) \in Nat /\ \E T : w[n] \in Seq(T)
  BY <1>4, <1>5
<1> QED
  BY <1>2, <1>6, <1>7, <1>8, <1>9 DEF w, N, len, f

-----------------------------------------------------------------------------
(***************************************************************************)
(* HasRead: what has been read once the first i fields of result n have.   *)
(***************************************************************************)
Earlier(results, n, i, k, j) ==
  k \in 1..n /\ j \in 1..Len(results[k]) /\ (k = n => j <= i)
Entry(results, k, j) ==
  [num |-> k - 1, field |-> results[k][j][1], value |-> results[k][j][2]]
AllEntries(results) == {Entry(results, k, j) : k \in 1..Len(results), j \in Nat}

OnlyEarlier(results, n, i, entries) ==
  \A x \in 1..Len(entries) : \E k \in 1..Len(results), j \in Nat :
    Earlier(results, n, i, k, j) /\ entries[x] = Entry(results, k, j)

AllEarlier(results, n, i, entries) ==
  \A k \in 1..Len(results), j \in Nat :
    Earlier(results, n, i, k, j) =>
      \E x \in 1..Len(entries) : entries[x] = Entry(results, k, j)

Distinct(entries) ==
  \A x, y \in 1..Len(entries) :
    entries[x].num = entries[y].num /\ entries[x].field = entries[y].field => x = y

HasRead(results, n, i, res) ==
  /\ DOMAIN res = {"num", "next", "entries"}
  /\ res.num = IF i = 0 /\ n > 1 THEN n - 2 ELSE n - 1
  /\ res.next = 0
  /\ res.entries \in Seq(AllEntries(results))
  /\ OnlyEarlier(results, n, i, res.entries)
  /\ AllEarlier(results, n, i, res.entries)
  /\ Distinct(res.entries)

LEMMA NothingRead ==
  ASSUME NEW results \in Results, Len(results) > 0
  PROVE  HasRead(results, 1, 0, Unread)
<1>1. Len(results) \in Nat /\ Len(results[1]) \in Nat
  BY ResultOf
<1>2. \A k, j : ~Earlier(results, 1, 0, k, j)
  BY <1>1 DEF Earlier
<1>3. Unread.entries = <<>> /\ Len(<<>>) = 0 /\ <<>> \in Seq(AllEntries(results))
  BY DEF Unread
<1>4. DOMAIN Unread = {"num", "next", "entries"} /\ Unread.num = 0 /\ Unread.next = 0
  BY DEF Unread
<1> QED
  BY <1>2, <1>3, <1>4 DEF HasRead, OnlyEarlier, AllEarlier, Distinct

LEMMA ResultRead ==
  ASSUME NEW results \in Results, NEW n \in 1..Len(results) - 1, NEW res,
         HasRead(results, n, Len(results[n]), res)
  PROVE  HasRead(results, n + 1, 0, res)
<1>1. Len(results) \in Nat /\ n \in 1..Len(results) /\ n + 1 > 1 /\ n + 1 - 2 = n - 1
  BY ResultOf
<1>2. Len(results[n]) \in Nat \ {0}
  BY <1>1, ResultOf
<1>3. ASSUME NEW k \in 1..Len(results), NEW j \in Nat
      PROVE  Earlier(results, n + 1, 0, k, j) <=> Earlier(results, n, Len(results[n]), k, j)
  <2>1. Len(results[k]) \in Nat
    BY ResultOf
  <2> QED
    BY <1>1, <1>2, <2>1 DEF Earlier
<1>4. DOMAIN res = {"num", "next", "entries"} /\ res.num = n - 1 /\ res.next = 0
  BY <1>1, <1>2 DEF HasRead, OnlyEarlier, AllEarlier, Distinct
<1>5. res.num = IF 0 = 0 /\ n + 1 > 1 THEN n + 1 - 2 ELSE n + 1 - 1
  BY <1>1, <1>4
<1>6. ASSUME NEW x \in 1..Len(res.entries)
      PROVE  \E k \in 1..Len(results), j \in Nat :
               Earlier(results, n + 1, 0, k, j) /\ res.entries[x] = Entry(results, k, j)
  <2>1. PICK k \in 1..Len(results), j \in Nat :
          Earlier(results, n, Len(results[n]), k, j) /\ res.entries[x] = Entry(results, k, j)
    BY DEF HasRead, OnlyEarlier, AllEarlier, Distinct
  <2> QED
    BY <1>3, <2>1
<1>7. ASSUME NEW k \in 1..Len(results), NEW j \in Nat, Earlier(results, n + 1, 0, k, j)
      PROVE  \E x \in 1..Len(res.entries) : res.entries[x] = Entry(results, k, j)
  <2>1. Earlier(results, n, Len(results[n]), k, j)
    BY <1>3, <1>7
  <2> QED
    BY <2>1 DEF HasRead, OnlyEarlier, AllEarlier, Distinct
<1>8. OnlyEarlier(results, n + 1, 0, res.entries) /\ AllEarlier(results, n + 1, 0, res.entries)
  BY <1>6, <1>7 DEF OnlyEarlier, AllEarlier
<1>9. res.entries \in Seq(AllEntries(results)) /\ Distinct(res.entries)
  BY DEF HasRead
<1> QED
  BY <1>4, <1>5, <1>8, <1>9 DEF HasRead

LEMMA ReplyExcept ==
  ASSUME NEW res, DOMAIN res = {"num", "next", "entries"}, NEW num, NEW entries
  PROVE  LET new == [res EXCEPT !.num = num, !.entries = entries]
         IN  /\ DOMAIN new = {"num", "next", "entries"}
             /\ new.num = num /\ new.next = res.next /\ new.entries = entries
OBVIOUS

LEMMA FieldRead ==
  ASSUME NEW results \in Results, NEW n \in 1..Len(results), NEW i \in 0..Len(results[n]) - 1,
         NEW res, HasRead(results, n, i, res)
  PROVE  HasRead(results, n, i + 1, ReadItem(res, Fields(results, n)[i + 1]))
<1> DEFINE N == Len(results)
           entries == res.entries
           item == Fields(results, n)[i + 1]
           field == results[n][i + 1][1]
           value == results[n][i + 1][2]
           e == Entry(results, n, i + 1)
           after == Append(entries, e)
           num == IF item.separated THEN res.num + 1 ELSE res.num
<1>1. /\ N \in Nat /\ Len(results[n]) \in Nat /\ i + 1 \in 1..Len(results[n])
      /\ \A k \in 1..N : Len(results[k]) \in Nat
  BY ResultOf
<1>2. item = [separated |-> n > 1 /\ i + 1 = 1, field |-> field, value |-> value]
  BY <1>1, FieldsOf
<1>3. item.field = field /\ item.value = value /\ item.field # "nextstart"
  BY <1>1, <1>2, ResultOf
<1>4. item.separated <=> n > 1 /\ i = 0
  <2>1. item.separated = (n > 1 /\ i + 1 = 1)
    BY <1>2
  <2>2. i + 1 = 1 <=> i = 0
    BY <1>1
  <2> QED
    BY <2>1, <2>2
<1>5. /\ DOMAIN res = {"num", "next", "entries"} /\ res.next = 0
      /\ res.num = IF i = 0 /\ n > 1 THEN n - 2 ELSE n - 1
  BY DEF HasRead, OnlyEarlier, AllEarlier, Distinct
<1>6. num = n - 1
  BY <1>4, <1>5
<1> HIDE DEF item, num
<1>7. entries \in Seq(AllEntries(results)) /\ Len(entries) \in Nat /\ DOMAIN entries = 1..Len(entries)
  <2>1. entries \in Seq(AllEntries(results))
    BY DEF HasRead, OnlyEarlier, AllEarlier, Distinct
  <2> QED
    BY <2>1, LenProperties
<1>8. \A x \in 1..Len(entries) : \E k \in 1..N, j \in Nat :
        Earlier(results, n, i, k, j) /\ entries[x] = Entry(results, k, j)
  BY DEF HasRead, OnlyEarlier, AllEarlier, Distinct
<1>9. ASSUME NEW x \in 1..Len(entries) PROVE ~(entries[x].num = n - 1 /\ entries[x].field = field)
  <2>1. PICK k \in 1..N, j \in Nat : Earlier(results, n, i, k, j) /\ entries[x] = Entry(results, k, j)
    BY <1>8
  <2>2. entries[x].num = k - 1 /\ entries[x].field = results[k][j][1]
    BY <2>1 DEF Entry
  <2>3. ASSUME k = n PROVE j \in 1..Len(results[n]) /\ j # i + 1
    BY <1>1, <2>1, <2>3 DEF Earlier
  <2>4. ASSUME k = n PROVE results[k][j][1] # field
    BY <1>1, <2>3, <2>4, ResultOf
  <2> QED
    BY <1>1, <2>2, <2>4
<1>10. AddEntry(entries, n - 1, field, value) = after
  BY <1>7, <1>9 DEF AddEntry, Entry
<1>11. ReadItem(res, item) = [res EXCEPT !.num = num, !.entries = AddEntry(@, num, item.field, item.value)]
  BY <1>3 DEF ReadItem, num
<1> DEFINE new == ReadItem(res, item)
<1>12. /\ DOMAIN new = {"num", "next", "entries"} /\ new.num = n - 1 /\ new.next = 0
       /\ new.entries = after
  <2>1. AddEntry(res.entries, num, item.field, item.value) = after
    BY <1>3, <1>6, <1>10
  <2>2. new = [res EXCEPT !.num = n - 1, !.entries = after]
    BY <1>6, <1>11, <2>1
  <2> HIDE DEF after, new
  <2> QED
    BY <1>5, <2>2, ReplyExcept
<1> HIDE DEF new
<1>13. e \in AllEntries(results)
  BY <1>1 DEF AllEntries
<1>14. /\ after \in Seq(AllEntries(results)) /\ Len(after) = Len(entries) + 1
       /\ \A x \in 1..Len(entries) : after[x] = entries[x]
       /\ after[Len(entries) + 1] = e
  BY <1>7, <1>13, AppendProperties
<1> HIDE DEF after
<1>15. ASSUME NEW k \in 1..N, NEW j \in Nat
       PROVE  Earlier(results, n, i + 1, k, j) <=>
                Earlier(results, n, i, k, j) \/ (k = n /\ j = i + 1)
  <2>1. CASE k = n
    <3>1. j <= i + 1 <=> j <= i \/ j = i + 1
      OBVIOUS
    <3>2. k \in 1..n
      BY <2>1
    <3> QED
      BY <1>1, <2>1, <3>1, <3>2 DEF Earlier
  <2>2. CASE k # n
    BY <2>2 DEF Earlier
  <2> QED
    BY <2>1, <2>2
<1>16. e.num = n - 1 /\ e.field = field
  BY DEF Entry
<1> DEFINE top == Len(entries) + 1
<1>17. ASSUME NEW x \in 1..Len(after)
       PROVE  \/ x \in 1..Len(entries) /\ after[x] = entries[x]
              \/ x = top /\ after[x] = e
  BY <1>7, <1>14
<1>18. ASSUME NEW x \in 1..Len(after)
       PROVE  \E k \in 1..N, j \in Nat :
                Earlier(results, n, i + 1, k, j) /\ after[x] = Entry(results, k, j)
  <2>1. CASE x \in 1..Len(entries) /\ after[x] = entries[x]
    <3>1. PICK k \in 1..N, j \in Nat : Earlier(results, n, i, k, j) /\ entries[x] = Entry(results, k, j)
      BY <1>8, <2>1
    <3> QED
      BY <1>15, <2>1, <3>1
  <2>2. CASE x = top /\ after[x] = e
    BY <1>1, <1>15, <2>2
  <2> QED
    BY <1>17, <2>1, <2>2
<1>19. ASSUME NEW k \in 1..N, NEW j \in Nat, Earlier(results, n, i + 1, k, j)
       PROVE  \E x \in 1..Len(after) : after[x] = Entry(results, k, j)
  <2>1. CASE Earlier(results, n, i, k, j)
    <3>1. PICK x \in 1..Len(entries) : entries[x] = Entry(results, k, j)
      BY <2>1 DEF HasRead, OnlyEarlier, AllEarlier, Distinct
    <3>2. x \in 1..Len(after) /\ after[x] = entries[x]
      BY <1>7, <1>14, <3>1, SMTT(40)
    <3> QED
      BY <3>1, <3>2
  <2>2. CASE k = n /\ j = i + 1
    BY <1>7, <1>14, <2>2
  <2> QED
    BY <1>15, <1>19, <2>1, <2>2
<1>20. ASSUME NEW x \in 1..Len(after), NEW y \in 1..Len(after),
              after[x].num = after[y].num, after[x].field = after[y].field
       PROVE  x = y
  <2>1. CASE x \in 1..Len(entries) /\ y \in 1..Len(entries)
    <3>1. entries[x].num = entries[y].num /\ entries[x].field = entries[y].field
      BY <1>14, <1>20, <2>1
    <3> QED
      BY <2>1, <3>1 DEF HasRead, OnlyEarlier, AllEarlier, Distinct
  <2>2. CASE x \in 1..Len(entries) /\ y = top
    BY <1>9, <1>14, <1>16, <1>20, <2>2
  <2>3. CASE x = top /\ y \in 1..Len(entries)
    BY <1>9, <1>14, <1>16, <1>20, <2>3, ZenonT(30)
  <2> QED
    BY <1>17, <2>1, <2>2, <2>3
<1>21. new.num = IF i + 1 = 0 /\ n > 1 THEN n - 2 ELSE n - 1
  BY <1>1, <1>12
<1> HIDE DEF e, entries
<1> QED
  <2>1. new.entries = after
    BY <1>12
  <2>2. new.entries \in Seq(AllEntries(results))
    BY <1>14, <2>1
  <2>3. \A x \in 1..Len(new.entries) : \E k \in 1..Len(results), j \in Nat :
          Earlier(results, n, i + 1, k, j) /\ new.entries[x] = Entry(results, k, j)
    BY <1>18, <2>1
  <2>4. \A k \in 1..Len(results), j \in Nat :
          Earlier(results, n, i + 1, k, j) =>
            \E x \in 1..Len(new.entries) : new.entries[x] = Entry(results, k, j)
    BY <1>19, <2>1
  <2>5. \A x, y \in 1..Len(new.entries) :
          new.entries[x].num = new.entries[y].num /\ new.entries[x].field = new.entries[y].field
            => x = y
    BY <1>20, <2>1
  <2>6. HasRead(results, n, i + 1, new)
    BY <1>12, <1>21, <2>2, <2>3, <2>4, <2>5 DEF HasRead, OnlyEarlier, AllEarlier, Distinct
  <2> QED
    BY <2>6 DEF new, item

LEMMA NextExcept ==
  ASSUME NEW res, DOMAIN res = {"num", "next", "entries"}, NEW num, NEW next
  PROVE  LET new == [res EXCEPT !.num = num, !.next = next]
         IN  new.num = num /\ new.next = next /\ new.entries = res.entries
OBVIOUS

LEMMA NextRead ==
  ASSUME NEW res, DOMAIN res = {"num", "next", "entries"}, res.num \in Int,
         NEW item, item.separated = TRUE, item.field = "nextstart"
  PROVE  LET new == ReadItem(res, item)
         IN  new.num = res.num /\ new.next = item.value /\ new.entries = res.entries
<1> DEFINE num == IF item.separated THEN res.num + 1 ELSE res.num
           less == num - 1
           next == item.value
           new == [res EXCEPT !.num = less, !.next = next]
<1>1. ReadItem(res, item) = new
  BY DEF ReadItem
<1>2. less = res.num
  OBVIOUS
<1> HIDE DEF less, next
<1>3. new.num = less /\ new.next = next /\ new.entries = res.entries
  BY NextExcept
<1> HIDE DEF new
<1> QED
  BY <1>1, <1>2, <1>3 DEF next

LEMMA ItemsOf ==
  ASSUME NEW results \in Results, NEW next
  PROVE  LET items == Items(results, next)
             all == Written(results)[Len(results)]
         IN  /\ Len(all) \in Nat
             /\ next = 0 => Len(items) = Len(all)
             /\ next # 0 => Len(items) = Len(all) + 1
             /\ \A x \in 1..Len(all) : items[x] = all[x]
             /\ next # 0 => items[Len(all) + 1] =
                              [separated |-> TRUE, field |-> "nextstart", value |-> next]
<1> DEFINE N == Len(results)
           all == Written(results)[N]
           more == [separated |-> TRUE, field |-> "nextstart", value |-> next]
           items == Items(results, next)
<1>1. N \in Nat /\ N \in 0..N
  <2>1. N \in Nat
    BY ResultOf
  <2> QED
    BY <2>1
<1>2. Len(all) \in Nat /\ \E S : all \in Seq(S)
  BY <1>1, WrittenOf
<1> HIDE DEF all
<1>3. PICK S : all \in Seq(S)
  BY <1>2
<1>4. items = all \o (IF next = 0 THEN <<>> ELSE <<more>>)
  BY DEF Items, all
<1> DEFINE T == S \cup {more}
<1> HIDE DEF more
<1>5. all \in Seq(T) /\ <<more>> \in Seq(T) /\ Len(<<more>>) = 1 /\ <<more>>[1] = more
  <2>1. all \in [1..Len(all) -> S]
    BY <1>3, LenProperties
  <2>2. all \in [1..Len(all) -> T]
    BY <2>1
  <2>3. all \in Seq(T)
    BY <1>2, <2>2
  <2> QED
    BY <2>3
<1>6. CASE next = 0
  <2>1. items = all
    BY <1>3, <1>4, <1>6, ConcatEmptySeq
  <2> QED
    BY <1>2, <1>6, <2>1 DEF all
<1>7. CASE next # 0
  <2> DEFINE s == <<more>>
  <2>1. items = all \o s
    BY <1>4, <1>7
  <2>2. all \in Seq(T) /\ s \in Seq(T) /\ Len(s) = 1 /\ s[1] = more
    BY <1>5
  <2> HIDE DEF s, T, items
  <2>3. /\ Len(items) = Len(all) + Len(s)
        /\ \A x \in 1..Len(all) + Len(s) :
             items[x] = IF x <= Len(all) THEN all[x] ELSE s[x - Len(all)]
    BY <2>1, <2>2, ConcatProperties
  <2>4. Len(items) = Len(all) + 1
    BY <2>2, <2>3
  <2>5. \A x \in 1..Len(all) : x \in 1..Len(all) + Len(s) /\ x <= Len(all)
    BY <1>2, <2>2
  <2>6. \A x \in 1..Len(all) : items[x] = all[x]
    BY <2>3, <2>5
  <2> DEFINE y == Len(all) + 1
  <2>7. y \in 1..Len(all) + Len(s) /\ ~(y <= Len(all)) /\ y - Len(all) = 1
    BY <1>2, <2>2
  <2>8. items[y] = s[y - Len(all)]
    BY <2>3, <2>7
  <2>9. items[y] = more
    BY <2>2, <2>7, <2>8
  <2> QED
    BY <1>2, <1>7, <2>4, <2>6, <2>9 DEF all, items, more
<1> QED
  BY <1>6, <1>7

\* All results are read where the fields of the last one end.
LEMMA ReadThrough ==
  ASSUME NEW results \in Results, Len(results) > 0, NEW next
  PROVE  LET N == Len(results)
         IN  HasRead(results, N, Len(results[N]),
                     Reading(Items(results, next))[Len(Written(results)[N])])
<1> DEFINE N == Len(results)
           w == Written(results)
           items == Items(results, next)
           r == Reading(items)
           o(n) == Len(w[n])
           len(n) == Len(results[n])
<1>1. N \in Nat /\ \A n \in 1..N : len(n) \in Nat
  BY ResultOf
<1>2. /\ \A n \in 0..N : o(n) \in Nat /\ o(n) <= o(N)
      /\ o(0) = 0
      /\ \A n \in 1..N : o(n) = o(n - 1) + len(n)
      /\ \A n \in 1..N : \A i \in 1..len(n) : w[N][o(n - 1) + i] = Fields(results, n)[i]
  <2>1. /\ \A n \in 0..N : Len(w[n]) \in Nat
        /\ w[0] = <<>>
        /\ \A n \in 1..N : Len(w[n]) = Len(w[n - 1]) + Len(results[n])
        /\ \A n \in 1..N : \A i \in 1..Len(results[n]) :
             w[N][Len(w[n - 1]) + i] = Fields(results, n)[i]
        /\ \A n \in 0..N : Len(w[n]) <= Len(w[N])
    BY WrittenOf
  <2>2. Len(<<>>) = 0
    OBVIOUS
  <2> HIDE DEF w
  <2> QED
    BY <2>1, <2>2
<1>3. /\ Len(items) \in Nat /\ o(N) <= Len(items)
      /\ \A x \in 1..o(N) : items[x] = w[N][x]
  <2>1. /\ o(N) \in Nat
        /\ next = 0 => Len(items) = o(N)
        /\ next # 0 => Len(items) = o(N) + 1
        /\ \A x \in 1..o(N) : items[x] = w[N][x]
    <3> DEFINE end == Len(Written(results)[N])
    <3>1. /\ end \in Nat
          /\ next = 0 => Len(items) = end
          /\ next # 0 => Len(items) = end + 1
          /\ \A x \in 1..end : items[x] = Written(results)[N][x]
          /\ next # 0 => items[end + 1] =
                           [separated |-> TRUE, field |-> "nextstart", value |-> next]
      BY ItemsOf
    <3> HIDE DEF items
    <3> QED
      BY <3>1
  <2> HIDE DEF items, o
  <2> QED
    BY <2>1
<1>4. r[0] = Unread /\ \A x \in 1..Len(items) : r[x] = ReadItem(r[x - 1], items[x])
  BY <1>3, ReadingRounds DEF Unread
<1> HIDE DEF w, N, items, r, o, len
<1>5. ASSUME NEW n \in 1..N, HasRead(results, n, 0, r[o(n - 1)])
      PROVE  HasRead(results, n, len(n), r[o(n)])
  <2> DEFINE G == {i \in 0..len(n) : HasRead(results, n, i, r[o(n - 1) + i])}
  <2>1. /\ len(n) \in Nat /\ o(n - 1) \in Nat /\ o(n) = o(n - 1) + len(n) /\ o(n) <= o(N)
        /\ o(N) \in Nat
    <3>1. n - 1 \in 0..N /\ n \in 0..N /\ N \in 0..N
      BY <1>1
    <3> QED
      BY <1>1, <1>2, <3>1
  <2>2. 0 \in G
    <3>1. o(n - 1) + 0 = o(n - 1) /\ 0 \in 0..len(n)
      BY <2>1
    <3> QED
      BY <1>5, <3>1
  <2>3. ASSUME NEW i \in 0..len(n) - 1, i \in G PROVE i + 1 \in G
    <3> DEFINE x == o(n - 1) + (i + 1)
    <3>1. /\ x \in 1..o(N) /\ x \in 1..Len(items) /\ x - 1 = o(n - 1) + i
          /\ i + 1 \in 1..len(n) /\ i + 1 \in 0..len(n)
      <4>1. i \in Nat /\ i + 1 <= len(n)
        BY <2>1
      <4>2. x \in Nat /\ x >= 1 /\ x <= o(n)
        BY <2>1, <4>1
      <4>3. x <= o(N) /\ x <= Len(items)
        BY <1>3, <2>1, <4>2
      <4> QED
        BY <1>3, <2>1, <4>1, <4>2, <4>3
    <3>2. items[x] = Fields(results, n)[i + 1]
      BY <1>2, <1>3, <3>1
    <3>3. r[x] = ReadItem(r[x - 1], Fields(results, n)[i + 1])
      BY <1>4, <3>1, <3>2
    <3>4. HasRead(results, n, i, r[x - 1])
      <4>1. HasRead(results, n, i, r[o(n - 1) + i])
        BY <2>3
      <4> QED
        BY <3>1, <4>1
    <3>5. i \in 0..Len(results[n]) - 1 /\ n \in 1..Len(results)
      BY DEF len, N
    <3>6. HasRead(results, n, i + 1, ReadItem(r[x - 1], Fields(results, n)[i + 1]))
      <4> DEFINE was == r[x - 1]
      <4> HIDE DEF was, x
      <4>1. HasRead(results, n, i, was)
        BY <3>4 DEF was
      <4>2. HasRead(results, n, i + 1, ReadItem(was, Fields(results, n)[i + 1]))
        BY <3>5, <4>1, FieldRead
      <4> QED
        BY <4>2 DEF was
    <3>7. HasRead(results, n, i + 1, r[x])
      BY <3>3, <3>6
    <3> QED
      BY <3>1, <3>7
  <2> HIDE DEF G
  <2>4. \A i \in 0..len(n) : i \in G
    BY <2>1, <2>2, <2>3, AllRounds
  <2>5. len(n) \in G
    BY <2>1, <2>4
  <2>6. HasRead(results, n, len(n), r[o(n - 1) + len(n)])
    BY <2>5 DEF G
  <2> QED
    BY <2>1, <2>6
<1> DEFINE H == {n \in 0..N : n > 0 => HasRead(results, n, len(n), r[o(n)])}
<1>6. 0 \in H
  BY <1>1
<1>7. ASSUME NEW n \in 0..N - 1, n \in H PROVE n + 1 \in H
  <2> DEFINE m == n + 1
  <2>1. m \in 1..N /\ m \in 0..N /\ m - 1 = n
    BY <1>1
  <2>2. HasRead(results, m, 0, r[o(n)])
    <3>1. CASE n = 0
      <4>1. r[o(n)] = Unread
        BY <1>2, <1>4, <3>1
      <4>2. HasRead(results, 1, 0, Unread)
        BY NothingRead
      <4> QED
        BY <3>1, <4>1, <4>2
    <3>2. CASE n # 0
      <4>1. HasRead(results, n, len(n), r[o(n)])
        BY <1>7, <3>2
      <4>2. n \in 1..Len(results) - 1
        BY <1>1, <3>2 DEF N
      <4>3. HasRead(results, n, Len(results[n]), r[o(n)])
        BY <4>1 DEF len
      <4> HIDE DEF H
      <4>4. HasRead(results, n + 1, 0, r[o(n)])
        BY <4>2, <4>3, ResultRead
      <4> QED
        BY <4>4
    <3> QED
      BY <3>1, <3>2
  <2> HIDE DEF m
  <2>3. HasRead(results, m, 0, r[o(m - 1)])
    BY <2>1, <2>2
  <2>4. HasRead(results, m, len(m), r[o(m)])
    BY <1>5, <2>1, <2>3
  <2> QED
    BY <2>1, <2>4 DEF m
<1> HIDE DEF H
<1>8. \A n \in 0..N : n \in H
  BY <1>1, <1>6, <1>7, AllRounds
<1>9. N \in H /\ N > 0
  <2>1. N \in 0..N
    BY <1>1
  <2> QED
    BY <1>8, <2>1 DEF N
<1>10. HasRead(results, N, len(N), r[o(N)])
  BY <1>9 DEF H
<1> QED
  BY <1>10 DEF N, len, r, o, w, items

\* What is read of a reply that has results.
LEMMA ReplyRead ==
  ASSUME NEW results \in Results, Len(results) > 0, NEW next
  PROVE  LET reply == ReadReply(Items(results, next))
             N == Len(results)
         IN  /\ reply.count = N /\ reply.next = next
             /\ \E res : HasRead(results, N, Len(results[N]), res) /\ reply.entries = res.entries
<1> DEFINE N == Len(results)
           items == Items(results, next)
           r == Reading(items)
           end == Len(Written(results)[N])
           res == r[end]
           reply == ReadReply(items)
<1>1. N \in Nat /\ N > 0 /\ N \in 1..N /\ Len(results[N]) \in Nat \ {0}
  <2>1. N \in Nat
    BY ResultOf
  <2>2. N \in 1..N
    BY <2>1
  <2> QED
    BY <2>1, <2>2, ResultOf
<1>2. HasRead(results, N, Len(results[N]), res)
  BY ReadThrough
<1>3. /\ end \in Nat
      /\ next = 0 => Len(items) = end
      /\ next # 0 => Len(items) = end + 1
      /\ next # 0 => items[end + 1] = [separated |-> TRUE, field |-> "nextstart", value |-> next]
  BY ItemsOf
<1>4. \A x \in 1..Len(items) : r[x] = ReadItem(r[x - 1], items[x])
  <2>1. Len(items) \in Nat
    BY <1>3
  <2> QED
    BY <2>1, ReadingRounds
<1>5. end > 0
  <2> DEFINE o(n) == Len(Written(results)[n])
  <2>1. /\ \A n \in 0..N : o(n) \in Nat
        /\ \A n \in 1..N : o(n) = o(n - 1) + Len(results[n])
    BY WrittenOf
  <2>2. N - 1 \in 0..N
    BY <1>1
  <2> HIDE DEF o
  <2>3. o(N) > 0
    BY <1>1, <2>1, <2>2
  <2> QED
    BY <2>3 DEF o
<1> HIDE DEF r, end, items
<1>6. items # <<>>
  BY <1>3, <1>5
<1> DEFINE final == r[Len(items)]
<1>7. reply = [count |-> final.num + 1, next |-> final.next, entries |-> final.entries]
  BY <1>6 DEF ReadReply, r
<1>8. DOMAIN res = {"num", "next", "entries"} /\ res.num = N - 1 /\ res.next = 0
  BY <1>1, <1>2 DEF HasRead, OnlyEarlier, AllEarlier, Distinct
<1>9. final.num = N - 1 /\ final.next = next /\ final.entries = res.entries
  <2>1. CASE next = 0
    BY <1>3, <1>8, <2>1
  <2>2. CASE next # 0
    <3> DEFINE sep == [separated |-> TRUE, field |-> "nextstart", value |-> next]
    <3>1. Len(items) = end + 1 /\ end + 1 \in 1..Len(items) /\ end + 1 - 1 = end
      BY <1>3, <2>2
    <3> DEFINE top == end + 1
    <3> HIDE DEF top
    <3>a. top \in 1..Len(items) /\ Len(items) = top /\ top - 1 = end
      BY <1>3, <3>1 DEF top
    <3>b. r[top] = ReadItem(r[top - 1], items[top])
      BY <1>4, <3>a
    <3>2. final = ReadItem(res, items[end + 1])
      BY <3>a, <3>b DEF top
    <3>3. items[end + 1] = sep
      BY <1>3, <2>2
    <3> HIDE DEF final
    <3>4. sep.separated = TRUE /\ sep.field = "nextstart" /\ sep.value = next
      OBVIOUS
    <3> HIDE DEF sep, res
    <3>5. res.num \in Int
      BY <1>1, <1>8
    <3>6. final.num = res.num /\ final.next = next /\ final.entries = res.entries
      BY <1>8, <3>2, <3>3, <3>4, <3>5, NextRead, ZenonT(40)
    <3> QED
      BY <1>8, <3>6
  <2> QED
    BY <2>1, <2>2
<1>10. reply.count = N /\ reply.next = next /\ reply.entries = res.entries
  BY <1>1, <1>7, <1>9
<1> QED
  BY <1>2, <1>10 DEF items

LEMMA EmptyReply ==
  ASSUME NEW results \in Results, Len(results) = 0
  PROVE  ReadReply(Items(results, 0)) = [count |-> 0, next |-> 0, entries |-> <<>>]
<1> DEFINE items == Items(results, 0)
<1>1. Written(results)[0] = <<>>
  BY WrittenOf
<1>2. items = <<>> \o <<>>
  BY <1>1 DEF Items
<1>3. <<>> \o <<>> = <<>>
  <2>1. <<>> \in Seq(Nat)
    OBVIOUS
  <2> QED
    BY <2>1, ConcatEmptySeq
<1>4. items = <<>> /\ Len(items) = 0
  BY <1>2, <1>3
<1> HIDE DEF items
<1>5. Reading(items)[0] = [num |-> 0, next |-> 0, entries |-> <<>>]
  BY <1>4, ReadingRounds
<1> DEFINE first == Reading(items)[Len(items)]
<1>6. first = [num |-> 0, next |-> 0, entries |-> <<>>]
  BY <1>4, <1>5
<1> HIDE DEF first
<1>7. ReadReply(items) = [count |-> 0, next |-> first.next, entries |-> first.entries]
  BY <1>4 DEF ReadReply, first
<1> QED
  BY <1>6, <1>7 DEF items

LEMMA ReplyIntact ==
  ASSUME NEW results \in Results, NEW next, results = <<>> => next = 0
  PROVE  LET reply == ReadReply(Items(results, next))
         IN  /\ reply.count = Len(results) /\ reply.next = next
             /\ \A n \in DOMAIN results : \A i \in DOMAIN results[n] :
                  GetField(reply, n - 1, results[n][i][1]) = results[n][i][2]
             /\ GetField(reply, Len(results), "name") = "NULL"
<1> DEFINE N == Len(results)
           reply == ReadReply(Items(results, next))
<1>1. /\ N \in Nat /\ DOMAIN results = 1..N /\ (N = 0 <=> results = <<>>)
      /\ \A n \in 1..N :
           Len(results[n]) \in Nat \ {0} /\ DOMAIN results[n] = 1..Len(results[n])
  BY ResultOf
<1>2. CASE N = 0
  <2>1. reply = [count |-> 0, next |-> 0, entries |-> <<>>] /\ next = 0
    BY <1>1, <1>2, EmptyReply
  <2> HIDE DEF reply
  <2>2. GetField(reply, 0, "name") = "NULL"
    BY <2>1 DEF GetField
  <2>3. DOMAIN results = {}
    BY <1>1, <1>2
  <2> QED
    BY <1>2, <2>1, <2>2, <2>3 DEF reply
<1>3. CASE N > 0
  <2>1. /\ reply.count = N /\ reply.next = next
        /\ \E res : HasRead(results, N, Len(results[N]), res) /\ reply.entries = res.entries
    BY <1>3, ReplyRead
  <2> HIDE DEF reply
  <2> DEFINE entries == reply.entries
             top == Len(results[N])
  <2>2. PICK res : HasRead(results, N, top, res) /\ entries = res.entries
    BY <2>1
  <2>3. /\ entries \in Seq(AllEntries(results))
        /\ \A x \in 1..Len(entries) : \E k \in 1..N, j \in Nat :
             Earlier(results, N, top, k, j) /\ entries[x] = Entry(results, k, j)
        /\ \A k \in 1..N, j \in Nat :
             Earlier(results, N, top, k, j) =>
               \E x \in 1..Len(entries) : entries[x] = Entry(results, k, j)
        /\ \A x, y \in 1..Len(entries) :
             entries[x].num = entries[y].num /\ entries[x].field = entries[y].field => x = y
    BY <2>2 DEF HasRead, OnlyEarlier, AllEarlier, Distinct
  <2>4. Len(entries) \in Nat /\ DOMAIN entries = 1..Len(entries)
    BY <2>3, LenProperties
  <2> HIDE DEF entries
  <2>5. ASSUME NEW n \in 1..N, NEW i \in 1..Len(results[n])
        PROVE  GetField(reply, n - 1, results[n][i][1]) = results[n][i][2]
    <3> DEFINE field == results[n][i][1]
               num == n - 1
               value == results[n][i][2]
               same == {x \in DOMAIN entries : entries[x].num = num /\ entries[x].field = field}
    <3>1. Earlier(results, N, top, n, i) /\ i \in Nat
      <4>1. n \in Nat /\ i \in Nat /\ Len(results[n]) \in Nat
        BY <1>1
      <4>2. n = N => i <= top
        BY <4>1
      <4> QED
        BY <4>1, <4>2 DEF Earlier
    <3>2. PICK x \in 1..Len(entries) : entries[x] = Entry(results, n, i)
      BY <2>3, <3>1
    <3>3. entries[x].num = num /\ entries[x].field = field /\ entries[x].value = value
      BY <3>2 DEF Entry
    <3>4. same = {x}
      <4>1. \A y \in same : y = x
        BY <2>3, <2>4, <3>3
      <4>2. x \in same
        BY <2>4, <3>3
      <4> QED
        BY <4>1, <4>2
    <3>5. GetField(reply, num, field) =
            IF same = {} THEN "NULL"
            ELSE entries[CHOOSE y \in same : \A z \in same : y <= z].value
      BY DEF GetField, entries
    <3> HIDE DEF same, num, field, value
    <3>6. (CHOOSE y \in same : \A z \in same : y <= z) = x
      BY <2>4, <3>4
    <3>7. GetField(reply, num, field) = value
      BY <3>3, <3>4, <3>5, <3>6
    <3> QED
      BY <3>7 DEF num, field, value
  <2>6. GetField(reply, N, "name") = "NULL"
    <3>1. ASSUME NEW x \in 1..Len(entries) PROVE entries[x].num # N
      <4>1. PICK k \in 1..N, j \in Nat : entries[x] = Entry(results, k, j)
        BY <2>3
      <4>2. entries[x].num = k - 1
        BY <4>1 DEF Entry
      <4> QED
        BY <1>1, <4>2
    <3> QED
      BY <2>4, <3>1 DEF GetField, entries
  <2>7. \A n \in DOMAIN results : \A i \in DOMAIN results[n] :
          GetField(reply, n - 1, results[n][i][1]) = results[n][i][2]
    BY <1>1, <2>5
  <2> QED
    BY <2>1, <2>6, <2>7 DEF reply
<1> QED
  BY <1>1, <1>2, <1>3

LEMMA NextResults ==
  ASSUME Typed, ResultsIntact, [Next]_vars
  PROVE  ResultsIntact'
<1>1. ASSUME NEW s \in Sources, WatchPacket(s) PROVE ResultsIntact'
  <2> DEFINE packet == Head(wire[s])
  <2>1. \/ \/ TakeUserlistReply(packet) \/ TakeNotifyReply(packet) \/ TakeNotice(packet)
        \/ packet \in SearchReplies /\ TakePubdir50Reply(packet)
        \/ TakeImage(s, packet) \/ TakeUnnamed(s, packet)
        \/ TakeMessage(s, packet)
    BY <1>1, WatchCases
  <2> HIDE DEF packet
  <2>2. last'.type # "PUBDIR50" => ResultsIntact'
    BY DEF ResultsIntact
  <2>3. ASSUME packet \in SearchReplies, TakePubdir50Reply(packet)
        PROVE  ResultsIntact'
    <3>1. CASE packet.form = "whole"
      <4> DEFINE results == packet.results
                 next == packet.next
                 reply == ReadReply(packet.items)
      <4>1. /\ results \in Results /\ packet.items = Items(results, next)
            /\ results = <<>> => next = 0
        BY <2>3 DEF SearchReplies
      <4>2. last' = [type |-> "PUBDIR50", seq |-> packet.seq, res |-> reply,
                     results |-> results, next |-> next]
        BY <2>3, <3>1 DEF TakePubdir50Reply
      <4>3. last'.res = reply /\ last'.results = results /\ last'.next = next
        BY <4>2
      <4> HIDE DEF results, next
      <4>4. /\ reply.count = Len(results) /\ reply.next = next
            /\ \A n \in DOMAIN results : \A i \in DOMAIN results[n] :
                 GetField(reply, n - 1, results[n][i][1]) = results[n][i][2]
            /\ GetField(reply, Len(results), "name") = "NULL"
        BY <4>1, ReplyIntact
      <4> HIDE DEF reply
      <4> QED
        BY <4>3, <4>4 DEF ResultsIntact
    <3>2. CASE packet.form # "whole"
      <4>1. last'.type \in {"NONE", "FAILED"}
        BY <2>3, <3>2 DEF TakePubdir50Reply, Fails, Event
      <4> QED
        BY <2>2, <4>1
    <3> QED
      BY <3>1, <3>2
  <2>4. ASSUME TakeMessage(s, packet) PROVE last'.type # "PUBDIR50"
    BY <2>4 DEF TakeMessage, Event
  <2> QED
    BY <2>1, <2>2, <2>3, <2>4, TypesTold
<1>2. ASSUME \A s \in Sources : ~WatchPacket(s) PROVE ResultsIntact'
  <2>1. CASE last' = last
    BY <2>1 DEF ResultsIntact
  <2>2. CASE last'.type \in {"call", "none", "NONE", "FAILED"}
    BY <2>2 DEF ResultsIntact
  <2> QED
    BY <1>2, <2>1, <2>2, NothingTold
<1> QED
  BY <1>1, <1>2

\* The results of a search reach the program as the server wrote them: their
\* number, the page that follows, every field of every result, and nothing
\* behind the last one.  The separator in front of "nextstart" is not counted
\* (pubdir50.c:353).
THEOREM ResultsKept == Spec => []ResultsIntact
<1>1. Init => Typed /\ ResultsIntact
  <2> SUFFICES ASSUME Init PROVE Typed /\ ResultsIntact
    OBVIOUS
  <2>1. last.type = "none"
    BY DEF Init, Event
  <2> QED
    BY <2>1, InitTyped DEF ResultsIntact
<1>2. Typed /\ ResultsIntact /\ [Next]_vars => (Typed /\ ResultsIntact)'
  BY NextTyped, NextResults
<1> QED
  BY <1>1, <1>2, PTL DEF Spec
=============================================================================
