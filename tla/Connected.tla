------------------------------ MODULE Connected ------------------------------
(***************************************************************************)
(* A session in GG_STATE_CONNECTED: the client's requests, the far end     *)
(* that answers them, and gg_watch_fd(), which takes one packet a call and *)
(* makes one event of it.  What a request leaves in the session            *)
(* (userlist_blocks, userlist_reply, images) is there for the packets that *)
(* answer it, and other requests and packets come in between.              *)
(*                                                                         *)
(* Packets are whole: that is the business of RecvPacket.  A piece of data *)
(* is its position in what it is a piece of.                               *)
(***************************************************************************)
EXTENDS Requests

CONSTANTS
    Peers,          \* those who send us images and conferences
    Images,         \* images one may ask for: records of id (its crc32) and size
    Lists,          \* user lists: sequences
    ContactLists,   \* what gg_notify() may be given: sequences
    Groups,         \* the recipients of conferences: sequences with "me" in them
    Results,        \* what a search may find: sequences of sequences of <<field, value>>
    Notices,        \* types of packets that come unasked
    Uins,           \* whom gg_add_notify() and gg_remove_notify() may name
    Clocks,         \* what two calls of time() may return: pairs
    Seqs,           \* what gg_pubdir50_seq_set() may set, 0 for nothing
    MaxCalls,       \* bound on the calls of the client
    MaxUnasked      \* bound on packets that come unasked

ASSUME PeersAssumption == "me" \notin Peers /\ "server" \notin Peers
ASSUME ImagesAssumption == \A image \in Images : image.size \in Nat
ASSUME ListsAssumption ==
    Lists \cup ContactLists \subseteq Seq(Nat) /\ Uins \subseteq Nat
ASSUME GroupsAssumption == \A group \in Groups : group \in Seq(ToSet(group))
ASSUME ResultsAssumption ==
    \A results \in Results :
        /\ results \in Seq(ToSet(results))
        /\ \A n \in DOMAIN results :
              /\ results[n] \in Seq(ToSet(results[n])) \ {<<>>}
              /\ \A i, j \in DOMAIN results[n] :
                    results[n][i][1] = results[n][j][1] => i = j
              /\ \A i \in DOMAIN results[n] : results[n][i][1] # "nextstart"
ASSUME NoticesAssumption ==
    Notices \subseteq {"NOTIFY_REPLY", "NOTIFY_REPLY_SHORT", "STATUS", "ACK", "PONG",
                       "DISCONNECTING", "SHORT", "UNKNOWN"}
ASSUME BoundsAssumption == MaxCalls \in Nat /\ MaxUnasked \in Nat

VARIABLES
    \* the session
    userlistBlocks, \* sess->userlist_blocks
    userlistReply,  \* sess->userlist_reply
    images,         \* sess->images
    errno,          \* "EAGAIN", or something else
    \* the connection and the far end
    link,           \* "up", "lossy" (a packet was lost, and the connection goes on),
                    \* "broken" (nothing gets through any more), or "over"
    wire,           \* packets under way to us: one queue for each who sends
    toServer,       \* packets under way to the server
    stored,         \* the user list the server keeps
    contacts,       \* the contacts the server knows, and those not complete yet
    owed,           \* the images a peer has been asked for and not answered
    \* what the client knows
    calls,          \* how many calls it made, and how often it was disturbed
    last,           \* what the last call returned or reported, until the far end moves
    asked           \* what it asked for: see Init

session == <<userlistBlocks, userlistReply, images, errno>>
farEnd == <<stored, contacts, owed>>
vars == <<session, link, wire, toServer, farEnd, calls, last, asked>>

Sources == Peers \cup {"server"}

(* An event without more to say.                                           *)
Event(type) == [type |-> type]

(* asked.list is the user list sent last and asked.request the request for *)
(* or with a list that is not answered; a second one makes them overlap.   *)
(* asked.contacts is what gg_notify() and its kin were given, asked.images *)
(* counts the requests for images that were neither answered nor           *)
(* abandoned, asked.searches those for results, which are known by the     *)
(* asked.numbers that gg_pubdir50() returned.  leaked says that a file     *)
(* name of a transfer that was sent to its end was written over, and       *)
(* hidden that a reply without an end came after an EAGAIN.                *)
Init ==
    /\ userlistBlocks = 0 /\ userlistReply = <<>> /\ images = <<>> /\ errno = "other"
    /\ link = "up" /\ wire = [s \in Sources |-> <<>>] /\ toServer = <<>>
    /\ stored = <<>> /\ contacts = [known |-> {}, coming |-> {}]
    /\ owed = [p \in Peers |-> <<>>]
    /\ calls = [made |-> 0, unasked |-> 0]
    /\ last = Event("none")
    /\ asked = [list |-> <<>>, request |-> "none", overlap |-> FALSE, contacts |-> {},
                images |-> [p \in Peers |-> 0], searches |-> 0, numbers |-> {},
                leaked |-> FALSE, hidden |-> FALSE]

-----------------------------------------------------------------------------
(* The calls.  What may become of a call in n packets: those of            *)
(* fate.through reach the server, and fate.tried is the last one the call  *)
(* sent or tried to send.  A call that is told of a failure stops there    *)
(* and returns -1.  But gg_send_packet() takes a failed write for a        *)
(* success (libgadu.c:690): any packet may be lost without the call        *)
(* noticing, and the connection may go on.                                 *)
Fates(n) ==
    {fate \in [through : SUBSET (1 .. n), tried : 1 .. n, res : {0, -1}] :
        /\ fate.through \subseteq 1 .. fate.tried
        /\ IF fate.res = 0 THEN fate.tried = n ELSE fate.tried \notin fate.through}

Sends(packets, fate) ==
    /\ link' \in IF fate.through = DOMAIN packets THEN {link} ELSE {"lossy", "broken"}
    /\ toServer' = toServer \o Picked(packets, fate.through)

Called(call, res) ==
    /\ calls.made < MaxCalls
    /\ link \in {"up", "lossy"}
    /\ calls' = [calls EXCEPT !.made = @ + 1]
    /\ last' = [type |-> "call", call |-> call, res |-> res]
    /\ UNCHANGED <<errno, wire, farEnd>>

AsksList(asking, request) ==
    [asking EXCEPT !.request = request, !.overlap = @ \/ asking.request # "none"]

(* Fault: a block is counted once it is sent.                              *)
BlocksCountedLate(fate) == IF fate.res = -1 THEN fate.tried - 1 ELSE fate.tried

(* userlist_blocks after a request: a block is counted before it is sent.  *)
BlocksCounted(fate) == fate.tried

(* gg_userlist_request() with a list, to be kept by the server.            *)
UserlistPut(list) ==
    LET packets == UserlistPackets(list)
    IN  \E fate \in Fates(Len(packets)) :
            /\ Called("userlist", fate.res)
            /\ Sends(packets, fate)
            /\ userlistBlocks' = BlocksCounted(fate)
            /\ asked' = [AsksList(asked, "put") EXCEPT !.list = list]
            /\ UNCHANGED <<userlistReply, images>>

(* gg_userlist_request() without a list, to get the server's.              *)
UserlistGet ==
    \E fate \in Fates(1) :
        /\ Called("userlist", fate.res)
        /\ Sends(<<[type |-> "USERLIST_GET"]>>, fate)
        /\ userlistBlocks' = 1
        /\ asked' = AsksList(asked, "get")
        /\ UNCHANGED <<userlistReply, images>>

(* gg_image_request(): the entry is made once the request is sent.         *)
NewImage(peer, image) ==
    [sender |-> peer, size |-> image.size, crc32 |-> image.id, done |-> 0,
     image |-> [i \in 1 .. image.size |-> 0], filename |-> "NULL",
     whole |-> FALSE, lost |-> FALSE]

ImageRequest(peer, image) ==
    \E fate \in Fates(1) :
        /\ Called("image", fate.res)
        /\ Sends(<<[type |-> "SEND_MSG", to |-> peer, image |-> image]>>, fate)
        /\ images' = IF fate.res = 0 THEN Append(images, NewImage(peer, image)) ELSE images
        /\ asked' = [asked EXCEPT !.images[peer] = @ + Cardinality(fate.through)]
        /\ UNCHANGED <<userlistBlocks, userlistReply>>

(* gg_notify(), gg_add_notify() and gg_remove_notify().                    *)
Notify(list) ==
    \E fate \in Fates(Len(NotifyPackets(list))) :
        /\ Called("notify", fate.res)
        /\ Sends(NotifyPackets(list), fate)
        /\ asked' = [asked EXCEPT !.contacts = ToSet(list)]
        /\ UNCHANGED <<userlistBlocks, userlistReply, images>>

AddOrRemoveNotify(uin, type) ==
    \E fate \in Fates(1) :
        /\ Called("notify", fate.res)
        /\ Sends(<<[type |-> type, data |-> <<uin>>]>>, fate)
        /\ asked' = [asked EXCEPT !.contacts = IF type = "ADD_NOTIFY" THEN @ \cup {uin}
                                               ELSE @ \ {uin}]
        /\ UNCHANGED <<userlistBlocks, userlistReply, images>>

(* gg_pubdir50(): seq is what gg_pubdir50_seq_set() set, or 0.  time() is  *)
(* called twice; the first value is returned, the second one may be sent.  *)
Pubdir50(seq) ==
    \E clock \in Clocks, fate \in Fates(1) :
        LET sent == IF seq # 0 THEN seq ELSE clock[2]
        IN  /\ Called("search", IF fate.res = -1 THEN 0 ELSE clock[1])
            /\ Sends(<<[type |-> "PUBDIR50_REQUEST", seq |-> sent]>>, fate)
            /\ asked' = [asked EXCEPT !.searches = @ + Cardinality(fate.through),
                                      !.numbers = IF fate.res = 0 THEN @ \cup {clock[1]}
                                                  ELSE @]
            /\ UNCHANGED <<userlistBlocks, userlistReply, images>>

-----------------------------------------------------------------------------
(* The server takes requests in order and answers each of them; what it    *)
(* does with a list follows from the names of the packets.                 *)
Replies(packets) == wire' = [wire EXCEPT !["server"] = @ \o packets]

UserlistReply(type, data) == [type |-> "USERLIST_REPLY", reply |-> type, data |-> data]

ServerStores(packet) ==
    /\ packet.type \in {"USERLIST_PUT", "USERLIST_PUT_MORE"}
    /\ stored' = IF packet.type = "USERLIST_PUT" THEN packet.data ELSE stored \o packet.data
    /\ Replies(<<UserlistReply(IF packet.type = "USERLIST_PUT" THEN "PUT_REPLY"
                               ELSE "PUT_MORE_REPLY", <<>>)>>)
    /\ UNCHANGED <<contacts, owed>>

UserlistParts(list) ==
    LET blocks == UserlistBlocks(list)
    IN  [i \in DOMAIN blocks |->
            UserlistReply(IF i < Len(blocks) THEN "GET_MORE_REPLY" ELSE "GET_REPLY", blocks[i])]

ServerLists(packet) ==
    /\ packet.type = "USERLIST_GET"
    /\ Replies(UserlistParts(stored))
    /\ UNCHANGED farEnd

(* The contacts the server knows when it has taken one more packet: those  *)
(* of a list that goes on are kept until its last part is there.           *)
Noted(noted, packet) ==
    LET named == ToSet(packet.data)
        coming == noted.coming \cup named
    IN  CASE packet.type = "NOTIFY_FIRST" -> [known |-> noted.known, coming |-> coming]
          [] packet.type \in {"NOTIFY_LAST", "LIST_EMPTY"} -> [known |-> coming, coming |-> {}]
          [] packet.type = "ADD_NOTIFY" ->
                 [known |-> noted.known \cup named, coming |-> noted.coming]
          [] packet.type = "REMOVE_NOTIFY" ->
                 [known |-> noted.known \ named, coming |-> noted.coming]

ServerNotes(packet) ==
    /\ packet.type \in {"LIST_EMPTY", "NOTIFY_FIRST", "NOTIFY_LAST", "ADD_NOTIFY", "REMOVE_NOTIFY"}
    /\ contacts' = Noted(contacts, packet)
    /\ UNCHANGED <<wire, stored, owed>>

ServerPassesOn(packet) ==
    /\ packet.type = "SEND_MSG"
    /\ owed' = [owed EXCEPT ![packet.to] = Append(@, packet.image)]
    /\ UNCHANGED <<wire, stored, contacts>>

(* The results of a search, well written, too short for its header, or     *)
(* with a last field that has no end.                                      *)
ServerFinds(packet) ==
    /\ packet.type = "PUBDIR50_REQUEST"
    /\ \E results \in Results, next \in {0, 2}, form \in {"whole", "short", "unended"} :
           /\ results = <<>> => next = 0
           /\ form # "whole" => results = <<>>
           /\ Replies(<<[type |-> "PUBDIR50_REPLY", form |-> form, seq |-> packet.seq,
                         items |-> Items(results, next), results |-> results, next |-> next]>>)
    /\ UNCHANGED farEnd

ServerTakes ==
    /\ toServer # <<>>
    /\ toServer' = Tail(toServer)
    /\ LET packet == Head(toServer)
       IN  \/ ServerStores(packet)
           \/ ServerLists(packet)
           \/ ServerNotes(packet)
           \/ ServerPassesOn(packet)
           \/ ServerFinds(packet)
    /\ last' = Event("none")
    /\ UNCHANGED <<session, link, calls, asked>>

(* A peer sends the image it was asked for, but may be gone after some of  *)
(* its chunks or after a first one whose name has no end, or says with an  *)
(* empty chunk that it has none.                                           *)
PeerAnswers(p) ==
    LET image == Head(owed[p])
        all == ChunkCount(image.size)
    IN  /\ owed[p] # <<>>
        /\ owed' = [owed EXCEPT ![p] = Tail(@)]
        /\ \/ \E n \in 0 .. all :
                 /\ wire' = [wire EXCEPT ![p] = @ \o SubSeq(ImagePackets(image, n = all), 1, n)]
                 /\ asked' = IF n = all THEN asked ELSE [asked EXCEPT !.images[p] = @ - 1]
           \/ /\ wire' = [wire EXCEPT ![p] = Append(@,
                             [type |-> "RECV_MSG", option |-> "IMAGE_NONE", image |-> image])]
              /\ UNCHANGED asked
           \/ /\ wire' = [wire EXCEPT ![p] = Append(@,
                             [type |-> "RECV_MSG", option |-> "IMAGE_UNNAMED", image |-> image])]
              /\ asked' = [asked EXCEPT !.images[p] = @ - 1]
        /\ last' = Event("none")
        /\ UNCHANGED <<session, link, toServer, stored, contacts, calls>>

(* What comes unasked: a conference with us in it, or any other packet.    *)
Unasked ==
    /\ calls.unasked < MaxUnasked
    /\ calls' = [calls EXCEPT !.unasked = @ + 1]
    /\ \/ \E p \in Peers, group \in Groups : \E stale \in ToSet(group), i \in DOMAIN group :
             /\ p \notin ToSet(group) /\ group[i] = "me"
             /\ wire' = [wire EXCEPT ![p] = Append(@, ConferPackets(p, group, stale)[i])]
       \/ \E type \in Notices : Replies(<<[type |-> type]>>)
    /\ last' = Event("none")
    /\ UNCHANGED <<session, link, toServer, farEnd, asked>>

-----------------------------------------------------------------------------
(* Fault: a part of a list replaces the ones before it.                    *)
JoinedLast(reply, data) == data

Joined(reply, data) == reply \o data

(* A reply to a user list request.  Those to the blocks of a list that is  *)
(* sent are only counted, all but the last; the parts of one that is       *)
(* fetched are joined in userlist_reply until the last has come.           *)
TakeUserlistReply(packet) ==
    LET puts == packet.reply \in {"PUT_REPLY", "PUT_MORE_REPLY"}
        joined == Joined(userlistReply, packet.data)
    IN  /\ packet.type = "USERLIST_REPLY"
        /\ userlistBlocks' = IF puts THEN userlistBlocks - 1 ELSE userlistBlocks
        /\ \/ /\ puts /\ userlistBlocks' # 0
              /\ last' = Event("NONE")
              /\ UNCHANGED <<userlistReply, asked>>
           \/ /\ packet.reply = "GET_MORE_REPLY"
              /\ userlistReply' = joined /\ last' = Event("NONE")
              /\ UNCHANGED asked
           \/ /\ packet.reply = "GET_REPLY" \/ (puts /\ userlistBlocks' = 0)
              /\ userlistReply' = <<>>
              /\ last' = [type |-> "USERLIST", reply |-> joined,
                          of |-> IF puts THEN "PUT_REPLY" ELSE "GET_REPLY"]
              /\ asked' = [asked EXCEPT !.request = "none"]
        /\ UNCHANGED <<images, errno, link>>

Fits(entry, p, image) ==
    entry.sender = p /\ entry.size = image.size /\ entry.crc32 = image.id

(* Fault: a first chunk goes on where an earlier transfer was.             *)
BegunOn(entry, packet) ==
    IF packet.option = "IMAGE_FIRST" THEN [entry EXCEPT !.filename = packet.image.id] ELSE entry

(* Fault: every chunk is taken to begin with a name.                       *)
BegunAlways(entry, packet) ==
    [entry EXCEPT !.done = IF packet.option = "IMAGE_FIRST" THEN 0 ELSE @,
                  !.filename = packet.image.id,
                  !.whole = packet.whole,
                  !.lost = entry.filename # "NULL" /\ entry.whole]

(* A first chunk starts from the beginning and brings the name, which is   *)
(* written over one that is there already.                                 *)
Begun(entry, packet) ==
    IF packet.option = "IMAGE_FIRST"
    THEN [entry EXCEPT !.done = 0, !.filename = packet.image.id, !.whole = packet.whole,
                       !.lost = entry.filename # "NULL" /\ entry.whole]
    ELSE entry

Filled(entry, data) ==
    LET len == IF entry.done + Len(data) > entry.size THEN entry.size - entry.done ELSE Len(data)
    IN  [entry EXCEPT !.done = @ + len,
                      !.image = [i \in 1 .. entry.size |->
                                    IF i \in entry.done + 1 .. entry.done + len
                                    THEN data[i - entry.done] ELSE @[i]]]

(* Fault: an entry is complete as soon as anything is in it.               *)
CompleteEarly(entry) == entry.done > 0

(* Fault: an entry is complete when more than everything is in it.         *)
CompletePast(entry) == entry.done > entry.size

Complete(entry) == entry.done >= entry.size

Fitting(p, image) == {i \in DOMAIN images : Fits(images[i], p, image)}
Earliest(S) == CHOOSE i \in S : \A j \in S : i <= j

(* The entry that is complete is reported and leaves the queue.            *)
ImageGrows(p, q, packet) ==
    LET filled == Filled(Begun(images[q], packet), packet.data)
        leaked == asked.leaked \/ filled.lost
    IN  \/ /\ Complete(filled)
           /\ images' = RemoveAt(images, q)
           /\ last' = [type |-> "IMAGE_REPLY", sender |-> p, size |-> filled.size,
                       crc32 |-> filled.crc32, filename |-> filled.filename,
                       image |-> filled.image]
           /\ asked' = [asked EXCEPT !.images[p] = @ - 1, !.leaked = leaked]
        \/ /\ ~Complete(filled)
           /\ images' = [images EXCEPT ![q] = filled]
           /\ last' = Event("NONE")
           /\ asked' = [asked EXCEPT !.leaked = leaked]

(* gg_image_queue_parse().  The first entry that fits is taken; a first    *)
(* chunk begins it anew, and what is too much is left out.                 *)
TakeImage(p, packet) ==
    /\ packet.type = "RECV_MSG" /\ packet.option \in {"IMAGE_FIRST", "IMAGE_MORE"}
    /\ IF Fitting(p, packet.image) = {}
       THEN last' = Event("NONE") /\ UNCHANGED <<images, asked>>
       ELSE ImageGrows(p, Earliest(Fitting(p, packet.image)), packet)
    /\ UNCHANGED <<userlistBlocks, userlistReply, errno, link>>

(* gg_image_queue_parse() with a first chunk whose name has no end: the    *)
(* entry begins anew, and nothing of the chunk is kept.                    *)
TakeUnnamed(p, packet) ==
    /\ packet.type = "RECV_MSG" /\ packet.option = "IMAGE_UNNAMED"
    /\ LET fitting == Fitting(p, packet.image)
       IN  images' = IF fitting = {} THEN images
                     ELSE [images EXCEPT ![Earliest(fitting)].done = 0]
    /\ last' = Event("NONE")
    /\ UNCHANGED <<userlistBlocks, userlistReply, errno, link, asked>>

(* gg_handle_recv_msg() for the other messages.  An image nobody has is    *)
(* reported at once and its entry stays in the queue.                      *)
TakeMessage(p, packet) ==
    /\ packet.type = "RECV_MSG" /\ packet.option \in {"IMAGE_NONE", "CONFERENCE"}
    /\ IF packet.option = "IMAGE_NONE"
       THEN /\ last' = [type |-> "IMAGE_REPLY", sender |-> p, size |-> 0,
                        crc32 |-> packet.image.id, filename |-> "NULL", image |-> <<>>]
            /\ asked' = [asked EXCEPT !.images[p] = @ - 1]
       ELSE /\ last' = [type |-> "MSG", sender |-> p, recipients |-> packet.recipients,
                        group |-> packet.group]
            /\ UNCHANGED asked
    /\ UNCHANGED <<session, link>>

(* What GG_STATE_CONNECTED makes of a failure: with EAGAIN in errno it is  *)
(* none, and the event that was begun is taken back.                       *)
Fails(code) ==
    /\ errno' = code
    /\ IF code = "EAGAIN" THEN last' = Event("NONE") /\ UNCHANGED link
       ELSE last' = Event("FAILED") /\ link' = "over"

(* Fault: a reply that is too short leaves errno as it was.                *)
ReplyErrorUnset(form) == errno

(* gg_pubdir50_handle_reply().  A packet that is too short sets errno, one *)
(* that ends in the middle of a field leaves it as it was.                 *)
ReplyError(form) == IF form = "short" THEN "EINVAL" ELSE errno

TakePubdir50Reply(packet) ==
    /\ packet.type = "PUBDIR50_REPLY"
    /\ IF packet.form = "whole"
       THEN /\ last' = [type |-> "PUBDIR50", seq |-> packet.seq, res |-> ReadReply(packet.items),
                        results |-> packet.results, next |-> packet.next]
            /\ asked' = [asked EXCEPT !.searches = @ - 1]
            /\ UNCHANGED <<errno, link>>
       ELSE /\ Fails(ReplyError(packet.form))
            /\ asked' = [asked EXCEPT !.hidden = @ \/ (packet.form = "unended"
                                                       /\ errno = "EAGAIN")]
    /\ UNCHANGED <<userlistBlocks, userlistReply, images>>

(* A notify reply that is too short sets errno; any other is one event.    *)
TakeNotifyReply(packet) ==
    /\ packet.type \in {"NOTIFY_REPLY", "NOTIFY_REPLY_SHORT"}
    /\ IF packet.type = "NOTIFY_REPLY_SHORT" THEN Fails("EINVAL")
       ELSE last' = Event(packet.type) /\ UNCHANGED <<errno, link>>
    /\ UNCHANGED <<userlistBlocks, userlistReply, images, asked>>

(* Of the other packets, those that are too short or unknown are passed    *)
(* over, and each of the rest is one event.                                *)
TakeNotice(packet) ==
    /\ packet.type \in {"STATUS", "ACK", "PONG", "DISCONNECTING", "SHORT", "UNKNOWN"}
    /\ last' = Event(IF packet.type \in {"SHORT", "UNKNOWN"} THEN "NONE" ELSE packet.type)
    /\ UNCHANGED <<session, link, asked>>

WatchPacket(s) ==
    /\ link # "over"
    /\ wire[s] # <<>>
    /\ wire' = [wire EXCEPT ![s] = Tail(@)]
    /\ LET packet == Head(wire[s])
       IN  \/ TakeUserlistReply(packet)
           \/ TakeImage(s, packet)
           \/ TakeUnnamed(s, packet)
           \/ TakeMessage(s, packet)
           \/ TakePubdir50Reply(packet)
           \/ TakeNotifyReply(packet)
           \/ TakeNotice(packet)
    /\ UNCHANGED <<toServer, farEnd, calls>>

(* gg_recv_packet() finds less than a packet.                              *)
WatchNothing ==
    /\ link \in {"up", "lossy"}
    /\ Fails("EAGAIN")
    /\ UNCHANGED <<userlistBlocks, userlistReply, images, wire, toServer, farEnd, calls, asked>>

(* gg_recv_packet() finds the end of the connection.                       *)
WatchEnd ==
    /\ link = "broken"
    /\ \A s \in Sources : wire[s] = <<>>
    /\ Fails("other")
    /\ UNCHANGED <<userlistBlocks, userlistReply, images, wire, toServer, farEnd, calls, asked>>

-----------------------------------------------------------------------------
Client ==
    \/ \E list \in Lists : UserlistPut(list)
    \/ UserlistGet
    \/ \E p \in Peers, image \in Images : ImageRequest(p, image)
    \/ \E list \in ContactLists : Notify(list)
    \/ \E uin \in Uins, type \in {"ADD_NOTIFY", "REMOVE_NOTIFY"} : AddOrRemoveNotify(uin, type)
    \/ \E seq \in Seqs : Pubdir50(seq)

Watch == WatchEnd \/ \E s \in Sources : WatchPacket(s)

Next ==
    \/ Client
    \/ ServerTakes
    \/ \E p \in Peers : PeerAnswers(p)
    \/ Unasked
    \/ Watch
    \/ WatchNothing

Spec == Init /\ [][Next]_vars

(* The client watches the descriptor and the far end answers: as long as   *)
(* something is under way, some of it arrives.                             *)
FairSpec == Spec /\ WF_vars(ServerTakes \/ Watch \/ \E p \in Peers : PeerAnswers(p))

-----------------------------------------------------------------------------
(* The variables keep their types: among others a queue entry never holds  *)
(* more than its size, and no request is answered more than once.          *)
TypeOK ==
    /\ userlistBlocks \in Int /\ errno \in {"EAGAIN", "EINVAL", "other"}
    /\ link \in {"up", "lossy", "broken", "over"}
    /\ \A i \in DOMAIN images :
          /\ images[i].sender \in Peers
          /\ images[i].done \in 0 .. images[i].size
          /\ DOMAIN images[i].image = 1 .. images[i].size
    /\ asked.images \in [Peers -> Nat] /\ asked.searches \in Nat

(* The image in an event is the image that was asked for, whole and in     *)
(* order, with the name it was sent under, whatever other transfers and    *)
(* transfers broken off came before it and in between (events.c:183,       *)
(* libgadu.c:1284).                                                        *)
ImageIntact ==
    last.type = "IMAGE_REPLY" /\ last.filename # "NULL" =>
        /\ last.filename = last.crc32
        /\ last.image = [i \in 1 .. last.size |-> i]

(* A file name that nobody has been told is lost only where a new transfer *)
(* writes over one that was broken off; that of a transfer which is sent   *)
(* to its end stays until the image is reported (events.c:216).            *)
NamesAccounted == ~asked.leaked

(* When the client is told that its list is stored, the server has all of  *)
(* it, even if blocks were lost on the way; only requests that overlap can *)
(* spoil the counter (libgadu.c:1810, events.c:743).                       *)
ExportDone ==
    last.type = "USERLIST" /\ last.of = "PUT_REPLY" /\ ~asked.overlap =>
        stored = asked.list /\ last.reply = <<>>

(* A list that is fetched arrives whole, its parts in order and nothing    *)
(* else with them (events.c:767).                                          *)
ImportWhole ==
    last.type = "USERLIST" /\ last.of = "GET_REPLY" /\ ~asked.overlap =>
        last.reply = stored

(* When the server has taken all packets and none was lost, it knows the   *)
(* contacts the client named, however many blocks they took                *)
(* (libgadu.c:1649).                                                       *)
ContactsKnown ==
    link = "up" /\ toServer = <<>> => contacts.known = asked.contacts /\ contacts.coming = {}

(* Whoever gets a message of a conference can answer everyone in it: the   *)
(* sender, the recipients and we make up the group, and nobody else does,  *)
(* but where the sender named a recipient twice: then the list goes on     *)
(* behind the others with what was in memory (libgadu.c:1482, 1506).       *)
ConferenceKnown ==
    last.type = "MSG" =>
        /\ ToSet(last.group) \subseteq ToSet(last.recipients) \cup {"me"}
        /\ Len(last.recipients) + 1 = Len(last.group)
        /\ IsInjective(last.group) => ToSet(last.recipients) \subseteq ToSet(last.group) \ {"me"}

(* The results of a search are those the server found, each field under    *)
(* the number of its result, and the next page is no result (pubdir50.c:353). *)
ResultsIntact ==
    last.type = "PUBDIR50" =>
        /\ last.res.count = Len(last.results)
        /\ last.res.next = last.next
        /\ \A n \in DOMAIN last.results : \A i \in DOMAIN last.results[n] :
              GetField(last.res, n - 1, last.results[n][i][1]) = last.results[n][i][2]
        /\ GetField(last.res, Len(last.results), "name") = "NULL"

(* Nothing is waited for, but an answer about a list of which a packet may *)
(* be lost.                                                                *)
Settled ==
    /\ asked.request = "none" \/ link = "lossy"
    /\ \A p \in Peers : asked.images[p] = 0
    /\ asked.searches = 0

(* Every request that reaches the far end is answered, time and again      *)
(* until all are: one for a user list by an event of its own, one for an   *)
(* image by an event unless its sender is gone, a search by its results or *)
(* by the end of the connection.  Named exceptions: requests for user      *)
(* lists that overlap, a reply that ends in the middle of a field after an *)
(* EAGAIN, which is passed over, and a connection that is lost             *)
(* (events.c:743, events.c:183, events.c:1554).                            *)
RequestsAnswered ==
    []<>(Settled \/ asked.overlap \/ asked.hidden \/ link \in {"broken", "over"})

(* The number gg_pubdir50() returns is that of the search, by which the    *)
(* client knows its reply (pubdir50.c:186).                                *)
SearchNumberReturned == last.type = "PUBDIR50" => last.seq \in asked.numbers
=============================================================================
