------------------------------ MODULE Requests ------------------------------
(***************************************************************************)
(* What the calls of a connected session put into packets: the blocks of a *)
(* user list, of a list of contacts and of an image, the recipients of a   *)
(* conference; and what is read out of a reply of the public directory.    *)
(* The loops of the code are given by what each of their rounds does.      *)
(***************************************************************************)
EXTENDS Integers, FiniteSets, Sequences, SequencesExt

CONSTANTS
    ListBlock,      \* the most of a user list in one packet, 2047
    NotifyBlock,    \* the most contacts in one packet, 400
    Room,           \* what the buffer of gg_image_reply() leaves to a chunk
    NameSize        \* the size of an image's file name, with its zero

ASSUME BlocksAssumption == {ListBlock, NotifyBlock, Room, NameSize} \subseteq Nat \ {0}
ASSUME NameFits == NameSize < Room

(* s in pieces of n, the last of which may be shorter.                     *)
Pieces(s, n) ==
    [i \in 1 .. (Len(s) + n - 1) \div n |->
        SubSeq(s, (i - 1) * n + 1, IF i * n <= Len(s) THEN i * n ELSE Len(s))]

(* The place of j among the numbers that are kept, counted from 1, and a   *)
(* sequence without its other elements.                                    *)
Place(kept, j) == Cardinality({h \in kept : h <= j})
Picked(s, kept) ==
    [k \in 1 .. Cardinality(kept) |-> s[CHOOSE j \in kept : Place(kept, j) = k]]

-----------------------------------------------------------------------------
(* gg_userlist_request() with a list: an empty one takes a packet as well. *)
UserlistBlocks(list) == IF list = <<>> THEN <<list>> ELSE Pieces(list, ListBlock)

UserlistPackets(list) ==
    [i \in DOMAIN UserlistBlocks(list) |->
        [type |-> IF i = 1 THEN "USERLIST_PUT" ELSE "USERLIST_PUT_MORE",
         data |-> UserlistBlocks(list)[i]]]

(* Fault: a block that is full is never taken for the last one.            *)
NotifyPacketsAtLeast(list) ==
    IF list = <<>> THEN <<[type |-> "LIST_EMPTY", data |-> list]>>
    ELSE LET parts == Pieces(list, NotifyBlock)
         IN  [i \in DOMAIN parts |->
                 [type |-> IF Len(parts[i]) >= NotifyBlock THEN "NOTIFY_FIRST"
                           ELSE "NOTIFY_LAST",
                  data |-> parts[i]]]

NotifyPackets(list) ==
    IF list = <<>> THEN <<[type |-> "LIST_EMPTY", data |-> list]>>
    ELSE LET parts == Pieces(list, NotifyBlock)
         IN  [i \in DOMAIN parts |->
                 [type |-> IF i < Len(parts) THEN "NOTIFY_FIRST" ELSE "NOTIFY_LAST",
                  data |-> parts[i]]]

-----------------------------------------------------------------------------
(* gg_image_reply(): where chunk i of an image ends.  The name takes its   *)
(* place in the first chunk, which is never empty; an image of size 0 is   *)
(* sent in no chunk at all.  Of a transfer that is broken off only a first *)
(* part is sent, and its packets are not marked as whole.                  *)
ChunkEnd(size, i) ==
    IF i = 0 THEN 0
    ELSE IF i * Room - NameSize <= size THEN i * Room - NameSize ELSE size

ChunkCount(size) == IF size = 0 THEN 0 ELSE (size + NameSize + Room - 1) \div Room

ImagePackets(image, whole) ==
    [i \in 1 .. ChunkCount(image.size) |->
        [type |-> "RECV_MSG", option |-> IF i = 1 THEN "IMAGE_FIRST" ELSE "IMAGE_MORE",
         image |-> image, whole |-> whole,
         data |-> [j \in 1 .. ChunkEnd(image.size, i) - ChunkEnd(image.size, i - 1) |->
                      ChunkEnd(image.size, i - 1) + j]]]

-----------------------------------------------------------------------------
(* Fault: the first recipient is left out instead of the addressee.        *)
OthersTail(recipients, i, stale) == Tail(recipients)

(* gg_send_message_confer_richtext(): the other recipients, as the packet  *)
(* to the i-th of them lists them: each goes to the place that counts      *)
(* those kept so far.  The length is that of a list without repetitions;   *)
(* stale is what the buffer holds behind the others.                       *)
Kept(recipients, i) == {j \in DOMAIN recipients : recipients[j] # recipients[i]}

Others(recipients, i, stale) ==
    [k \in 1 .. Len(recipients) - 1 |->
        IF k \in {Place(Kept(recipients, i), j) : j \in Kept(recipients, i)}
        THEN recipients[CHOOSE j \in Kept(recipients, i) : Place(Kept(recipients, i), j) = k]
        ELSE stale]

ConferPackets(sender, recipients, stale) ==
    [i \in DOMAIN recipients |->
        [type |-> "RECV_MSG", option |-> "CONFERENCE", sender |-> sender,
         recipients |-> Others(recipients, i, stale), group |-> recipients,
         to |-> recipients[i]]]

-----------------------------------------------------------------------------
(* A reply of the directory as the server writes it: the fields of each    *)
(* result, a separator in front of the second and the later ones, and one  *)
(* in front of the number of the next page, if there is one.               *)
Fields(results, n) ==
    [i \in DOMAIN results[n] |->
        [separated |-> n > 1 /\ i = 1, field |-> results[n][i][1], value |-> results[n][i][2]]]

Written(results) ==
    LET written[n \in 0 .. Len(results)] ==
            IF n = 0 THEN <<>> ELSE written[n - 1] \o Fields(results, n)
    IN  written

Items(results, next) ==
    Written(results)[Len(results)]
    \o (IF next = 0 THEN <<>>
        ELSE <<[separated |-> TRUE, field |-> "nextstart", value |-> next]>>)

(* gg_pubdir50_add_n(): a field that is there already gets the new value.  *)
AddEntry(entries, num, field, value) ==
    LET same == {i \in DOMAIN entries : entries[i].num = num /\ entries[i].field = field}
    IN  IF same = {}
        THEN Append(entries, [num |-> num, field |-> field, value |-> value])
        ELSE [i \in DOMAIN entries |->
                 IF i \in same THEN [entries[i] EXCEPT !.value = value] ELSE entries[i]]

(* Fault: the separator in front of "nextstart" counts as a result.        *)
ReadItemUndone(res, item) ==
    LET num == IF item.separated THEN res.num + 1 ELSE res.num
    IN  IF item.field = "nextstart"
        THEN [res EXCEPT !.num = num, !.next = item.value]
        ELSE [res EXCEPT !.num = num,
                         !.entries = AddEntry(@, num, item.field, item.value)]

(* One round of the loop of gg_pubdir50_handle_reply().                    *)
ReadItem(res, item) ==
    LET num == IF item.separated THEN res.num + 1 ELSE res.num
    IN  IF item.field = "nextstart"
        THEN [res EXCEPT !.num = num - 1, !.next = item.value]
        ELSE [res EXCEPT !.num = num,
                         !.entries = AddEntry(@, num, item.field, item.value)]

(* What has been read after each round.                                    *)
Reading(items) ==
    LET read[n \in 0 .. Len(items)] ==
            IF n = 0 THEN [num |-> 0, next |-> 0, entries |-> <<>>]
            ELSE ReadItem(read[n - 1], items[n])
    IN  read

(* The whole reply: without items there are no results, with some there    *)
(* is one more than separators were counted.                               *)
ReadReply(items) ==
    LET res == Reading(items)[Len(items)]
    IN  [count |-> IF items = <<>> THEN 0 ELSE res.num + 1,
         next |-> res.next, entries |-> res.entries]

(* gg_pubdir50_get(): the value of a field of result num, or NULL.         *)
GetField(reply, num, field) ==
    LET same == {i \in DOMAIN reply.entries :
                    reply.entries[i].num = num /\ reply.entries[i].field = field}
    IN  IF same = {} THEN "NULL"
        ELSE reply.entries[CHOOSE i \in same : \A j \in same : i <= j].value
=============================================================================
