------------------------------- MODULE Pubdir -------------------------------
(***************************************************************************)
(* What is asked of the server over HTTP: gg_register3() and its kin, one  *)
(* request, and gg_token(), two, the second of which takes the place of    *)
(* the first in the structure the client holds.                            *)
(***************************************************************************)
EXTENDS Http

CONSTANTS
    MaxRetries      \* bound on how often the client asks again after a failure

ASSUME RetriesAssumption == MaxRetries \in Nat

VARIABLES
    pc,     \* who runs: see Pcs
    op,     \* the operation: [kind, async]
    h,      \* the struct gg_http the client holds, or NoRequest; its data are a
            \* sequence, of nothing for NULL, or else of the success or the token
    res,    \* what the client's last call of a watch function returned
    told,   \* which answers the requests got: by request
    retries \* how often the client asked again after a failure

vars == <<httpVars, pc, op, h, res, told, retries>>

(* "idle"; in the first or second gg_http_connect(); in a watch function;  *)
(* with the client; or over: NULL returned, or freed by the client.        *)
Pcs == {"idle", "first", "second", "watch", "client", "failed", "freed"}

Kinds == {"register", "unregister", "change_passwd", "remind_passwd", "token"}

NoData == <<>>

Init ==
    /\ r = NoRequest /\ link = NoLink /\ heap = {} /\ open = 0 /\ stray = 0
    /\ pc = "idle" /\ op = [kind |-> "register", async |-> FALSE]
    /\ h = NoRequest /\ res = 0 /\ told = <<>> /\ retries = 0

-----------------------------------------------------------------------------
(* Up to gg_http_connect(): what is sent differs, what is done does not.   *)
Begins(kind) ==
    /\ pc = "idle"
    /\ \E async \in BOOLEAN : op' = [kind |-> kind, async |-> async]
    /\ \/ HttpBegins(1) /\ pc' = "first"
       \/ HttpHostUnknown /\ pc' = "failed"
    /\ UNCHANGED <<h, res, told, retries>>

Register == Begins("register")
Unregister == Begins("unregister")
ChangePasswd == Begins("change_passwd")
RemindPasswd == Begins("remind_passwd")
Token == Begins("token")

Begin == Register \/ Unregister \/ ChangePasswd \/ RemindPasswd \/ Token

Connect ==
    /\ pc \in {"first", "second"}
    /\ HttpWatch
    /\ UNCHANGED <<pc, op, h, res, told, retries>>

FirstFails ==
    /\ pc = "first"
    /\ HttpFails
    /\ pc' = "failed"
    /\ UNCHANGED <<op, h, res, told, retries>>

(* The request is read, and a synchronous caller goes on at once.          *)
FirstReady ==
    /\ pc = "first"
    /\ HttpReady
    /\ h' = [state |-> "PARSING", id |-> 1, body |-> r.body, data |-> NoData]
    /\ told' = <<link.answer>>
    /\ pc' = IF op.async THEN "client" ELSE "watch"
    /\ r' = NoRequest /\ link' = NoLink
    /\ UNCHANGED <<op, heap, open, stray, res, retries>>

-----------------------------------------------------------------------------
(* A watch function returns; gg_token() of a synchronous client has called *)
(* it itself and returns the structure whatever it says (pubdir.c:509).    *)
Returns(result) ==
    /\ res' = IF op.async \/ retries > 0 THEN result ELSE res
    /\ pc' = "client"

(* gg_pubdir_watch_fd() in GG_STATE_PARSING: it succeeded if the server's  *)
(* word for that is found in the body.                                     *)
PubdirParses ==
    /\ pc = "watch" /\ op.kind # "token"
    /\ h' = [h EXCEPT !.state = "DONE",
                      !.data = <<told[1].sound /\ h.body # <<>>>>]
    /\ heap' = heap \cup {<<1, "data">>}
    /\ Returns(0)
    /\ UNCHANGED <<r, link, open, stray, op, told, retries>>

(* gg_token_watch_fd() in GG_STATE_PARSING with no data yet.  The five     *)
(* fields are there if the body is whole and sound; of a body that was cut *)
(* what there is may pass for five fields.  Where it fails, it leaves      *)
(* state and error as they are, against its comment (pubdir.c:524).        *)
Whole(body, answer) == Len(body) = answer.size

TokenFields == IF Whole(h.body, told[1]) THEN {told[1].sound} ELSE BOOLEAN

TokenRefuses ==
    /\ pc = "watch" /\ op.kind = "token" /\ h.data = NoData
    /\ FALSE \in TokenFields
    /\ Returns(-1)
    /\ UNCHANGED <<httpVars, op, h, told, retries>>

(* With its fields the image is asked for: the second request.             *)
TokenAsks ==
    /\ pc = "watch" /\ op.kind = "token" /\ h.data = NoData
    /\ TRUE \in TokenFields
    /\ \/ HttpBegins(2) /\ pc' = "second" /\ UNCHANGED res
       \/ HttpHostUnknown /\ Returns(-1)
    /\ UNCHANGED <<op, h, told, retries>>

SecondFails ==
    /\ pc = "second"
    /\ HttpFails
    /\ Returns(-1)
    /\ UNCHANGED <<op, h, told, retries>>

(* Fault: the first request is freed before it is overwritten, and with it *)
(* the structure the client holds.                                         *)
OverwrittenFreed == {<<1, "header">>, <<1, "body">>, <<1, "struct">>, <<2, "struct">>}

(* memcpy() writes the second request over the first, whose body and       *)
(* header nobody frees, and the second structure is freed.                 *)
Overwritten == {<<2, "struct">>}

SecondReady ==
    /\ pc = "second"
    /\ HttpReady
    /\ h' = [state |-> "PARSING", id |-> 2, body |-> r.body,
             data |-> <<h.body>>]
    /\ told' = Append(told, link.answer)
    /\ heap' = (heap \ Overwritten) \cup {<<2, "data">>, <<2, "tokenid">>}
    /\ r' = NoRequest /\ link' = NoLink
    /\ IF op.async THEN Returns(0) ELSE pc' = "watch" /\ UNCHANGED res
    /\ UNCHANGED <<open, stray, op, retries>>

(* Fault: the body that is there is taken for the image.                   *)
HasDataAlways == TRUE

(* With data, it is the image that has come.                               *)
HasData == h.data # NoData

TokenDone ==
    /\ pc = "watch" /\ op.kind = "token" /\ HasData
    /\ h' = [h EXCEPT !.state = "DONE"]
    /\ Returns(0)
    /\ UNCHANGED <<httpVars, op, told, retries>>

-----------------------------------------------------------------------------
(* The client calls the watch function while the operation is not over,    *)
(* even after a failure, and frees the structure when it likes.  To the    *)
(* synchronous client an operation that is not over is one that failed.    *)
Failed == res = -1 \/ ~op.async

ClientWatches ==
    /\ pc = "client" /\ h.state = "PARSING"
    /\ Failed => retries < MaxRetries
    /\ pc' = "watch"
    /\ retries' = IF Failed THEN retries + 1 ELSE retries
    /\ UNCHANGED <<httpVars, op, h, res, told>>

(* gg_pubdir_free() and gg_token_free(): the data, what is in it, and the  *)
(* structure, which is the first one's even with the second one's fields.  *)
ClientFrees ==
    /\ pc = "client"
    /\ heap' = heap \ (Fields(h) \cup {<<1, "struct">>, <<h.id, "data">>, <<h.id, "tokenid">>})
    /\ pc' = "freed"
    /\ h' = NoRequest
    /\ UNCHANGED <<r, link, open, stray, op, res, told, retries>>

Library ==
    \/ Begin \/ Connect \/ FirstFails \/ FirstReady \/ PubdirParses
    \/ TokenRefuses \/ TokenAsks \/ SecondFails \/ SecondReady \/ TokenDone

Next == Library \/ ClientWatches \/ ClientFrees

Spec == Init /\ [][Next]_vars

(* The library runs, and a client that was told nothing yet asks again.    *)
FairSpec == Spec /\ WF_vars(Library) /\ WF_vars(ClientWatches)

-----------------------------------------------------------------------------
(* The variables keep their types: the count of open sockets among them,   *)
(* of which one at most is in use, and memory is that of two requests.     *)
TypeOK ==
    /\ pc \in Pcs /\ res \in {0, -1} /\ stray \in Nat /\ open - stray \in {0, 1}
    /\ heap \subseteq {1, 2} \X {"struct", "query", "header", "body", "data", "tokenid"}
    /\ r # NoRequest => r.query \in 0 .. QuerySize /\ r.header \in Nat
    /\ retries \in 0 .. MaxRetries

(* A body that is handed on is what the server sent, in order, and all of  *)
(* it if the server said how long it is (http.c:400, http.c:351).          *)
BodyWhole ==
    HttpReady =>
        /\ r.body = UpTo(Len(r.body))
        /\ link.sent = QuerySize /\ link.answer.ok
        /\ Len(r.body) >= link.answer.length
        /\ Len(r.body) + HeaderSize = link.answer.cut

(* No socket a request had outlives gg_http_connect(): neither where it    *)
(* returns a structure, nor where one of its ways to fail was taken, nor   *)
(* when a descriptor was never had (http.c:134, http.c:160).  What is      *)
(* still open are the sockets of failed bind() calls, one for each, which  *)
(* gg_connect() tells nobody of and nobody closes (common.c:244).          *)
SocketsClosed == pc \notin {"first", "second"} => open = stray

(* When the client has freed what it got, or got NULL, all memory is free  *)
(* again, however many requests failed before; the one exception is the    *)
(* body and header of a token's first request once the second has written  *)
(* over them (pubdir.c:627).                                               *)
MemoryAccounted ==
    pc \in {"freed", "failed"} =>
        heap = IF Len(told) = 2 THEN {<<1, "body">>, <<1, "header">>} ELSE {}

(* An operation is done with what the server sent for it: a success the    *)
(* server spoke of, or a token's identifier from the first answer and its  *)
(* image from the second, each whole if its length was known               *)
(* (pubdir.c:554, pubdir.c:451).                                           *)
DoneIsReal ==
    h.state = "DONE" =>
        IF op.kind # "token" THEN h.data[1] => told[1].sound
        ELSE /\ Len(told) = 2
             /\ Len(h.data[1]) >= told[1].length /\ Len(h.body) >= told[2].length
             /\ Whole(h.data[1], told[1]) => told[1].sound

(* Every operation comes to an end, failures nobody noticed included       *)
(* (http.c:134, http.c:250): NULL is returned or it is done.  The one      *)
(* exception is a token that the first answer does not give or whose image *)
(* cannot be had: the structure stays in GG_STATE_PARSING, where the       *)
(* comment promises GG_STATE_ERROR (pubdir.c:524), as often as the client  *)
(* asks again.                                                             *)
TokenStays ==
    /\ pc = "client" /\ op.kind = "token" /\ Failed /\ retries = MaxRetries
    /\ h.state = "PARSING" /\ h.data = NoData

OperationEnds == <>(pc \in {"failed", "freed"} \/ h.state = "DONE" \/ TokenStays)
=============================================================================
