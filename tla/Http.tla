-------------------------------- MODULE Http --------------------------------
(***************************************************************************)
(* One HTTP request: gg_http_connect() and the calls of gg_http_watch_fd() *)
(* it makes until the answer is read or an error has come up.  The socket  *)
(* blocks, so a read or a write ends with something done, with the end of  *)
(* the stream or with an error.  A unit of the body is its position; of    *)
(* the query and the header only the number of units matters.              *)
(***************************************************************************)
EXTENDS Integers, Sequences

CONSTANTS
    QuerySize,      \* units of a query
    HeaderSize,     \* units of the server's header, with the empty line
    BufSize,        \* the most one read() takes, 1024
    Word,           \* 2^32: the lengths are unsigned int
    Answers         \* what a server may answer: see AnswerSpace

ASSUME SizesAssumption == {QuerySize, HeaderSize, BufSize, Word} \subseteq Nat \ {0}

(* ok: the status is 200; length: the number of "Content-length", 0 if     *)
(* there is none; size: of the body; cut: how much of header and body      *)
(* arrives before the connection ends, by a reset or in order; sound: the  *)
(* body is what the client asks for and not a refusal.                     *)
AnswerSpace ==
    [ok : BOOLEAN, length : Int, size : Nat, cut : Nat, reset : BOOLEAN, sound : BOOLEAN]

(* atoi() returns an int.  A length of -1, for which malloc(0) is asked    *)
(* and its room written behind, is left out.                               *)
ASSUME AnswersAssumption ==
    /\ Answers \subseteq AnswerSpace
    /\ \A a \in Answers :
          a.cut <= HeaderSize + a.size /\ a.length \in (-Word .. Word - 1) \ {-1}

VARIABLES
    r,      \* the struct gg_http under way in gg_http_connect(), or NoRequest
    link,   \* its connection: the answer to come, query units sent, units read
    heap,   \* the memory allocated: pairs of a request and a part of it
    open,   \* the number of sockets open
    stray   \* how many of these gg_connect() kept to itself

httpVars == <<r, link, heap, open, stray>>

NoRequest == [state |-> "NONE"]
NoLink == [sent |-> 0, given |-> 0]
NULL == "NULL"

(* Memory is known by the request it was allocated for; free(NULL) frees   *)
(* nothing.                                                                *)
Fields(h) == {<<h.id, f>> : f \in {"query", "header", "body"}}

(* Fault: a request that failed keeps its header.                          *)
ReleasedKeptHeader(h) == {<<h.id, "struct">>, <<h.id, "query">>, <<h.id, "body">>}

(* gg_http_free(): what it frees; the socket is closed by gg_http_stop().  *)
Released(h) == Fields(h) \cup {<<h.id, "struct">>}

-----------------------------------------------------------------------------
(* gg_http_connect() up to its loop.  A host that is not found ends it at  *)
(* once; a failed gg_connect() is not noticed, because in                  *)
(* "!(h->fd = ...) == -1" the negation comes first (http.c:134).  Where    *)
(* bind() fails, gg_connect() returns -1 and leaves its socket open        *)
(* (common.c:244).                                                         *)
HttpHostUnknown == UNCHANGED httpVars

HttpBegins(id) ==
    \E answer \in Answers, outcome \in {"connected", "refused", "unbound"} :
        /\ r' = [id |-> id, state |-> "CONNECTING", fd |-> outcome = "connected",
                 query |-> QuerySize, header |-> 0, body |-> NULL, bodySize |-> 0,
                 error |-> NULL]
        /\ link' = [answer |-> answer, sent |-> 0, given |-> 0]
        /\ heap' = heap \cup {<<id, "struct">>, <<id, "query">>}
        /\ open' = IF outcome = "refused" THEN open ELSE open + 1
        /\ stray' = IF outcome = "unbound" THEN stray + 1 ELSE stray

(* Fault: the socket stays open.                                           *)
HttpErrorOpen(error) ==
    /\ r' = [r EXCEPT !.fd = FALSE, !.state = "ERROR", !.error = error]
    /\ UNCHANGED <<open, stray>>

(* Fault: the error is not noted.                                          *)
HttpErrorStays(error) ==
    /\ r' = [r EXCEPT !.fd = FALSE, !.error = error]
    /\ open' = IF r.fd THEN open - 1 ELSE open
    /\ UNCHANGED stray

(* gg_http_error(): close() is called for -1 as well, and does nothing.    *)
HttpError(error) ==
    /\ r' = [r EXCEPT !.fd = FALSE, !.state = "ERROR", !.error = error]
    /\ open' = IF r.fd THEN open - 1 ELSE open
    /\ UNCHANGED stray

(* What write() may return for n units, and read().                        *)
Written(n) == IF r.fd THEN -1 .. n ELSE {-1}

Arriving == IF link.sent = QuerySize THEN link.answer.cut ELSE 0

ReadResults ==
    IF ~r.fd THEN {-1}
    ELSE IF link.given = Arriving THEN {IF link.answer.reset THEN -1 ELSE 0}
    ELSE 1 .. (IF BufSize <= Arriving - link.given THEN BufSize ELSE Arriving - link.given)

(* Fault: -1 counts as a number of bytes.                                  *)
WatchSendingMinus ==
    \E res \in Written(r.query) :
        /\ r.state \in {"CONNECTING", "SENDING_QUERY"}
        /\ IF res = 0 THEN HttpError("WRITING") /\ UNCHANGED <<link, heap>>
           ELSE /\ IF res < r.query
                   THEN /\ r' = [r EXCEPT !.query = @ - res, !.state = "SENDING_QUERY"]
                        /\ UNCHANGED heap
                   ELSE /\ r' = [r EXCEPT !.query = 0, !.state = "READING_HEADER"]
                        /\ heap' = heap \ {<<r.id, "query">>}
                /\ link' = [link EXCEPT !.sent = IF res > 0 THEN @ + res ELSE @]
                /\ UNCHANGED <<open, stray>>

(* GG_STATE_CONNECTING goes on to GG_STATE_SENDING_QUERY.  The -1 of a     *)
(* failed write() is unsigned and not less than the length, so the query   *)
(* counts as sent; only 0 is an error (http.c:250).                        *)
WatchSending ==
    \E res \in Written(r.query) :
        /\ r.state \in {"CONNECTING", "SENDING_QUERY"}
        /\ IF res = 0 THEN HttpError("WRITING") /\ UNCHANGED <<link, heap>>
           ELSE /\ IF res # -1 /\ res < r.query
                   THEN /\ r' = [r EXCEPT !.query = @ - res, !.state = "SENDING_QUERY"]
                        /\ UNCHANGED heap
                   ELSE /\ r' = [r EXCEPT !.query = 0, !.state = "READING_HEADER"]
                        /\ heap' = heap \ {<<r.id, "query">>}
                /\ link' = [link EXCEPT !.sent = IF res > 0 THEN @ + res ELSE @]
                /\ UNCHANGED <<open, stray>>

(* The first n units of a body.                                            *)
UpTo(n) == [i \in 1 .. n |-> i]

(* The announced length as an unsigned int, if it is more than what is     *)
(* there: a negative one is more than any body fills.                      *)
Announced(left) ==
    LET said == link.answer.length % Word IN IF said < left THEN left ELSE said

(* GG_STATE_READING_HEADER.  Once the empty line is there, what is behind  *)
(* it is the beginning of the body; for a length below zero there may be   *)
(* no memory.                                                              *)
HeaderGoesOn(size) ==
    /\ size < HeaderSize
    /\ r' = [r EXCEPT !.header = size]
    /\ heap' = heap \cup {<<r.id, "header">>}
    /\ UNCHANGED <<open, stray>>

HeaderFails(size, error) ==
    /\ size >= HeaderSize
    /\ \/ ~link.answer.ok /\ error = "CONNECTING"
       \/ link.answer.ok /\ link.answer.length < 0 /\ error = "READING"
    /\ HttpError(error)
    /\ heap' = heap \ {<<r.id, "header">>}

HeaderEnds(size) ==
    /\ size >= HeaderSize /\ link.answer.ok
    /\ r' = [r EXCEPT !.header = size, !.state = "READING_DATA",
                      !.body = UpTo(size - HeaderSize), !.bodySize = Announced(size - HeaderSize)]
    /\ heap' = heap \cup {<<r.id, "header">>, <<r.id, "body">>}
    /\ UNCHANGED <<open, stray>>

HeaderHas(size) ==
    \/ HeaderGoesOn(size) \/ HeaderEnds(size)
    \/ \E error \in {"CONNECTING", "READING"} : HeaderFails(size, error)

WatchHeader ==
    \E res \in ReadResults :
        /\ r.state = "READING_HEADER"
        /\ link' = [link EXCEPT !.given = IF res > 0 THEN @ + res ELSE @]
        /\ IF res \in {-1, 0}
           THEN HttpError("READING") /\ heap' = heap \ {<<r.id, "header">>}
           ELSE HeaderHas(r.header + res)

(* Fault: the end of the stream is always the end of the body.             *)
EnoughAlways(h) == TRUE

Enough(h) == Len(h.body) >= h.bodySize

(* GG_STATE_READING_DATA.  The end of the stream is the end of the body,   *)
(* unless less has come than was announced; more than that makes room.     *)
WatchData ==
    \E res \in ReadResults :
        /\ r.state = "READING_DATA"
        /\ link' = [link EXCEPT !.given = IF res > 0 THEN @ + res ELSE @]
        /\ IF res > 0
           THEN /\ r' = [r EXCEPT !.body = @ \o [i \in 1 .. res |-> link.given - HeaderSize + i],
                                  !.bodySize = IF Len(r.body) + res > @ THEN Len(r.body) + res
                                               ELSE @]
                /\ UNCHANGED <<heap, open, stray>>
           ELSE IF res = 0 /\ Enough(r)
           THEN /\ r' = [r EXCEPT !.state = "PARSING", !.fd = FALSE]
                /\ open' = open - 1
                /\ UNCHANGED <<heap, stray>>
           ELSE HttpError("READING") /\ heap' = heap \ {<<r.id, "body">>}

HttpWatch == WatchSending \/ WatchHeader \/ WatchData

(* gg_http_connect() returns NULL for anything but GG_STATE_PARSING.       *)
HttpFails ==
    /\ r.state = "ERROR"
    /\ heap' = heap \ Released(r)
    /\ r' = NoRequest
    /\ link' = NoLink
    /\ UNCHANGED <<open, stray>>

HttpReady == r.state = "PARSING"
=============================================================================
