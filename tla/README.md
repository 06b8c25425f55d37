# libgadu in TLA+

libgadu is the client library of the Gadu-Gadu instant messenger; this tree is
its Win32 fork (`src/readme.txt`).  The modules here model its state machines
as the C code writes them, check them with TLC on small instances, and prove
the most important properties with TLAPS for every instance.

References of the form `events.c:1012` are to files under `src/`.

The fork disclaims part of what is modelled: `readme.txt:37` says that direct
connections will most probably not work on Win32 and that asynchronous
connections must not be used there, and `compat.h:31` that `gg_resolve` is
switched off.  The code for both is there and is what the models follow; what
they say of asynchronous sessions and of DCC is said of that code, wherever it
is compiled, and not of a use that the fork supports.

## 1. The system

### Components, state and operations

| component | files | state | operations |
|---|---|---|---|
| session life cycle | `libgadu.c`, `events.c`, `libgadu.h` | `struct gg_session`: state, check, fd, password, status, server/hub/proxy addresses, port | `gg_login`, `gg_watch_fd`, `gg_change_status*`, `gg_logoff`, `gg_free_session` |
| packet framing | `libgadu.c` | `header_buf`, `header_done`, `recv_buf`, `recv_left`, `recv_done` | `gg_read`, `gg_write`, `gg_recv_packet`, `gg_send_packet` |
| packet handlers | `events.c` | the event under construction | `gg_watch_fd_connected`, `gg_handle_recv_msg`, `gg_event_free` |
| user list | `libgadu.c`, `events.c` | `userlist_blocks`, `userlist_reply` | `gg_userlist_request`, the reply handler |
| image queue | `libgadu.c`, `events.c` | `images` | `gg_image_request`, `gg_image_reply`, `gg_image_queue_parse` |
| contacts, messages | `libgadu.c` | `seq` | `gg_notify*`, `gg_send_message*`, `gg_ping` |
| direct connections | `dcc.c` | `struct gg_dcc` of each peer | `gg_dcc_*`, `gg_dcc_watch_fd` |
| HTTP client | `http.c` | `struct gg_http` | `gg_http_connect`, `gg_http_watch_fd`, `gg_http_stop`, `gg_http_free` |
| directory over HTTP, tokens | `pubdir.c` | `struct gg_http`, `data` | `gg_register3` and its kin, `gg_pubdir_watch_fd`, `gg_token*` |
| directory over the session | `pubdir50.c` | a list of fields | `gg_pubdir50*` |
| sockets and threads | `common.c` | `gg_threads`, `gg_thread_socket_cs` | `gg_connect`, `gg_thread_socket` |
| resolver | `libgadu.c` | pipe, thread, its argument | `gg_resolve`, `gg_resolve_pthread` |
| helpers | `common.c` | none | formatting, encoding, hashes |
| obsolete search | `obsolete.c` | none | stubs that return an error |
| Windows layer | `libgadu_dll.cpp`, `compat.h`, `w32compat/` | none | name and error code mapping |

### How they interact

* The **client** calls the library and is told nothing unasked: `gg_watch_fd`
  returns one `struct gg_event` a call.  An asynchronous client watches
  `sess->fd` for what `sess->check` names and calls `gg_watch_fd` then; a
  synchronous `gg_login` makes these calls in a loop of its own
  (`libgadu.c:886`).
* The **session** resolves a name (through a pipe another process or thread
  writes), asks the **hub** over HTTP for a server, connects to that, perhaps
  through a **proxy**, perhaps negotiates TLS, reads a key, answers with the
  hash of the password, and is connected or refused.
* A connected session takes **packets** out of the byte stream one a call;
  their handlers share state with the requests that caused them (the user
  list's block counter, the queue of images).
* **DCC** peers, **HTTP** requests and tokens have state machines of the same
  style in structures of their own.
* `gg_connect` registers each socket with the calling **thread**, so that
  another thread can cancel it by closing the socket.

### What is hard, and what makes each part correct

| component | hard behaviour | correctness |
|---|---|---|
| session | five settings make 96 logins, each step may fail, a synchronous login loops over the same steps | no descriptor leaked or used after close; TLS before the password hash; the proxy's answer consumed first; the right endpoint; one verdict to the caller; every login ends |
| framing | reads of any length, resumption, TLS records | packets whole, in order, once each; buffers owned by exactly one party; a packet that has arrived is returned |
| user list | overlapping requests, parts, one counter | a reply ends the request it belongs to |
| images | overlapping transfers of one image | the image delivered is the one sent |
| DCC | two machines that must agree, chunks, resuming, short writes | the file received is the file sent; both sides end |
| HTTP, tokens | partial reads and writes, a structure reused for a second request | a result or an error, never neither |
| threads | cancelling while the owner closes | each socket closed once, by its owner or its canceller |
| resolver | cancellation at any step | no pipe end or buffer leaked |

The full list of hazards, each at its line, is under `hazards` in
`PROJECT.json`.

## 2. The plan

In order of importance; in brackets the TLC runs.

1. `GGSession`, `LoginContract`, `GGSession_proofs`: the session [1 passing, 3 that contradict a comment].  Done.
2. `RecvPacket`, `RecvPacket_proofs`: packet framing [1 passing, 2 that
   contradict a comment].  Done.
3. `Dcc`, `FileContract`, `Dcc_proofs`, `Dcc_stream_proofs`,
   `Dcc_file_proofs`: caller and callee of a direct connection, composed over
   two byte streams, and what the two clients of a file are promised [1
   passing].  Done.
4. `Requests`, `Connected`, `Connected_proofs`: the packet handlers of a connected session with the
   requests they answer, the server and the peers [1 passing, 1 that
   contradicts a comment].  Done.
5. `Http`, `Pubdir`, `Pubdir_proofs`: the request machine, and what is asked
   with it [1 passing].  Done.
6. `ThreadSockets`, `ThreadSockets_proofs`: the table of sockets with several
   threads [1 passing].  Done.

Left: failures of `malloc`.

## 3. The modules

### GGSession

One call of the library is one action: the calls run to completion in the
thread that makes them, and only the far end of the socket moves between them.

| in the model | in the code |
|---|---|
| `p` | the fields of `gg_login_params` and the `gg_proxy_*` globals that steer control |
| `state`, `check`, `fd`, `password`, `status` | the fields of the session; `password` says only whether it is allocated |
| `route` | `server_addr`, `hub_addr`, `proxy_addr`, `proxy_port`, `port` |
| `result` | what the last call returned or reported; a `CONN_FAILED` event is named by its failure code |
| `open`, `stray` | the process's descriptors, and those no variable holds any more |
| `link` | the connection behind `fd`: where it goes, whether a tunnel was asked for and is up, whether it is secure, what a read would find, what the far end was told |
| `LoginSync`, `LoginResolving`, `LoginDirect`, `LoginHostUnknown` | the ways through `gg_login` |
| `Watch...` | the cases of `gg_watch_fd`, with everything they do up to their `break` |
| `ChangeStatus`, `Logoff`, `FreeSession` | the functions of these names |
| `Answers`, `ServerWrites`, `HangsUp` | the far end |

A synchronous login is `LoginSync` and then the same `Watch...` actions under
phase `"sync"`; `Report` does what its loop does with the event.  An address is
the role it has (`hub`, `proxy`, `given` by the caller, `assigned` by the hub,
`zero`); whether a host can be reached is a nondeterministic outcome of
`Connect`, except that nothing can be reached at address zero, or at `nowhere`:
that is `INADDR_NONE`, which a hub's answer 200 without a proper address makes
the session dial (`events.c:1050`).
`gg_connect` may fail in `bind()`, which leaves its socket open: that is
`stray`.  `gg_send_packet` may report success for a packet that was lost
(`SendOutcomes`), because of the comparison at `libgadu.c:690`.  A lost packet
does not end the connection: the far end answers no packet it has not had, and
the reads that follow find nothing or, if the link broke, its end
(`InboundAfter`).  A login whose packet is lost that way waits for its reply
until somebody hangs up, which `LoginSettles` names as its exception.  So does
the status in `sess->status` differ from the one the server knows after a
change that was lost (`libgadu.c:1022`): nothing in the code would tell either
side, and no property claims that they agree.

Actions whose comment begins with *Fault* are variants of an action with a
plausible bug; no specification uses them.  They show that each property is
able to fail.

### LoginContract

What a session promises its caller, with three variables: the life of the
session, what the last call told, and whether a password is held.  `GGSession`
implements it under the mapping `Life`, `Told`, `password` (`KeepsContract`).

### RecvPacket

One call of `gg_read` is one step, because data may arrive between two of them.
A byte is its position in the stream: a buffer that holds positions 3, 4, 5
holds the right bytes in the right order, and nothing else has to be said about
their values.  A stream is the sequence of the positions at which its packets
end.  `header` is `h` in `gg_recv_packet`, `headerBuf` and `header_done` are
one variable (the sequence and its length), `buf` is the packet being filled,
which `owner` says who is to free.  `EINTR` makes the loop call `gg_read` again
and changes nothing, so it is no step.  `EAGAIN` is what a read finds when
there is nothing to read; the same moment may be found to be the end of the
stream (if it is) or an error.  Over TLS, `SSL_read` takes a whole record from
the socket (`taken`) and returns part of it (`given`).

### Dcc

Both ends of one connection, each a `struct gg_dcc` (`h`), with the stream to
each (`wire`).  One call of `gg_dcc_watch_fd` is one action, `Watch...` named
after its state; `Writes` and `Reads` are the macros `gg_write` and `gg_read`,
which take everything short for an error (`HandshakeFails`).  The client's part
is in `FillFileInfo`, `AnswerFile`, `SetVoice`, `VoiceSend` and `FreeDcc`.

| in the model | in the code |
|---|---|
| `type`, `state`, `check`, `size`, `offset`, `chunkSize`, `chunkOffset` | the fields of these names |
| `fileFd` | `file_fd` is a descriptor |
| `buf` | `chunk_buf` and `voice_buf`, which are never in use together |
| `verdict` | the event that says it is over: `DONE`, or a `GG_ERROR_DCC_*` |
| `file` | the length of the file for `stat()` and for `read()`, which need not agree |
| `Prepared` | `file_fd` is there, or `gg_dcc_watch_fd` asks for the file instead (`dcc.c:1013`) |
| `got`, `said`, `heard` | what was written to the receiver's file, and the frames of voice spoken and given to the client |
| `said[c][k]`, `heard[c][k]` | the length of the k-th frame spoken, and what was given of it: its number, once for each unit |
| `cut` | a short `write()` of data was taken for a whole one (`dcc.c:1150`), or was reported and the connection kept (`dcc.c:491`) |

A unit of file data is its position in the file, so that a hole or a repetition
shows; a packet of the handshake is one item of the stream, because either all
of it is read or the connection has failed.  The header of a chunk is two
items, because it is the one packet that is resumed.  The accepting socket does
not block and may write less than asked, the dialling one blocks
(`common.c:229` turns the asynchronous mode off).

Two things are asked of the clients, since the code does not look after them: a
client that was offered a file has opened one for it before it calls again
(`Answered`; `dcc.c:750` acknowledges without looking at `file_fd`), and one
that speaks does so in a conversation that is set up (`Talks`;
`gg_dcc_voice_send` looks only at the type).  Lengths of files and offsets are
below 2^31, half of `Word`: `stat()` and `lseek()` count in signed numbers, and
`dcc.c:1141` puts the difference of two of them into an `int`.

What the model shows besides its properties: when there is nothing left to send
(the receiver resumes at the very end), the receiver is told `DONE` and the
sender `GG_ERROR_DCC_EOF` (`dcc.c:1128`); when the sender leaves while
the receiver waits for a header, `read()` returns 0 for ever and only the
client's timeout ends it (`dcc.c:790`); after a short write the sender goes on
as if it had been a whole one, and may be told `DONE` (`dcc.c:1150`).  No
comment promises anything else, so they are named as exceptions in the
properties: `resume # file.stat`, `Spins`, `cut`.

### FileContract

What a direct connection promises the two clients of a file, without handshake,
packets, chunks and buffers.  A file is offered with a length, an offset is
agreed on, and from then on part of the file is handed over (`HandOver`) and
part of what was handed over is written behind what is there (`Receive`); each
side is told `DONE` in the very step in which nothing is missing any more, or
when there is nothing left (`NothingLeft`).  `Dcc` implements it under this
mapping (`KeepsContract`):

| in `FileContract` | in `Dcc` |
|---|---|
| `phase` | `Phase`: which side has its file open |
| `source`, `start`, `copy`, `torn` | `file.stat`, `resume`, `got`, `cut` |
| `sent` | `HandedOver`: the offset of the side that sends |
| `told` | `Told`: the types of the clients whose `verdict` is `DONE` |

A short `write()` that counts as a whole one is `Lose`: from there on only what
is written already is certain.  The file that has grown or shrunk after `stat()`
needs no exception: a receiver is told `DONE` with the announced length, or the
connection fails.

### Requests, Connected

A session in `GG_STATE_CONNECTED`, composed with the server and the peers.  One
call of the library is one action, and so is each answer of the far end; what
is under way from one sender arrives in order, from several in any order.
`Requests` has the pure part: what packets a request is cut into, and what is
read out of a reply of the directory.

| in the model | in the code |
|---|---|
| `userlistBlocks`, `userlistReply`, `images`, `errno` | the fields of the session and `errno` |
| `UserlistPackets`, `NotifyPackets`, `ImagePackets`, `ConferPackets` | the loops of `gg_userlist_request`, `gg_notify_ex`, `gg_image_reply`, `gg_send_message_confer_richtext` |
| `UserlistPut`, `UserlistGet`, `ImageRequest`, `Notify`, `AddOrRemoveNotify`, `Pubdir50` | the calls |
| `Watch`: `TakeUserlistReply`, `TakeImage`, `TakeUnnamed`, `TakeMessage`, `TakePubdir50Reply`, `TakeNotifyReply`, `TakeNotice` | `gg_watch_fd` and the cases of `gg_watch_fd_connected` |
| `ServerTakes`, `PeerAnswers`, `Unasked` | the far end; a peer answers with `gg_image_reply`, or breaks off, begins anew or has no such image |
| `asked` | what the client knows of its own requests |

A call in several packets may lose any of them (`Fates`): one that is told of it
stops there and returns -1, but one that is not (`libgadu.c:690`) goes on, and
so may the connection.  `link` is then `"lossy"`, or `"broken"` if nothing
comes through any more.  What is claimed of the server's knowledge
(`ContactsKnown`) is claimed while nothing was lost; what the client is told
(`ExportDone`, `ImageIntact`, `ImportWhole`, `ResultsIntact`) must be right
all the same.  A first image block whose file name has no end
(`events.c:204`) begins the queue entry anew and keeps nothing of the block
(`TakeUnnamed`); the transfer is taken to be broken off there.

What the model shows besides its properties: of two overlapping user list
requests one is reported done before all its replies are there (the comment at
`events.c:741` has a single request in mind), and the counter may end below
zero, after which no export is reported (`asked.overlap`); a search reply that
ends in the middle of a field is silently passed over when `errno` was left at
`EAGAIN` (`asked.hidden`); a peer's empty
image reply leaves its queue entry behind; a first block on top of a broken
transfer leaks the file name, and only such a block does (`asked.leaked`; that a
packet belongs to a transfer that is sent to its end is noted in the packet, and
then in the entry, as `whole`); and a recipient named twice in a
conference is left out by its number and counted by its place
(`libgadu.c:1498`, `1506`), so that the end of the list is not written and goes
out as it was in memory (`stale` in `Others`).

### Http, Pubdir

`Http` is one request: `gg_http_connect`, whose loop calls `gg_http_watch_fd`
until the answer is there or an error.  `Pubdir` is the client's side, with the
token's second request.  Each call of `gg_http_watch_fd` is a step.  The server
is one of `Answers`, chosen when the connection is opened: its status, what
it says of its length, how much it sends before it breaks off and how.

| in the model | in the code |
|---|---|
| `r` | the `struct gg_http` while `gg_http_connect` works on it; `query` and `header` by their lengths, `body` by positions |
| `h`, `h.data` | the structure the client holds, with `h->data` |
| `heap` | what is allocated, as pairs of the request it was for and the part |
| `open`, `stray` | sockets open, and how many of these `gg_connect` kept to itself |
| `HttpBegins` | the end of `gg_http_connect` before its loop: connected, refused, or failed in `bind()` |
| `WatchSending`, `WatchHeader` with `HeaderHas`, `WatchData`, `HttpError` | the states of `gg_http_watch_fd` and its macro |
| `Register` ... `Token`, `PubdirParses`, `TokenRefuses`, `TokenAsks`, `SecondReady`, `TokenDone`, `ClientFrees` | `pubdir.c` |

An asynchronous request does not differ from a synchronous one but in who calls
the watch function next, because the asynchronous part of `gg_http_connect` is
commented out (`http.c:103`).  A length the server announces may be negative:
`atoi` puts it into the unsigned `body_size` (`http.c:344`), where it is more
than any body fills, or more than there is memory for.  -1 is left out: the
body then has a buffer of `malloc(0)`, and what follows is undefined.
What the model shows besides: a failed
`gg_connect` is not noticed (`http.c:134`), and where its `bind()` failed the
socket stays open with nobody knowing it (`common.c:244`), one more each time;
`TypeOK` bounds those in use, and `SocketsClosed` says that nothing else
outlives `gg_http_connect`.  A failed `write` counts as the
whole query sent (`http.c:250`); both come to light at the next `read`.  The
header and body of a token's first request are lost when the second is copied
over it (`pubdir.c:627`).  A token that cannot be read leaves the state at
`GG_STATE_PARSING`, though the comment at `pubdir.c:521` speaks of
`GG_STATE_ERROR` and an error code (`h->error` is not set either), and a client
that asks again asks the server again.  An asynchronous client is told by the
-1 of `gg_token_watch_fd`; the synchronous `gg_token` discards it
(`pubdir.c:509`), and what it returns has to be looked at.  `OperationEnds` names
this as its exception, `TokenStays`: such a token is neither done nor over,
however often its client asks.  The call at `pubdir.c:649`, whose result is discarded as
well, comes back with the answer complete, so that it can only end in
`GG_STATE_DONE`.

### ThreadSockets

The table of `gg_thread_socket`, for threads that connect, close, ask and
cancel.  The lock is taken step by step (test, allocation, initialisation,
entry) since it is created by whoever comes first, and the search and what is
done with its result are two steps.

| in the model | in the code |
|---|---|
| `table` | the list `gg_threads`, as a set of entries |
| `cs`, `made`, `held` | `gg_thread_socket_cs`, how many sections were made, who is in which |
| `found`, `seen` | `wsk` and `p_wsk` after `gg_thread_find` |
| `openedBy`, `mine`, `last` | the sockets of the process, what a thread believes it has, and what it made last |
| `raced`, `reused` | two things that must not happen |
| `Connect`, `Close`, `Cancel`, `Ask` | `gg_connect`, the macro `close`, `gg_thread_socket(t, -1)`, `gg_thread_socket(t, 0)` |

The two properties hold until one of two things happens, and these are what
the model shows to be wrong with the code: `raced`, a thread takes the lock
while another one creates it (`common.c:544`), and `reused`, a number is given
out again that a thread whose connection was cancelled still has and will close
(`common.c:597`).

## 4. What TLC checks

| run | specification | states | shows |
|---|---|---|---|
| `session` | `FairSpec` | 85 256 | eight invariants, `KeepsContract`, `LoginSettles` |
| `send_failure` | `Spec` | | violates `SendFailureReported` |
| `hub_fallback` | `Spec` | | violates `FallbackReachesHub` |
| `proxy_login` | `Spec` | | violates `DirectConnection` |
| `recv` | `FairSpec` | 2 428 | three invariants, `PacketsDelivered` |
| `recv_tls` | `FairSpec` | | violates `PacketsDelivered` |
| `free_packet` | `Spec` | | violates `FreeReleasesPacket` |
| `dcc` | `FairSpec` | 42 335 | five invariants, `KeepsContract`, `TransferEnds` |
| `connected` | `FairSpec` | 306 911 | eight invariants, `RequestsAnswered` |
| `search_number` | `Spec` | | violates `SearchNumberReturned` |
| `http` | `FairSpec` | 456 069 | five invariants, `OperationEnds` |
| `threads` | `Spec` | 893 198 | `TableSound`, `OnlyItsOwn` |

Every property of a passing run has a mutant in `PROJECT.json`: a definition of
the model replaced by one of its fault variants, under which TLC finds the
property violated.

### Bounds

* `Params` is all of `ParamSpace`: every combination of the settings that
  steer control, 96 of them.
* `Fds` has three descriptors.  A call opens at most two sockets
  (`ConnectOrHttps`) while the one before is closed, so three are enough for
  both to be lost by `bind()` and another to be in use.  When no descriptor is
  left, only failures remain, as in a process at its limit.  The theorems hold
  for every set.
* `HeaderSize` is 2 where the code has 8, and `Limit` is 2 where it has 65535:
  a header can be split once, a body has no, one or two bytes, and length 3 is
  too long.  `MCStreams` has streams of up to three packets with each of these
  in each place, before and after an empty packet.

* `Dcc`: `MinFrame` is 1 where the code has 16.  `MaxChunk` is 4 and `BufSize` 2, so that a chunk takes
  two reads; files of 0, 3, 5 and 9 units have no chunk, a short one, one and a
  rest, two and a rest.  `Word` is 32 where it is 2^32 in the code: enough that a difference below zero wraps to more than a
  chunk.  Two files change between `stat()` and `read()`.  `Resumes` is before,
  at and behind the end of the short ones.  Two frames of voice, too short,
  short and longest, are enough for the second to find what the first left.
  `Garbage` is what a number may be when data are read for it, after a cut.

* `Connected`: two calls and one packet nobody asked for, which is enough for
  two requests of one kind to overlap and for one to come between the parts of
  another.  `ListBlock` and `NotifyBlock` are 2 (2047 and 400 in the code), and
  the lists are empty, one block, and a block and a rest.  `Room` and `NameSize`
  make an image of 5 units take three packets and one of 2 a single one.
* `Http`: queries and headers of two units and reads of two, so that each may
  come in parts and a read may hold the end of the header with the beginning of
  the body.  Bodies of none and three units are announced as -2, 0, 1, 3 and 4 and
  cut at every place.  `Word` is 16, so that -2 is 14, more than any of them.  `MaxRetries` is how often a client asks again after a
  failure.
* `ThreadSockets`: three threads, so that two may meet inside while a third is
  cancelled, and two numbers, so that numbers come back.  The run stops at the
  first `raced` or `reused` (`MCUndisturbed`): both last, and nothing is claimed
  behind them.

### Fairness

`GGSession`: weak fairness of `Watch` and of `Answers`.  The loop of a
synchronous `gg_login` always goes on, and the comment of `gg_watch_fd`
(`events.c:793`) obliges an asynchronous client to call it when the descriptor
is ready; `Polled` makes that depend on `sess->check`, so a wrong `check` shows
up as a login that never ends.  `Answers` says that the far end sends what it
owes; it may hang up instead.  Nobody has to log off or free a session.

`RecvPacket`: weak fairness of the steps of a call that has begun, and of a call being
made while `select()` would report something.  It is not assumed that the
client calls without a reason.

`Dcc`: weak fairness of each side's `gg_dcc_watch_fd` (which `Polled` lets run
only when the socket is ready for `check`), of the listening socket's, of the
client's answers to `NEED_FILE_INFO` and `NEED_FILE_ACK`, and of freeing a
connection that is over.  A client may free a connection at any time, as its
timeouts tell it to, but need not.

`Connected`: weak fairness of the far end and of `gg_watch_fd` together: as long
as something is under way, some of it arrives.  Which of them moves is left
open, and no call of the client is fair.

`Pubdir`: weak fairness of the library, which works in the client's call, and
of a client that calls the watch function while the operation is not over, as
its comment asks (`pubdir.c:401`).  The server's part is in the result of
`read`: a connection that never ends would keep `gg_http_connect` waiting.

### Disagreements between code and comments

1. `send_failure`: `gg_send_packet` reports a failed write as success
   (`libgadu.c:690`), against its comment at `libgadu.c:628`.
2. `hub_fallback`: with `gg_proxy_http_only` and no server given, the fallback
   connects to address 0 (`events.c:1027`) where the comment says port 8074 of
   the hub (`events.c:1030`).  `EndpointKnown` checks all other settings.
3. `proxy_login`: with `gg_proxy_http_only` and a given server, an asynchronous
   session reads the server's key from the HTTP proxy (`events.c:1190`), where
   the comment speaks of a direct connection (`events.c:888`).  The other
   properties exclude this case by name (`LeftAtProxy`).
4. `recv_tls`: the second packet of a TLS record is not delivered before
   something else arrives (`libgadu.c:385`, comment `events.c:793`).
5. `free_packet`: `gg_free_session` leaks a half-read packet (`libgadu.c:963`,
   comment `libgadu.c:943`).
6. `search_number`: `gg_pubdir50` returns the time (`pubdir50.c:224`), whatever
   number `gg_pubdir50_seq_set` gave the search; its comment says it returns the
   number of the search (`pubdir50.c:186`).

## 5. What is proved

`GGSession_proofs`, checked by TLAPS without anything taken on trust, for all
`Params`, `Fds` and `NoFd` with `ParamsAssumption` (the parameters are of
`ParamSpace`) and `FdsAssumption` (`NoFd` is no descriptor):

| theorem | states |
|---|---|
| `TypeCorrect` | `Spec => []TypeOK` |
| `DescriptorsOwned` | `Spec => []FdOwnership` |
| `PasswordUnderTls` | `Spec => []TlsBeforeLogin` |
| `ProxyAnswerConsumed` | `Spec => []ProxyAnswerFirst` |
| `PasswordKept` | `Spec => []PasswordLifetime` |
| `ContractKept` | `Spec => Contract!CSpec` |

Two inductive invariants carry them.  `FdInv` adds to `FdOwnership` that an idle
session has no descriptors at all, which `gg_login` relies on when it opens its
first.  `LoginInv` joins the three properties of the login, none of which is
inductive: it adds where a proxy's address is known (`ProxyKnown`), that with
TLS a session that reads the key and has consumed the proxy's answer is secure
(`KeySecure`), that before the key nothing was sent (`NoLoginYet`) and after
it something was (`LoginSent`), and where a tunnel cannot have been asked for
(`NoTunnelYet`).  There is one lemma per action, and the
temporal steps are at the end.

Where a session is connected to, in the second half of the module and under the
same assumptions:

| theorem | states |
|---|---|
| `TalksToServer` | `Spec => []SpeaksToServer` |
| `PortKept` | `Spec => []PortRecorded` |
| `AddressesKnown` | `Spec => []EndpointKnown` |

`RouteInv` follows an address from where it is learnt to where it is dialled:
`ServerKnown`, `HubKnown` and `ProxyAsked` say what is known of the server, the
hub and the proxy in each state, `ResolvingFirst` that nothing has been changed
when the resolver's answer is read, and `BareToServer` that a session which
speaks without a tunnel, or is about to, has dialled the server at the port it
recorded.  Most steps leave all of it alone (`StaysOnRoute`); those that
connect anew go through `ArriveOnRoute`.

`RecvPacket_proofs`, in the same way, for every header size, packet limit, set
of streams and bound on errors and idle calls, with `SizesAssumption`,
`StreamsAssumption` and `TlsAssumption`:

| theorem | states |
|---|---|
| `TypeCorrect` | `Spec => []TypeOK` |
| `PacketsIntact` | `Spec => []Intact` |
| `BufferKept` | `Spec => []BufferOwned` |

The inductive invariant `RecvInv` joins `TypeOK` and `Intact` with what the
reader holds at each point: between two calls either a part of a header
(`WaitsForHeader`) or a part of a body (`WaitsForBody`), within a call
`ReadsHeader` or `ReadsBody`.  Each says that the bytes held are those from the
start of the packet being read (`Start`, the end of the last one delivered) up
to `given`, and that the lengths in the code's fields agree with it.
`StreamsAssumption` says of each packet that it ends behind its own header; that
it ends behind those of all its predecessors too is `EndsGrow`, by the first
packet of which that were wrong.

`ThreadSockets_proofs`, for every set of threads and of socket numbers, with
`ThreadsAssumption` and `HandlesAssumption` (both are positive numbers, since 0
and -1 mean something else to `gg_thread_socket`):

| theorem | states |
|---|---|
| `TypeCorrect` | `Spec => []TypeOK` |
| `OneInside` | `Spec => []MutualExclusion` |
| `TableIsSound` | `Spec => []TableSound` |
| `ClosesOnlyItsOwn` | `Spec => OnlyItsOwn` |

The invariant has two parts.  `LockInv` says where the others may be while one
thread creates the section, uses it or waits for it.  `TableInv` relates the
table to what was recorded last (`EntriesRight`) and each call under way to the
table (`CallRight`): a thread that is about to record a socket has it open, and
it is in no entry; one that is about to close a number had it; and what a
thread has found is still there when it acts, because it is alone inside.  It
is not enough that the table is right between calls: without what is known of
pending calls, an entry may be recorded for a socket that is closed.

`Pubdir_proofs`, for every size of the query, the header and a read, every set
of answers and every number of new attempts, with `SizesAssumption`,
`AnswersAssumption` (an answer ends where its body does, or before, and
announces any length but -1) and
`RetriesAssumption`:

| theorem | states |
|---|---|
| `TypeCorrect` | `Spec => []TypeOK` |
| `BodiesWhole` | `Spec => []BodyWhole` |
| `NoSocketLeft` | `Spec => []SocketsClosed` |
| `MemoryBack` | `Spec => []MemoryAccounted` |
| `DoneReal` | `Spec => []DoneIsReal` |

The invariant has four parts.  `WorkInv`: a request exists only inside
`gg_http_connect`, and then its socket is the only one besides `stray`.  `ReadInv`: the header
and body that are held are what was read, in order (`UpTo(n)` of `n` units, which
a read continues: `UpToGoesOn`).  `HoldInv`: which answers the client's
structure comes from; it is stronger than `DoneIsReal`, which says nothing of a
token between its two requests.  `HeapInv`: which memory is allocated at each
place, not only at the end; a request under way has its memory on top of what
the client's structure has (`Working(Base)`), so that a failure of the second
request gives back exactly what it took.

`Dcc_proofs`, `Dcc_stream_proofs` and `Dcc_file_proofs`, for every length of
chunks, buffers and frames, every width of a number, every set of files and of
offsets, and whatever is read in place of a number, with `SizesAssumption`
(the lengths are positive, and a chunk's length fits in a word),
`FilesAssumption` (lengths and offsets are below half a word) and `FramesAssumption`:

| theorem | states |
|---|---|
| `TypeCorrect` | `Spec => []TypeOK` |
| `RolesSettled` | `Spec => []RolesAgree` |
| `AlwaysInStep` | `Spec => []InStep` |
| `FileNeverTorn` | `Spec => []FileIntact` |
| `DoneMeansWhole` | `Spec => []DoneIsWhole` |
| `FramesIntact` | `Spec => []VoiceIntact` |
| `FileContractKept` | `Spec => KeepsContract` |

`RolesAgree`, that one side sends and the other gets, or both talk, is a part of
`InStep`, which says besides that each finds the packet it reads.

`TypeOK` is not inductive by itself: once a header is whole its second item is
taken for a length, and that there is a second one has to be known
(`ChunkSound`, in `TypeInv`).

The other five stand on one idea.  What is on its way to a client was written
by a machine that has gone on since, and will be read by one that is behind, so
no property of the two states alone is kept by their steps.  `Leads` therefore
describes the protocol once, as an automaton whose nodes are places in the
conversation (`Nodes`: which packet is next, how much of a chunk or frame is
missing, where in the file one is), and `Path(x, q, y, spoken)` says that the
items `q` lead from node `x` to node `y`.  `Stands(c, x)` is where `c` reads,
`Stops(o, y)` where the other one stopped to write, and the invariant
`StreamLeads` says that what is on its way leads from one to the other, until a
write is cut.  A read takes a piece off the path (`PathCut`), a write adds one
(`PathJoined`); what lies on a path, in which order, is known from its ends
(`Linked`, `Ahead`, `PathUnits`), which gives the data in `FileIntact` and
`DoneIsWhole`.  `Path` demands of its nodes, pair by pair, what would follow
from their neighbours by an induction over the items; a step has to show
it only for the items it adds.

The invariant `DccInv` has three parts.  `Streams` joins `TypeInv`,
`StreamLeads` and `Roles`: which states go together (`Meets`), which type a
state has, and that a write is cut only by the side that was called, late
enough that all roles are settled (`CutLate`).  `Hushed` adds that no voice
comes to a client before its peer has read the acknowledgement.  `FileInv` relates the fields
of both to the file: both know its length, the receiver's offset is where its
file ends, the sender's offset is no further than the file's end, and whoever
is told `DONE` is there.  `BufInv` says what the header and the frame that are
being read have in them so far.  Only `VoiceIntact` is a part of `DccInv` as it
stands; that `InStep`, `FileIntact` and `DoneIsWhole` follow is shown at the
end.  TLC checked the parts of `DccInv` on the instance of the run `dcc`.

`FileContractKept` uses that `DccInv` is an invariant, and takes the steps of
`Dcc` one by one: most leave all that `FileContract` speaks of as it is
(`Plain...`); `FillFileInfo` offers, `AnswerFile` agrees, sending a
piece of the file is `HandOver`, writing one is `Receive`, and whatever follows a
cut is `Lose`.  That `Receive` never runs ahead of `HandOver` is what the streams
are needed for: the data between the receiver's offset and the sender's are on
the path between them.

`Connected_proofs`, for every size of blocks, chunks and names, every set of
peers, images, lists, conferences and search results, and any number of calls,
with `BlocksAssumption` and `NameFits` (the sizes are positive, and a name
leaves room in the first chunk), `PeersAssumption`, `ImagesAssumption`,
`ListsAssumption` (what is in a list is a number), `GroupsAssumption` (a group is
a sequence), `ResultsAssumption` (a result has fields, each named once, and none
is called `nextstart`) and `NoticesAssumption`:

| theorem | states |
|---|---|
| `ContactsAgree` | `Spec => []ContactsKnown` |
| `ImagesIntact` | `Spec => []ImageIntact` |
| `NamesKept` | `Spec => []NamesAccounted` |
| `ExportsDone` | `Spec => []ExportDone` |
| `ImportsWhole` | `Spec => []ImportWhole` |
| `TypesKept` | `Spec => []TypeOK` |
| `ConferencesKnown` | `Spec => []ConferenceKnown` |
| `ResultsKept` | `Spec => []ResultsIntact` |

`Typed` gives each variable its set, in particular the packets that may be under
way on each side (`ForServer`, `FromServer`, `FromPeers`), and is inductive by
itself but weaker than `TypeOK`: it lets what is waited for be any integer.
Each of the other invariants is about packets under way, which belong to calls
made long ago.  None of them can speak of all packets at once, since what
requests come in between is arbitrary; each picks those of one purpose and says
in which order they are, by a function from the places between packets:

* `ContactsTold`: the contacts the server knows, changed by each packet on its
  way to it in turn, become those the client named (`Leads`).  It holds only
  while nothing was lost.
* `ImagesSound`: of the packets on their way from a peer, one that goes on with
  an image comes behind the one it goes on from (`WireChained`); an entry of
  the queue with a name has the image's first `done` units (`EntrySound`); of
  two entries for one image only the first is ever touched, so that the second
  is empty (`QueueSound`); and the first packet of each peer, if it goes on with
  an image, goes on where the entry stands, or the entry was begun by
  no first chunk and has no name (`HeadsFit`).
* `NamesSound`: a packet of a transfer that is sent to its end, but for the last
  one, has another one of that transfer right behind it (`WireUnbroken`); an
  entry that such a transfer has begun finds the next one at the head of its
  peer's queue (`EntriesAwait`), so that no first block can come to it before
  it is complete.  It needs `ImagesSound` beside it: that the entry is complete with
  the last packet, and that no other entry for the same image was begun.
* `ListsSound`: as long as requests do not overlap, there is either none under
  way (`Idle`), or the packets for it on both sides are consecutive stretches of
  one script, the blocks of the list or the replies to them (`Follows`,
  `Putting`, `Getting`).  How far they reach says what the server has stored,
  what is joined already, and how many replies the counter waits for: as many as
  there are blocks, or, when one was lost, more than will ever come.
* `OwedSound`: searches and images asked for, passed on, answered and taken are
  numbered in their order (`Tally`); the last number less the first is at most
  what the client still waits for, so that taking an answer never makes that
  negative.

Two more need no invariant but `Typed`: a packet has in it all that its message
or result is made from, so that what the loops of the code compute decides.

* `ConferenceKnown`: the places that the loop gives to the recipients it keeps
  are different ones among those that are sent (`PlacesApart`), so that whoever
  is kept is in the list (`AllListed`); where nobody is named twice, all but the
  addressee are kept, the places are all taken and nobody else is in it.
* `ResultsIntact`: `HasRead(results, n, i, res)` says what has been read when the
  first `i` fields of result `n` have: the entries are exactly those of the
  earlier fields, none twice.  `FieldRead` is one round of the code's loop and
  `ResultRead` the step to the next result, `ReadThrough` goes through all of
  them (`AllRounds`: induction over the rounds, by the first that fails), and
  `ReplyRead` adds the item of the next page, which gives back the number that its
  separator took.

TLC checked these invariants on the instance of the run `connected` before they
were proved.

Only model-checked: everything about liveness (`LoginSettles`,
`PacketsDelivered`, `TransferEnds`, `RequestsAnswered`, `OperationEnds`), since it needs `ENABLED`, which is out of the prover's reach;
and the six contradictions, which are single behaviours.

## 6. What is not modelled

Failures of `malloc` (the code returns NULL or gives up everywhere, as for
other errors).  The contents of packets but for what steers control: rich text,
descriptions, `gg_ping`, `gg_send_message_ctcp`.  `GG_STATE_RESOLVING` of
`gg_http_watch_fd`, which nothing sets any more.  The resolver's inside:
`gg_resolve_pthread` is compiled only with `__GG_LIBGADU_HAVE_PTHREAD`, which
this fork's configuration leaves undefined, and of the process `gg_resolve`
starts only its answer matters, which `GGSession` has.  Of DCC, the search for a
free port and `gg_dcc_request`, and the memory and descriptors a freed
connection keeps (`gg_dcc_free` frees neither `voice_buf` nor `file_fd`).  What
two threads do to the list of sockets when both are inside the section, but for
the entry that is lost.  Formatting, encoding, hashing and debugging output, the
stubs of `obsolete.c`, and the Windows layer but for `close`.
