------------------------------ MODULE GGSession ------------------------------
(***************************************************************************)
(* The life of a struct gg_session: gg_login(), the state machine that     *)
(* gg_watch_fd() advances (resolver, hub, proxy, TLS, key, reply), the     *)
(* connected session, gg_change_status(), gg_logoff(), gg_free_session().  *)
(*                                                                         *)
(* One call of the library is one action: the calls run to completion in   *)
(* the thread that makes them, and only the other end of the socket moves  *)
(* between them.  A synchronous gg_login() is its first half (LoginSync)   *)
(* followed by the calls of gg_watch_fd() its loop makes (phase "sync").   *)
(***************************************************************************)
EXTENDS Naturals, FiniteSets

CONSTANTS
  Params,  \* the gg_login() parameters and gg_proxy_* settings that are tried
  Fds,     \* the descriptors the operating system can hand out
  NoFd     \* the value -1 of sess->fd

(***************************************************************************)
(* async, tls, server_addr and server_port come from gg_login_params;      *)
(* proxy, httpOnly and proxyLogin from gg_proxy_enabled,                   *)
(* gg_proxy_http_only and gg_proxy_username.                               *)
(***************************************************************************)
ParamSpace ==
  [async : BOOLEAN, tls : BOOLEAN, server : {"none", "addr", "addrPort"},
   proxy : BOOLEAN, httpOnly : BOOLEAN, proxyLogin : BOOLEAN]

ASSUME ParamsAssumption == Params \subseteq ParamSpace
ASSUME FdsAssumption == NoFd \notin Fds

VARIABLES
  p,         \* the parameters of this login
  phase,     \* "idle", "sync" (inside gg_login), "open", "failed" or "freed"
  state,     \* sess->state
  check,     \* sess->check
  fd,        \* sess->fd
  password,  \* sess->password is allocated
  status,    \* sess->status
  route,     \* server_addr, hub_addr, proxy_addr, proxy_port and port of sess
  result,    \* what the last call of the library reported
  open,      \* descriptors open in the process
  stray,     \* of these, the ones no variable of the program holds any more
  link       \* the connection behind fd, and the far end's side of it

vars == <<p, phase, state, check, fd, password, status, route, result, open,
          stray, link>>

Phases == {"idle", "sync", "open", "failed", "freed"}
States == {"IDLE", "RESOLVING", "CONNECTING_HUB", "READING_DATA",
           "CONNECTING_GG", "TLS_NEGOTIATION", "READING_KEY",
           "READING_REPLY", "CONNECTED"}
Checks == {"NONE", "READ", "WRITE"}
\* "nowhere" is INADDR_NONE, what inet_addr() makes of anything but an address.
Addresses == {"zero", "nowhere", "hub", "proxy", "given", "assigned"}
Ports == {"none", "80", "8074", "443", "proxy", "given", "assigned"}
Statuses == {"unset", "avail", "notAvail"}

\* GG_EVENT_CONN_FAILED is named by the enum gg_failure_t code it carries.
Failures == {"RESOLVING", "CONNECTING", "READING", "WRITING", "TLS",
             "INVALID", "PASSWORD", "NEED_EMAIL"}
Results == Failures \cup {"nothing", "NO_SESSION", "NONE", "MSG",
                          "CONN_SUCCESS", "PACKET", "NULL", "OK", "ERROR"}

\* inbound: what a read would find. "owed" means the far end is about to send.
Inbound == {"quiet", "owed", "ready", "eof"}
Links == [addr : Addresses, port : Ports, tunnel : {"no", "asked", "up"},
          target : Addresses, secure : BOOLEAN, inbound : Inbound,
          login : {"no", "sent", "lost"}]
Routes == [server : Addresses, hub : Addresses, proxy : Addresses,
           proxyPort : BOOLEAN, port : Ports]

TypeOK ==
  /\ p \in ParamSpace
  /\ phase \in Phases
  /\ state \in States
  /\ check \in Checks
  /\ fd \in Fds \cup {NoFd}
  /\ password \in BOOLEAN
  /\ status \in Statuses
  /\ route \in Routes
  /\ result \in Results
  /\ open \in SUBSET Fds
  /\ stray \in SUBSET Fds
  /\ link \in Links

NoLink == [addr |-> "hub", port |-> "none", tunnel |-> "no",
           target |-> "hub", secure |-> FALSE, inbound |-> "quiet",
           login |-> "no"]

Init ==
  /\ p \in Params
  /\ phase = "idle"
  /\ state = "IDLE"
  /\ check = "NONE"
  /\ fd = NoFd
  /\ password = FALSE
  /\ status = "unset"
  /\ route = [server |-> "zero", hub |-> "zero", proxy |-> "zero",
              proxyPort |-> FALSE, port |-> "none"]
  /\ result = "nothing"
  /\ open = {}
  /\ stray = {}
  /\ link = NoLink

-----------------------------------------------------------------------------
(***************************************************************************)
(* gg_connect(): a descriptor, or -1 with everything closed, or -1 after a *)
(* failed bind(), whose socket is never closed.  held is what is open when *)
(* it is called.  Nothing answers at 0.0.0.0 or at INADDR_NONE.            *)
(***************************************************************************)
DialSpace(held) ==
  {r \in [fd : Fds \cup {NoFd}, lost : SUBSET (Fds \ held), port : Ports] :
     r.fd \notin held \cup r.lost}

Unanswered == {"zero", "nowhere"}

Connect(held, addr, port) ==
  {r \in DialSpace(held) :
     /\ r.port = port
     /\ r.fd # NoFd => addr \notin Unanswered /\ r.lost = {}
     /\ Cardinality(r.lost) <= 1}

\* gg_connect() on port, and where that fails on GG_HTTPS_PORT.
ConnectOrHttps(held, addr, port) ==
  {r \in DialSpace(held) :
     /\ r.fd # NoFd => addr \notin Unanswered
     /\ \/ r.fd # NoFd /\ r.port = port /\ r.lost = {}
        \/ r.fd # NoFd /\ r.port = "443" /\ Cardinality(r.lost) <= 1
        \/ r.fd = NoFd /\ r.port = "443" /\ Cardinality(r.lost) <= 2}

\* A Gadu-Gadu server speaks first; a hub and a proxy wait for a request.
SpeaksFirst(addr, port) == addr # "proxy" /\ port # "80"

NewLink(addr, port) ==
  [NoLink EXCEPT !.addr = addr, !.port = port,
                 !.inbound = IF SpeaksFirst(addr, port) THEN "owed"
                                                        ELSE "quiet"]

\* Fault: the descriptor of the old connection is forgotten, not closed.
HoldBoth(r) ==
  /\ fd' = r.fd
  /\ open' = open \cup r.lost \cup ({r.fd} \ {NoFd})
  /\ stray' = stray \cup r.lost

\* The descriptor table after the calls that returned r, fd having been closed.
Hold(r) ==
  /\ fd' = r.fd
  /\ open' = (open \ {fd}) \cup r.lost \cup ({r.fd} \ {NoFd})
  /\ stray' = stray \cup r.lost

(***************************************************************************)
(* How a call of gg_watch_fd() ends.  Inside a synchronous gg_login() the  *)
(* loop reads the event: it goes on until GG_STATE_CONNECTED, and gives up *)
(* on GG_EVENT_CONN_FAILED, freeing the password with the session.         *)
(***************************************************************************)
Report(st, ev) ==
  /\ state' = st
  /\ result' = ev
  /\ phase' = IF phase # "sync" THEN phase
              ELSE IF st = "CONNECTED" THEN "open"
              ELSE IF ev \in Failures THEN "failed"
              ELSE "sync"

KeepPassword(ev) ==
  password' = (password /\ ~(phase = "sync" /\ ev \in Failures))

\* Fault: sess->fd is cleared to 0, which is a descriptor, and not to -1.
GiveUpZero(ev) ==
  /\ Report("IDLE", ev)
  /\ fd' = 0
  /\ open' = open \ {fd}
  /\ UNCHANGED <<stray, check>>

\* GG_EVENT_CONN_FAILED: the descriptor is closed and the machine stops.
GiveUp(ev) ==
  /\ Report("IDLE", ev)
  /\ fd' = NoFd
  /\ open' = open \ {fd}
  /\ UNCHANGED <<stray, check>>

\* Fault: sess->check still asks for what the last connection waited for.
ArriveUnchecked(r, addr, st, ev) ==
  /\ Hold(r)
  /\ link' = NewLink(addr, r.port)
  /\ UNCHANGED check
  /\ IF r.fd = NoFd
     THEN Report("IDLE", "CONNECTING") /\ KeepPassword("CONNECTING")
     ELSE Report(st, ev) /\ KeepPassword(ev)

\* The end of a step that called gg_connect(): onward to st, or give up.
Arrive(r, addr, st, ev) ==
  /\ Hold(r)
  /\ link' = NewLink(addr, r.port)
  /\ IF r.fd = NoFd
     THEN /\ Report("IDLE", "CONNECTING")
          /\ KeepPassword("CONNECTING")
          /\ UNCHANGED check
     ELSE /\ Report(st, ev)
          /\ KeepPassword(ev)
          /\ check' = "WRITE"

-----------------------------------------------------------------------------
(***************************************************************************)
(* gg_login()                                                              *)
(***************************************************************************)
GivenAddr == IF p.server = "none" THEN "zero" ELSE "given"

\* sess->port, before anything is known of the server.
FirstPort == IF p.server = "addrPort" THEN "given"
             ELSE IF p.tls THEN "443" ELSE "8074"

Host == IF p.proxy THEN "proxy" ELSE "hub"
HostPort == IF p.proxy THEN "proxy" ELSE "80"

\* gg_login() returns NULL before its session could connect.
NoSession ==
  /\ phase' = "failed"
  /\ result' = "NO_SESSION"
  /\ UNCHANGED <<p, state, check, password, status, route>>

\* The session is filled in: it goes on inside gg_login() or with the client.
Started(ph, st, ck, rt) ==
  /\ phase' = ph
  /\ state' = st
  /\ check' = ck
  /\ password' = TRUE
  /\ route' = rt
  /\ UNCHANGED <<p, status, result>>

\* A synchronous login looks a host up itself, unless it goes to the server.
LooksUp == p.server # "addrPort" \/ (p.proxy /\ ~p.httpOnly)
SyncAddr == IF LooksUp THEN Host ELSE "given"
SyncPort == IF LooksUp THEN HostPort ELSE "given"

\* server_addr is given, or the hub's where that is looked up in advance.
SyncServer ==
  {GivenAddr} \cup IF LooksUp /\ p.proxyLogin /\ p.httpOnly
                   THEN {"hub"} ELSE {}

SyncRoute(server) ==
  [server |-> server, hub |-> SyncAddr,
   proxy |-> IF p.proxy THEN SyncAddr ELSE "zero",
   proxyPort |-> p.proxy, port |-> FirstPort]

LoginHostUnknown ==
  /\ phase = "idle" /\ ~p.async /\ LooksUp
  /\ NoSession
  /\ UNCHANGED <<fd, open, stray, link>>

LoginSync ==
  /\ phase = "idle" /\ ~p.async
  /\ \E r \in Connect({}, SyncAddr, SyncPort), server \in SyncServer :
     /\ Hold(r)
     /\ IF r.fd = NoFd THEN NoSession
        ELSE Started("sync", IF p.server = "addrPort" THEN "CONNECTING_GG"
                                                      ELSE "CONNECTING_HUB",
                     "READ", SyncRoute(server))
  /\ link' = NewLink(SyncAddr, SyncPort)

AsyncRoute == [server |-> GivenAddr, hub |-> "zero", proxy |-> "zero",
               proxyPort |-> p.proxy, port |-> FirstPort]

\* gg_resolve() makes a pipe whose other end the resolver process writes.
LoginResolving ==
  /\ phase = "idle" /\ p.async /\ (GivenAddr = "zero" \/ p.proxy)
  /\ \/ NoSession /\ UNCHANGED <<fd, open, link>>
     \/ \E d \in Fds :
        /\ Started("open", "RESOLVING", "READ", AsyncRoute)
        /\ fd' = d
        /\ open' = {d}
        /\ link' = [NoLink EXCEPT !.inbound = "owed"]
  /\ UNCHANGED stray

LoginDirect ==
  /\ phase = "idle" /\ p.async /\ GivenAddr # "zero" /\ ~p.proxy
  /\ \E r \in Connect({}, GivenAddr, FirstPort) :
     /\ Hold(r)
     /\ IF r.fd = NoFd THEN NoSession
        ELSE Started("open", "CONNECTING_GG", "WRITE", AsyncRoute)
  /\ link' = NewLink(GivenAddr, FirstPort)

-----------------------------------------------------------------------------
(***************************************************************************)
(* gg_watch_fd().  An asynchronous client calls it when select() finds the *)
(* descriptor ready for what sess->check asks; the loop of gg_login()      *)
(* calls it at once.  The sockets block, so a handler that reads goes on   *)
(* only when there is something to read.                                   *)
(***************************************************************************)
Readable == link.inbound \in {"ready", "eof"}

Polled(st) ==
  /\ state = st
  /\ fd # NoFd
  /\ \/ phase = "sync"
     \/ phase = "open" /\ (check = "WRITE" \/ (check = "READ" /\ Readable))

UsesProxy == route.proxy # "zero" /\ route.proxyPort

\* Fault: any known server address passes for a direct connection.
ResolvingAnyServer ==
  LET viaProxy == route.proxyPort
      addr == IF viaProxy THEN "proxy" ELSE "hub"
  IN
  /\ Polled("RESOLVING") /\ link.inbound = "ready"
  /\ UNCHANGED <<p, status>>
  /\ \E r \in Connect(open \ {fd}, addr, HostPort) :
     /\ route' = IF viaProxy
                 THEN [route EXCEPT !.proxy = addr]
                 ELSE [route EXCEPT !.server = addr, !.hub = addr]
     /\ Arrive(r, addr, IF route'.server # "zero" THEN "CONNECTING_GG"
                                                  ELSE "CONNECTING_HUB", "NONE")

WatchResolving ==
  LET viaProxy == route.proxyPort
      addr == IF viaProxy THEN "proxy" ELSE "hub"
  IN
  /\ Polled("RESOLVING") /\ Readable
  /\ UNCHANGED <<p, status>>
  /\ \/ /\ GiveUp("RESOLVING")
        /\ KeepPassword("RESOLVING")
        /\ UNCHANGED <<route, link>>
     \/ \E r \in Connect(open \ {fd}, addr, HostPort) :
        /\ link.inbound = "ready"
        /\ route' = IF viaProxy
                    THEN [route EXCEPT !.proxy = addr]
                    ELSE [route EXCEPT !.server = addr, !.hub = addr]
        /\ Arrive(r, addr,
                  IF viaProxy /\ route.server # "zero"
                  THEN "CONNECTING_GG" ELSE "CONNECTING_HUB", "NONE")

WatchConnectingHub ==
  /\ Polled("CONNECTING_HUB")
  /\ \/ /\ GiveUp("WRITING")              \* the query is cut short
        /\ KeepPassword("WRITING")
        /\ UNCHANGED link
     \/ /\ Report("READING_DATA", "NONE")
        /\ check' = "READ"
        /\ link' = [link EXCEPT !.inbound = IF @ = "eof" THEN @ ELSE "owed"]
        /\ UNCHANGED <<fd, open, stray, password>>
  /\ UNCHANGED <<p, status, route>>

\* Whether the Gadu-Gadu connection too goes through the proxy.
ProxyCarriesGG == ~p.httpOnly /\ UsesProxy

WatchHubSilent ==  \* no HTTP 200: try without the hub
  LET addr == IF ProxyCarriesGG THEN route.proxy
              ELSE IF p.proxy THEN route.server ELSE route.hub
  IN
  /\ Polled("READING_DATA") /\ Readable
  /\ UNCHANGED <<p, status>>
  /\ IF ProxyCarriesGG
     THEN \E r \in Connect(open \ {fd}, addr, "proxy") :
            Arrive(r, addr, "CONNECTING_GG", "NONE") /\ UNCHANGED route
     ELSE \E r \in ConnectOrHttps(open \ {fd}, addr, "8074") :
            /\ Arrive(r, addr, "CONNECTING_GG", "NONE")
            /\ route' = [route EXCEPT !.hub = addr, !.port = r.port]

\* Fault: sess->port keeps the port that could not be reached.
HubAnswersOldPort ==
  /\ Polled("READING_DATA") /\ link.inbound = "ready" /\ ~ProxyCarriesGG
  /\ UNCHANGED <<p, status>>
  /\ \E port \in {"8074", "assigned"} :
     \E r \in ConnectOrHttps(open \ {fd}, "assigned", port) :
       /\ Arrive(r, "assigned", "CONNECTING_GG", "NONE")
       /\ route' = [route EXCEPT !.server = "assigned", !.port = port]

\* The hub names a server, with or without a port and a system message.  If
\* what it names is no address, INADDR_NONE is dialled, or asked of the proxy.
WatchHubAnswers ==
  /\ Polled("READING_DATA") /\ link.inbound = "ready"
  /\ UNCHANGED <<p, status>>
  /\ \E server \in {"assigned", "nowhere"}, port \in {"8074", "assigned"},
        ev \in {"NONE", "MSG"} :
     IF ProxyCarriesGG
     THEN \E r \in Connect(open \ {fd}, route.proxy, "proxy") :
            /\ Arrive(r, route.proxy, "CONNECTING_GG", ev)
            /\ route' = [route EXCEPT !.server = server, !.port = port]
     ELSE \E r \in ConnectOrHttps(open \ {fd}, server, port) :
            /\ Arrive(r, server, "CONNECTING_GG", ev)
            /\ route' = [route EXCEPT !.server = server, !.port = r.port]

\* Fault: TLS starts at once, with the answer of the proxy still to come.
ConnectingGGTlsFirst ==
  /\ Polled("CONNECTING_GG") /\ ProxyCarriesGG
  /\ Report(IF p.tls THEN "TLS_NEGOTIATION" ELSE "READING_KEY", "NONE")
  /\ check' = IF p.tls THEN "WRITE" ELSE "READ"
  /\ link' = [link EXCEPT !.tunnel = "asked", !.inbound = "owed"]
  /\ UNCHANGED <<p, fd, open, stray, password, status, route>>

\* Fault: the proxy is asked for the hub even when the server is known.
ConnectingGGToHub ==
  /\ Polled("CONNECTING_GG") /\ ProxyCarriesGG
  /\ Report("READING_KEY", "NONE")
  /\ check' = "READ"
  /\ link' = [link EXCEPT !.tunnel = "asked", !.target = route.hub,
                          !.inbound = "owed"]
  /\ UNCHANGED <<p, fd, open, stray, password, status, route>>

WatchConnectingGG ==
  LET proxied == ProxyCarriesGG
      proxyPort == route.proxyPort /\ ~p.httpOnly
      target == IF route.server # "zero" THEN route.server ELSE route.hub
      onward == IF ~proxyPort /\ p.tls THEN "TLS_NEGOTIATION"
                                       ELSE "READING_KEY"
  IN
  /\ Polled("CONNECTING_GG")
  /\ route' = [route EXCEPT !.proxyPort = proxyPort]
  /\ UNCHANGED <<p, status>>
  /\ \/ /\ proxied                       \* the CONNECT request is cut short
        /\ GiveUp("CONNECTING")
        /\ KeepPassword("CONNECTING")
        /\ UNCHANGED link
     \/ /\ Report(onward, "NONE")
        /\ check' = IF onward = "READING_KEY" THEN "READ" ELSE "WRITE"
        /\ link' = IF proxied
                   THEN [link EXCEPT !.tunnel = "asked", !.target = target,
                           !.inbound = IF @ = "eof" THEN @ ELSE "owed"]
                   ELSE link
        /\ UNCHANGED <<fd, open, stray, password>>

\* SSL_connect() is repeated until it ends one way or the other.
WatchTls ==
  /\ Polled("TLS_NEGOTIATION") /\ Readable
  /\ UNCHANGED <<p, status, route>>
  /\ \/ /\ GiveUp("TLS")
        /\ KeepPassword("TLS")
        /\ UNCHANGED link
     \/ /\ link.inbound = "ready"
        /\ Report("READING_KEY", "NONE")
        /\ check' = "READ"
        /\ link' = [link EXCEPT !.secure = TRUE, !.inbound = "owed"]
        /\ UNCHANGED <<fd, open, stray, password>>

\* Fault: the session forgets that it has yet to negotiate TLS.
ProxyAnswerNoTls ==
  /\ Polled("READING_KEY") /\ UsesProxy /\ Readable
  /\ route' = [route EXCEPT !.proxyPort = FALSE]
  /\ link' = [link EXCEPT !.tunnel = "up", !.inbound = "owed"]
  /\ Report("READING_KEY", "NONE")
  /\ UNCHANGED <<p, check, fd, open, stray, password, status>>

\* The answer of the proxy is read up to its empty line, whatever it says.
WatchProxyAnswer ==
  /\ Polled("READING_KEY") /\ UsesProxy /\ Readable
  /\ route' = [route EXCEPT !.proxyPort = FALSE]
  /\ \E in \in IF link.inbound = "eof" THEN {"eof"}
               ELSE {"owed", "ready", "eof"} :
       link' = [link EXCEPT !.tunnel = "up", !.inbound = in]
  /\ IF p.tls
     THEN Report("TLS_NEGOTIATION", "NONE") /\ check' = "WRITE"
     ELSE Report("READING_KEY", "NONE") /\ UNCHANGED check
  /\ UNCHANGED <<p, fd, open, stray, password, status>>

(***************************************************************************)
(* gg_send_packet(): what it returns, and what became of the packet.  It   *)
(* compares the result of gg_write() as an unsigned number, so the -1 of a *)
(* failed write passes for success; SSL_write() returning 0 does not.  The *)
(* connection may be broken after a failed write, or be none the worse.    *)
(***************************************************************************)
SendOutcomes ==
  {[ret |-> "OK", fate |-> "sent"], [ret |-> "OK", fate |-> "lost"]}
    \cup IF p.tls THEN {[ret |-> "ERROR", fate |-> "lost"]} ELSE {}

\* What a read may find after a packet that is answered, or is not.
InboundAfter(out, answered) ==
  IF out.fate = "sent" THEN {IF answered THEN "owed" ELSE link.inbound}
  ELSE {IF answered THEN "quiet" ELSE link.inbound, "eof"}

WatchKeyUnread ==  \* no packet, an incomplete one, or not GG_WELCOME
  /\ Polled("READING_KEY") /\ ~UsesProxy /\ Readable
  /\ \E ev \in {"READING"} \cup
               IF link.inbound = "ready" THEN {"INVALID"} ELSE {} :
       GiveUp(ev) /\ KeepPassword(ev)
  /\ UNCHANGED <<p, status, route, link>>

\* Fault: GG_STATE_READING_REPLY is not entered once GG_LOGIN60 is sent.
KeyTwice ==
  /\ Polled("READING_KEY") /\ ~UsesProxy /\ link.inbound = "ready"
  /\ password' = FALSE
  /\ link' = [link EXCEPT !.login = "sent", !.inbound = "owed"]
  /\ Report("READING_KEY", "NONE")
  /\ UNCHANGED <<p, check, fd, open, stray, status, route>>

WatchKey ==
  /\ Polled("READING_KEY") /\ ~UsesProxy /\ link.inbound = "ready"
  /\ password' = FALSE
  /\ \E out \in SendOutcomes :
     /\ \E in \in InboundAfter(out, TRUE) :
          link' = [link EXCEPT !.login = out.fate, !.inbound = in]
     /\ IF out.ret = "ERROR"
        THEN GiveUp("WRITING")
        ELSE /\ Report("READING_REPLY", "NONE")
             /\ UNCHANGED <<fd, open, stray, check>>
  /\ UNCHANGED <<p, status, route>>

\* Fault: a refused login is reported, and the machine does not stop.
ReplyRefusedOnly ==
  /\ Polled("READING_REPLY") /\ Readable
  /\ Report("READING_REPLY", "PASSWORD")
  /\ KeepPassword("PASSWORD")
  /\ UNCHANGED <<p, check, fd, open, stray, status, route, link>>

WatchReply ==
  /\ Polled("READING_REPLY") /\ Readable
  /\ UNCHANGED <<p, route>>
  /\ \/ /\ \E ev \in {"READING"} \cup
                     IF link.inbound = "ready"
                     THEN {"PASSWORD", "NEED_EMAIL", "INVALID"} ELSE {} :
             GiveUp(ev) /\ KeepPassword(ev)
        /\ UNCHANGED <<status, link>>
     \/ /\ link.inbound = "ready"         \* GG_LOGIN_OK
        /\ Report("CONNECTED", "CONN_SUCCESS")
        /\ status' = "avail"
        /\ link' = [link EXCEPT !.inbound = "quiet"]
        /\ UNCHANGED <<check, fd, open, stray, password>>

\* A packet, one that is refused or incomplete, or the end of the connection.
WatchConnected ==
  /\ Polled("CONNECTED") /\ Readable
  /\ \E ev \in IF link.inbound = "ready" THEN {"PACKET", "NONE", "NULL"}
                                         ELSE {"NULL"} :
       Report("CONNECTED", ev)
  /\ link' = [link EXCEPT !.inbound = IF @ = "eof" THEN @ ELSE "quiet"]
  /\ UNCHANGED <<p, check, fd, password, status, route, open, stray>>

-----------------------------------------------------------------------------
(***************************************************************************)
(* The calls a client makes on a session it holds.                         *)
(***************************************************************************)
\* The status is noted before it is sent, and stays whatever becomes of that.
ChangeStatus ==
  /\ phase = "open"
  /\ IF state # "CONNECTED"
     THEN result' = "ERROR" /\ UNCHANGED <<status, link>>
     ELSE \E out \in SendOutcomes :
            /\ status' \in Statuses \ {"unset"}
            /\ \E in \in InboundAfter(out, FALSE) :
                 link' = [link EXCEPT !.inbound = in]
            /\ result' = out.ret
  /\ UNCHANGED <<p, phase, state, check, fd, password, route, open, stray>>

\* Only a session that is already unavailable says so once more, which changes
\* nothing here: the connection is closed at once.
Logoff ==
  /\ phase = "open"
  /\ link' = [link EXCEPT !.inbound = "eof"]
  /\ fd' = NoFd
  /\ open' = open \ {fd}
  /\ result' = "nothing"
  /\ UNCHANGED <<p, phase, state, check, password, status, route, stray>>

FreeSession ==
  /\ phase = "open"
  /\ phase' = "freed"
  /\ password' = FALSE
  /\ fd' = NoFd
  /\ open' = open \ {fd}
  /\ result' = "nothing"
  /\ UNCHANGED <<p, state, check, status, route, stray, link>>

-----------------------------------------------------------------------------
(***************************************************************************)
(* The far end: the resolver process, the hub, the proxy, the server.      *)
(***************************************************************************)
Alive == fd # NoFd /\ phase \in {"sync", "open"}

Answers ==
  /\ Alive /\ link.inbound = "owed"
  /\ link' = [link EXCEPT !.inbound = "ready"]
  /\ UNCHANGED <<p, phase, state, check, fd, password, status, route,
                 result, open, stray>>

\* A server writes to a connected client whenever it has news.
ServerWrites ==
  /\ Alive /\ state = "CONNECTED" /\ link.inbound = "quiet"
  /\ link' = [link EXCEPT !.inbound = "ready"]
  /\ UNCHANGED <<p, phase, state, check, fd, password, status, route,
                 result, open, stray>>

HangsUp ==
  /\ Alive /\ link.inbound \in {"quiet", "owed"}
  /\ link' = [link EXCEPT !.inbound = "eof"]
  /\ UNCHANGED <<p, phase, state, check, fd, password, status, route,
                 result, open, stray>>

-----------------------------------------------------------------------------
Login == LoginHostUnknown \/ LoginSync \/ LoginResolving \/ LoginDirect

Watch ==
  \/ WatchResolving \/ WatchConnectingHub \/ WatchHubSilent
  \/ WatchHubAnswers \/ WatchConnectingGG \/ WatchTls \/ WatchProxyAnswer
  \/ WatchKeyUnread \/ WatchKey \/ WatchReply \/ WatchConnected

Client == ChangeStatus \/ Logoff \/ FreeSession

FarEnd == Answers \/ ServerWrites \/ HangsUp

\* The program has nothing left to do with a session that is gone.
Over == phase \in {"failed", "freed"} /\ UNCHANGED vars

Next == Login \/ Watch \/ Client \/ FarEnd \/ Over

Spec == Init /\ [][Next]_vars

(***************************************************************************)
(* A synchronous gg_login() loops, an asynchronous client calls            *)
(* gg_watch_fd() when the descriptor is ready, as its comment asks, and    *)
(* the far end sends what it owes.  Nobody has to hang up, log off or free *)
(* the session.                                                            *)
(***************************************************************************)
Fairness == WF_vars(Watch) /\ WF_vars(Answers)

FairSpec == Spec /\ Fairness

-----------------------------------------------------------------------------
Live == phase \in {"sync", "open"}
BeforeKey == {"RESOLVING", "CONNECTING_HUB", "READING_DATA", "CONNECTING_GG",
              "TLS_NEGOTIATION", "READING_KEY"}

\* From here on the bytes of the connection are taken for Gadu-Gadu or TLS.
SpeaksGG ==
  \/ state = "TLS_NEGOTIATION"
  \/ state = "READING_KEY" /\ ~UsesProxy
  \/ link.login # "no"

(***************************************************************************)
(* Whatever the order of failed writes, refused connections and retries on *)
(* another port, every open descriptor is the one sess->fd holds or was    *)
(* lost by a bind() that failed in gg_connect(); sess->fd never names a    *)
(* closed one, and a stopped machine or a gg_login() that returned NULL    *)
(* holds none.  Every close(sess->fd) of gg_watch_fd() is about this.      *)
(***************************************************************************)
FdOwnership ==
  /\ open = stray \cup ({fd} \ {NoFd})
  /\ fd \notin stray
  /\ ~Live \/ state = "IDLE" => fd = NoFd

(***************************************************************************)
(* With tls set, the hash of the password leaves only over a connection    *)
(* whose TLS handshake has ended, on every path: direct, tunnelled, after  *)
(* the hub and after the fallback (GG_STATE_READING_KEY of gg_watch_fd()). *)
(***************************************************************************)
TlsBeforeLogin == p.tls /\ link.login # "no" => link.secure

(***************************************************************************)
(* The text a proxy answers CONNECT with is never read as a TLS record or  *)
(* as a packet: it is consumed before either begins.                       *)
(***************************************************************************)
ProxyAnswerFirst == SpeaksGG => link.tunnel # "asked"

(***************************************************************************)
(* gg_login_hash() always finds the password, and once the login packet is *)
(* built, as in a session that is gone, the password is freed.             *)
(***************************************************************************)
PasswordLifetime ==
  /\ Live /\ state \in BeforeKey => password
  /\ link.login # "no" \/ ~Live => ~password

(***************************************************************************)
(* An asynchronous login with gg_proxy_http_only and a given server is     *)
(* left connected to the HTTP proxy without asking it for anything.        *)
(***************************************************************************)
LeftAtProxy == p.async /\ p.proxy /\ p.httpOnly /\ p.server # "none"

(***************************************************************************)
(* When the session takes the far end for a Gadu-Gadu server, it is not    *)
(* the hub's HTTP port or a proxy that was not asked for a tunnel, except  *)
(* in the case LeftAtProxy.                                                *)
(***************************************************************************)
SpeaksToServer ==
  SpeaksGG /\ link.tunnel = "no" /\ ~LeftAtProxy =>
    SpeaksFirst(link.addr, link.port)

(***************************************************************************)
(* No connection is attempted to address 0, and no proxy is asked for      *)
(* address 0 or for itself, unless a proxy is on and no server was given:  *)
(* then the fallback of GG_STATE_READING_DATA has no address to go to.     *)
(* (What the hub names instead of an address is INADDR_NONE, not 0.)       *)
(***************************************************************************)
EndpointKnown ==
  ~(p.proxy /\ p.server = "none") =>
    link.addr # "zero" /\ link.target \notin {"zero", "proxy"}

(***************************************************************************)
(* sess->port names the port the Gadu-Gadu connection was made to, also    *)
(* after the second attempt on GG_HTTPS_PORT.                              *)
(***************************************************************************)
PortRecorded ==
  SpeaksGG /\ link.tunnel = "no" /\ ~LeftAtProxy => link.port = route.port

\* The caller's view of a session, for LoginContract.
Life ==
  IF phase = "idle" THEN "none"
  ELSE IF ~Live THEN "gone"
  ELSE IF state = "IDLE" THEN "over"
  ELSE IF fd = NoFd THEN "off"
  ELSE IF state = "CONNECTED" THEN "online"
  ELSE "pending"

Told ==
  IF result \in Failures THEN "failure"
  ELSE IF result = "CONN_SUCCESS" THEN "success"
  ELSE IF result = "NULL" THEN "broken"
  ELSE "nothing"

Contract == INSTANCE LoginContract
              WITH life <- Life, told <- Told, secret <- password

(***************************************************************************)
(* The session keeps the contract of LoginContract: its caller learns of   *)
(* success or failure exactly once and exactly when the login ends, a      *)
(* failed session never comes to life, and the password is used up before  *)
(* the session is connected.                                               *)
(***************************************************************************)
KeepsContract == Contract!CSpec

(***************************************************************************)
(* Every login ends: gg_login() returns, and an asynchronous session       *)
(* connects, fails or is given up by its client.  It needs sess->check to  *)
(* name, in every state, what really happens next on the descriptor.  The  *)
(* exception is a login packet that was lost unnoticed: its reply is       *)
(* waited for until somebody hangs up or gives up (libgadu.c:690).         *)
(***************************************************************************)
LoginSettles ==
  Live /\ ~LeftAtProxy ~>
    \/ ~Live \/ fd = NoFd \/ (phase = "open" /\ state = "CONNECTED")
    \/ state = "READING_REPLY" /\ link.login = "lost"

(***************************************************************************)
(* The comments of the code that its behaviour contradicts.                *)
(***************************************************************************)
\* gg_send_packet() reports a failed write: "w przypadku bledu -1", so nobody
\* waits for the reply to a login packet that was never written.
SendFailureReported == state = "READING_REPLY" => link.login = "sent"

\* The fallback of GG_STATE_READING_DATA connects to the hub: "laczymy sie na
\* port 8074 huba", never to address 0.
FallbackReachesHub == link.addr # "zero"

\* With a given server and a proxy, a resolved session skips the hub and is
\* connected to the server ("jest to bezposrednie polaczenie"): it speaks to
\* no proxy that was not asked for a tunnel.
DirectConnection == SpeaksGG /\ link.tunnel = "no" => link.addr # "proxy"
=============================================================================
