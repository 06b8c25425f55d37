-------------------------- MODULE GGSession_proofs --------------------------
EXTENDS GGSession, TLAPS

(***************************************************************************)
(* What the descriptor tables, reports and links that the actions are      *)
(* built from look like.                                                   *)
(***************************************************************************)
LEMMA DialType ==
  ASSUME NEW held, NEW addr, NEW port,
         NEW r \in Connect(held, addr, port) \cup
                   ConnectOrHttps(held, addr, port)
  PROVE  /\ r.fd \in Fds \cup {NoFd}
         /\ r.lost \in SUBSET (Fds \ held)
         /\ r.fd \notin held \cup r.lost
         /\ r.port \in Ports
  BY DEF Connect, ConnectOrHttps, DialSpace

LEMMA NewLinkType ==
  ASSUME NEW addr \in Addresses, NEW port \in Ports
  PROVE  NewLink(addr, port) \in Links
  BY DEF NewLink, NoLink, Links, Addresses, Ports, Inbound, Statuses,
         SpeaksFirst

LEMMA ReportType ==
  ASSUME phase \in Phases, NEW st \in States, NEW ev \in Results,
         Report(st, ev)
  PROVE  phase' \in Phases /\ state' \in States /\ result' \in Results
  BY DEF Report, Phases

LEMMA HoldType ==
  ASSUME TypeOK, NEW held, NEW addr, NEW port,
         NEW r \in Connect(held, addr, port) \cup
                   ConnectOrHttps(held, addr, port),
         Hold(r)
  PROVE  fd' \in Fds \cup {NoFd} /\ open' \in SUBSET Fds
           /\ stray' \in SUBSET Fds
  BY DialType DEF Hold, TypeOK

LEMMA GiveUpType ==
  ASSUME TypeOK, NEW ev \in Failures, GiveUp(ev)
  PROVE  /\ phase' \in Phases /\ state' \in States /\ result' \in Results
         /\ fd' \in Fds \cup {NoFd} /\ open' \in SUBSET Fds
         /\ stray' \in SUBSET Fds /\ check' \in Checks
  BY ReportType DEF GiveUp, TypeOK, Results, States

LEMMA ArriveType ==
  ASSUME TypeOK, NEW held, NEW addr \in Addresses, NEW port,
         NEW r \in Connect(held, addr, port) \cup
                   ConnectOrHttps(held, addr, port),
         NEW st \in States, NEW ev \in Results,
         Arrive(r, addr, st, ev)
  PROVE  /\ phase' \in Phases /\ state' \in States /\ result' \in Results
         /\ fd' \in Fds \cup {NoFd} /\ open' \in SUBSET Fds
         /\ stray' \in SUBSET Fds /\ check' \in Checks
         /\ link' \in Links /\ password' \in BOOLEAN
<1>1. r.port \in Ports
  BY DialType
<1>2. link' \in Links
  BY <1>1, NewLinkType DEF Arrive
<1>3. fd' \in Fds \cup {NoFd} /\ open' \in SUBSET Fds /\ stray' \in SUBSET Fds
  BY HoldType DEF Arrive
<1>4. CASE r.fd = NoFd
  <2>1. Report("IDLE", "CONNECTING") /\ KeepPassword("CONNECTING")
          /\ check' = check
    BY <1>4 DEF Arrive
  <2>2. "IDLE" \in States /\ "CONNECTING" \in Results
    BY DEF States, Results, Failures
  <2> QED
    BY <1>2, <1>3, <2>1, <2>2, ReportType DEF KeepPassword, TypeOK
<1>5. CASE r.fd # NoFd
  <2>1. Report(st, ev) /\ KeepPassword(ev) /\ check' = "WRITE"
    BY <1>5 DEF Arrive
  <2> QED
    BY <1>2, <1>3, <2>1, ReportType DEF KeepPassword, TypeOK, Checks
<1> QED
  BY <1>4, <1>5

-----------------------------------------------------------------------------
LEMMA RoutesType ==
  ASSUME TypeOK
  PROVE  /\ GivenAddr \in Addresses /\ FirstPort \in Ports
         /\ SyncAddr \in Addresses /\ SyncPort \in Ports
         /\ AsyncRoute \in Routes
         /\ \A server \in SyncServer : SyncRoute(server) \in Routes
<1>1. /\ GivenAddr \in Addresses /\ FirstPort \in Ports
      /\ SyncAddr \in Addresses /\ SyncPort \in Ports
      /\ SyncServer \subseteq Addresses
  BY DEF GivenAddr, FirstPort, Host, HostPort, SyncAddr, SyncPort, SyncServer,
         Addresses, Ports
<1>2. AsyncRoute \in Routes
  BY <1>1 DEF AsyncRoute, Routes, Addresses, TypeOK, ParamSpace
<1>3. \A server \in SyncServer : SyncRoute(server) \in Routes
  BY <1>1 DEF SyncRoute, Routes, Addresses, TypeOK, ParamSpace
<1> QED
  BY <1>1, <1>2, <1>3

(***************************************************************************)
(* Type correctness: no call of the library and no move of the far end     *)
(* takes a field of the session out of its range.                          *)
(***************************************************************************)
LEMMA LoginKeepsTypes == TypeOK /\ Login => TypeOK'
<1> SUFFICES ASSUME TypeOK, Login PROVE TypeOK'
  OBVIOUS
<1>1. /\ GivenAddr \in Addresses /\ FirstPort \in Ports
      /\ SyncAddr \in Addresses /\ SyncPort \in Ports
  BY RoutesType
<1>2. AsyncRoute \in Routes
  BY RoutesType
<1>3. \A server \in SyncServer : SyncRoute(server) \in Routes
  BY RoutesType
<1>4. ASSUME NoSession
      PROVE  /\ p' = p /\ phase' \in Phases /\ result' \in Results
             /\ UNCHANGED <<state, check, password, status, route>>
  BY <1>4 DEF NoSession, Phases, Results
<1>5. ASSUME NEW ph \in {"sync", "open"}, NEW st \in States, NEW ck \in Checks,
             NEW rt \in Routes, Started(ph, st, ck, rt)
      PROVE  /\ p' = p /\ phase' \in Phases /\ result' = result
             /\ state' \in States /\ check' \in Checks
             /\ password' \in BOOLEAN /\ status' = status
             /\ route' \in Routes
  BY <1>5 DEF Started, Phases
<1>6. CASE LoginHostUnknown
  BY <1>4, <1>6 DEF LoginHostUnknown, TypeOK
<1>7. CASE LoginSync
  <2>1. PICK r \in Connect({}, SyncAddr, SyncPort), server \in SyncServer :
          /\ Hold(r)
          /\ \/ NoSession
             \/ \E st \in {"CONNECTING_GG", "CONNECTING_HUB"} :
                  Started("sync", st, "READ", SyncRoute(server))
    BY <1>7 DEF LoginSync
  <2>2. link' \in Links
    BY <1>1, <1>7, NewLinkType DEF LoginSync
  <2>3. fd' \in Fds \cup {NoFd} /\ open' \in SUBSET Fds /\ stray' \in SUBSET Fds
    BY <2>1, HoldType
  <2>4. CASE NoSession
    BY <1>4, <2>2, <2>3, <2>4 DEF TypeOK
  <2>5. CASE \E st \in {"CONNECTING_GG", "CONNECTING_HUB"} :
               Started("sync", st, "READ", SyncRoute(server))
    BY <1>3, <1>5, <2>2, <2>3, <2>5 DEF TypeOK, States, Checks
  <2> QED
    BY <2>1, <2>4, <2>5
<1>8. CASE LoginResolving
  <2>1. CASE NoSession /\ UNCHANGED <<fd, open, link>>
    BY <1>4, <1>8, <2>1 DEF LoginResolving, TypeOK
  <2>2. ASSUME NEW d \in Fds,
               Started("open", "RESOLVING", "READ", AsyncRoute),
               fd' = d, open' = {d},
               link' = [NoLink EXCEPT !.inbound = "owed"]
        PROVE  TypeOK'
    <3>1. link' \in Links
      BY <2>2 DEF NoLink, Links, Addresses, Ports, Inbound, Statuses
    <3>2. "RESOLVING" \in States /\ "READ" \in Checks
      BY DEF States, Checks
    <3> QED
      BY <1>2, <1>5, <1>8, <2>2, <3>1, <3>2 DEF LoginResolving, TypeOK
  <2> QED
    BY <1>8, <2>1, <2>2 DEF LoginResolving
<1>9. CASE LoginDirect
  <2>1. PICK r \in Connect({}, GivenAddr, FirstPort) :
          /\ Hold(r)
          /\ \/ NoSession
             \/ Started("open", "CONNECTING_GG", "WRITE", AsyncRoute)
    BY <1>9 DEF LoginDirect
  <2>2. link' \in Links
    BY <1>1, <1>9, NewLinkType DEF LoginDirect
  <2>3. fd' \in Fds \cup {NoFd} /\ open' \in SUBSET Fds /\ stray' \in SUBSET Fds
    BY <2>1, HoldType
  <2>4. CASE NoSession
    BY <1>4, <2>2, <2>3, <2>4 DEF TypeOK
  <2>5. CASE Started("open", "CONNECTING_GG", "WRITE", AsyncRoute)
    BY <1>2, <1>5, <2>2, <2>3, <2>5 DEF TypeOK, States, Checks
  <2> QED
    BY <2>1, <2>4, <2>5
<1> QED
  BY <1>6, <1>7, <1>8, <1>9 DEF Login

LEMMA WatchKeepsTypes == TypeOK /\ Watch => TypeOK'
<1> SUFFICES ASSUME TypeOK, Watch PROVE TypeOK'
  OBVIOUS
<1> USE DEF KeepPassword
<1>1. CASE WatchResolving
  <2>1. /\ {"proxy", "hub"} \subseteq Addresses
        /\ {"CONNECTING_GG", "CONNECTING_HUB"} \subseteq States
        /\ "RESOLVING" \in Failures /\ "NONE" \in Results
    BY DEF Addresses, States, Failures, Results
  <2>2. CASE /\ GiveUp("RESOLVING")
             /\ KeepPassword("RESOLVING")
             /\ UNCHANGED <<p, status, route, link>>
    BY <2>1, <2>2, GiveUpType DEF TypeOK
  <2>3. CASE ~(/\ GiveUp("RESOLVING")
               /\ KeepPassword("RESOLVING")
               /\ UNCHANGED <<p, status, route, link>>)
    <3>0. PICK addr \in {"proxy", "hub"},
               st \in {"CONNECTING_GG", "CONNECTING_HUB"} :
            \E r \in Connect(open \ {fd}, addr, HostPort) :
              /\ Arrive(r, addr, st, "NONE")
              /\ \/ route' = [route EXCEPT !.proxy = addr]
                 \/ route' = [route EXCEPT !.server = addr, !.hub = addr]
      BY <1>1, <2>3 DEF WatchResolving
    <3>1. PICK r \in Connect(open \ {fd}, addr, HostPort) :
            /\ Arrive(r, addr, st, "NONE")
            /\ \/ route' = [route EXCEPT !.proxy = addr]
               \/ route' = [route EXCEPT !.server = addr, !.hub = addr]
      BY <3>0
    <3>2. route' \in Routes
      BY <2>1, <3>1 DEF TypeOK, Routes
    <3> QED
      BY <1>1, <2>1, <3>1, <3>2, ArriveType DEF WatchResolving, TypeOK
  <2> QED
    BY <2>2, <2>3
<1>2. CASE WatchConnectingHub
  <2>1. CASE GiveUp("WRITING") /\ KeepPassword("WRITING") /\ link' = link
    <3>1. "WRITING" \in Failures
      BY DEF Failures
    <3> QED
      BY <1>2, <2>1, <3>1, GiveUpType DEF WatchConnectingHub, TypeOK
  <2>2. CASE ~(GiveUp("WRITING") /\ KeepPassword("WRITING") /\ link' = link)
    <3>1. Report("READING_DATA", "NONE") /\ check' = "READ"
            /\ UNCHANGED <<p, fd, open, stray, password, status, route>>
            /\ \E in \in Inbound : link' = [link EXCEPT !.inbound = in]
      BY <1>2, <2>2 DEF WatchConnectingHub, TypeOK, Links, Inbound
    <3>2. link' \in Links
      BY <3>1 DEF TypeOK, Links
    <3>3. "READING_DATA" \in States /\ "NONE" \in Results /\ "READ" \in Checks
      BY DEF States, Results, Checks
    <3> QED
      BY <3>1, <3>2, <3>3, ReportType DEF TypeOK
  <2> QED
    BY <2>1, <2>2
<1>3. CASE WatchHubSilent
  <2> DEFINE Dials(addr, port) == Connect(open \ {fd}, addr, port) \cup
                                  ConnectOrHttps(open \ {fd}, addr, port)
  <2>0. PICK addr \in Addresses, port \in Ports :
          \E r \in Dials(addr, port) :
            /\ Arrive(r, addr, "CONNECTING_GG", "NONE")
            /\ \/ UNCHANGED route
               \/ route' = [route EXCEPT !.hub = addr, !.port = r.port]
    <3>1. CASE ProxyCarriesGG
      BY <1>3, <3>1 DEF WatchHubSilent, TypeOK, Routes, Ports
    <3>2. CASE ~ProxyCarriesGG
      BY <1>3, <3>2 DEF WatchHubSilent, TypeOK, Routes, Ports
    <3> QED
      BY <3>1, <3>2
  <2>1. PICK r \in Dials(addr, port) :
          /\ Arrive(r, addr, "CONNECTING_GG", "NONE")
          /\ \/ UNCHANGED route
             \/ route' = [route EXCEPT !.hub = addr, !.port = r.port]
    BY <2>0
  <2>2. r.port \in Ports
    BY DialType
  <2>3. route' \in Routes
    BY <2>1, <2>2 DEF TypeOK, Routes
  <2>4. "CONNECTING_GG" \in States /\ "NONE" \in Results
    BY DEF States, Results
  <2> QED
    BY <1>3, <2>1, <2>3, <2>4, ArriveType DEF WatchHubSilent, TypeOK
<1>4. CASE WatchHubAnswers
  <2> DEFINE Dials(addr, port) == Connect(open \ {fd}, addr, port) \cup
                                  ConnectOrHttps(open \ {fd}, addr, port)
             Learnt(server, port) ==
               route' = [route EXCEPT !.server = server, !.port = port]
  <2>0. PICK addr \in Addresses, dialled \in Ports, ev \in {"NONE", "MSG"},
             server \in Addresses :
          \E r \in Dials(addr, dialled) :
            /\ Arrive(r, addr, "CONNECTING_GG", ev)
            /\ \E port \in Ports \cup {r.port} : Learnt(server, port)
    <3>1. PICK server \in {"assigned", "nowhere"}, port \in {"8074", "assigned"},
               ev \in {"NONE", "MSG"} :
            IF ProxyCarriesGG
            THEN \E r \in Connect(open \ {fd}, route.proxy, "proxy") :
                   /\ Arrive(r, route.proxy, "CONNECTING_GG", ev)
                   /\ Learnt(server, port)
            ELSE \E r \in ConnectOrHttps(open \ {fd}, server, port) :
                   /\ Arrive(r, server, "CONNECTING_GG", ev)
                   /\ Learnt(server, r.port)
      BY <1>4 DEF WatchHubAnswers
    <3>2. /\ route.proxy \in Addresses /\ server \in Addresses
          /\ {"8074", "assigned", "proxy"} \subseteq Ports
      BY DEF TypeOK, Routes, Ports, Addresses
    <3>3. CASE ProxyCarriesGG
      <4>1. \E r \in Dials(route.proxy, "proxy") :
              /\ Arrive(r, route.proxy, "CONNECTING_GG", ev)
              /\ Learnt(server, port)
        BY <3>1, <3>3
      <4> HIDE DEF Dials, Learnt
      <4> QED
        BY <3>2, <4>1
    <3>4. CASE ~ProxyCarriesGG
      <4>1. \E r \in Dials(server, port) :
              /\ Arrive(r, server, "CONNECTING_GG", ev)
              /\ Learnt(server, r.port)
        BY <3>1, <3>4
      <4> HIDE DEF Dials, Learnt
      <4> QED
        BY <3>2, <4>1
    <3> QED
      BY <3>3, <3>4
  <2>1. PICK r \in Dials(addr, dialled) :
          /\ Arrive(r, addr, "CONNECTING_GG", ev)
          /\ \E port \in Ports \cup {r.port} : Learnt(server, port)
    BY <2>0
  <2>2. r.port \in Ports
    BY DialType
  <2>3. route' \in Routes
    BY <2>1, <2>2 DEF TypeOK, Routes, Addresses
  <2>4. "CONNECTING_GG" \in States /\ {"NONE", "MSG"} \subseteq Results
    BY DEF States, Results
  <2> QED
    BY <1>4, <2>1, <2>3, <2>4, ArriveType DEF WatchHubAnswers, TypeOK
<1>5. CASE WatchConnectingGG
  <2>1. route' \in Routes /\ p' = p /\ status' = status
    BY <1>5 DEF WatchConnectingGG, TypeOK, Routes, ParamSpace
  <2>2. CASE GiveUp("CONNECTING")
    <3>1. "CONNECTING" \in Failures
      BY DEF Failures
    <3>2. link' = link /\ password' \in BOOLEAN
      BY <1>5, <2>2 DEF WatchConnectingGG, GiveUp, Report, States, TypeOK
    <3> QED
      BY <2>1, <2>2, <3>1, <3>2, GiveUpType DEF TypeOK
  <2>3. CASE ~GiveUp("CONNECTING")
    <3>1. /\ \E st \in {"TLS_NEGOTIATION", "READING_KEY"} : Report(st, "NONE")
          /\ check' \in Checks
          /\ UNCHANGED <<fd, open, stray, password>>
          /\ \/ link' = link
             \/ \E target \in Addresses, in \in Inbound :
                  link' = [link EXCEPT !.tunnel = "asked", !.target = target,
                                       !.inbound = in]
      BY <1>5, <2>3
      DEF WatchConnectingGG, TypeOK, Links, Inbound, Routes, Checks
    <3>2. link' \in Links
      BY <3>1 DEF TypeOK, Links
    <3>3. {"TLS_NEGOTIATION", "READING_KEY"} \subseteq States
            /\ "NONE" \in Results
      BY DEF States, Results
    <3> QED
      BY <2>1, <3>1, <3>2, <3>3, ReportType DEF TypeOK
  <2> QED
    BY <2>2, <2>3
<1>6. CASE WatchTls
  <2>1. CASE GiveUp("TLS")
    <3>1. "TLS" \in Failures
      BY DEF Failures
    <3>2. link' = link /\ password' \in BOOLEAN
      BY <1>6, <2>1 DEF WatchTls, GiveUp, Report, TypeOK
    <3> QED
      BY <1>6, <2>1, <3>1, <3>2, GiveUpType DEF WatchTls, TypeOK
  <2>2. CASE ~GiveUp("TLS")
    <3>1. /\ Report("READING_KEY", "NONE") /\ check' = "READ"
          /\ link' = [link EXCEPT !.secure = TRUE, !.inbound = "owed"]
          /\ UNCHANGED <<p, status, route, fd, open, stray, password>>
      BY <1>6, <2>2 DEF WatchTls
    <3>2. link' \in Links
      BY <3>1 DEF TypeOK, Links, Inbound
    <3>3. "READING_KEY" \in States /\ "NONE" \in Results /\ "READ" \in Checks
      BY DEF States, Results, Checks
    <3> QED
      BY <3>1, <3>2, <3>3, ReportType DEF TypeOK
  <2> QED
    BY <2>1, <2>2
<1>7. CASE WatchProxyAnswer
  <2>1. /\ \E st \in {"TLS_NEGOTIATION", "READING_KEY"} : Report(st, "NONE")
        /\ check' \in Checks
        /\ UNCHANGED <<p, fd, open, stray, password, status>>
        /\ route' = [route EXCEPT !.proxyPort = FALSE]
        /\ \E in \in Inbound :
             link' = [link EXCEPT !.tunnel = "up", !.inbound = in]
    BY <1>7 DEF WatchProxyAnswer, TypeOK, Checks, Inbound
  <2>2. link' \in Links /\ route' \in Routes
    BY <2>1 DEF TypeOK, Links, Routes
  <2>3. {"TLS_NEGOTIATION", "READING_KEY"} \subseteq States
          /\ "NONE" \in Results
    BY DEF States, Results
  <2> QED
    BY <2>1, <2>2, <2>3, ReportType DEF TypeOK
<1>8. CASE WatchKeyUnread
  <2>1. PICK ev \in {"READING", "INVALID"} : GiveUp(ev) /\ KeepPassword(ev)
    BY <1>8 DEF WatchKeyUnread
  <2>2. {"READING", "INVALID"} \subseteq Failures
    BY DEF Failures
  <2> QED
    BY <1>8, <2>1, <2>2, GiveUpType DEF WatchKeyUnread, TypeOK
<1>9. CASE WatchKey
  <2>1. PICK out \in SendOutcomes :
          \E in \in InboundAfter(out, TRUE) :
            link' = [link EXCEPT !.login = out.fate, !.inbound = in]
    BY <1>9 DEF WatchKey
  <2>2. link' \in Links
    <3>1. out.fate \in {"sent", "lost"} /\ InboundAfter(out, TRUE) \subseteq Inbound
      BY DEF SendOutcomes, InboundAfter, TypeOK, Links, Inbound
    <3>2. PICK in \in Inbound : link' = [link EXCEPT !.login = out.fate, !.inbound = in]
      BY <2>1, <3>1
    <3>3. link \in Links
      BY DEF TypeOK
    <3> QED
      BY <3>1, <3>2, <3>3 DEF Links
  <2>3. \/ GiveUp("WRITING")
        \/ /\ Report("READING_REPLY", "NONE")
           /\ UNCHANGED <<fd, open, stray, check>>
    BY <1>9 DEF WatchKey
  <2>4. "WRITING" \in Failures /\ "READING_REPLY" \in States
          /\ "NONE" \in Results
    BY DEF Failures, Results, States
  <2>5. /\ phase' \in Phases /\ state' \in States /\ result' \in Results
        /\ fd' \in Fds \cup {NoFd} /\ open' \in SUBSET Fds
        /\ stray' \in SUBSET Fds /\ check' \in Checks
    BY <2>3, <2>4, GiveUpType, ReportType DEF TypeOK
  <2> QED
    BY <1>9, <2>2, <2>5 DEF WatchKey, TypeOK
<1>10. CASE WatchReply
  <2>1. CASE \E ev \in {"READING", "PASSWORD", "NEED_EMAIL", "INVALID"} :
               GiveUp(ev) /\ KeepPassword(ev) /\ UNCHANGED <<status, link>>
    <3>1. PICK ev \in {"READING", "PASSWORD", "NEED_EMAIL", "INVALID"} :
            GiveUp(ev) /\ KeepPassword(ev) /\ UNCHANGED <<status, link>>
      BY <2>1
    <3>2. ev \in Failures
      BY DEF Failures
    <3> QED
      BY <1>10, <3>1, <3>2, GiveUpType DEF WatchReply, TypeOK
  <2>2. CASE /\ Report("CONNECTED", "CONN_SUCCESS")
             /\ status' = "avail"
             /\ link' = [link EXCEPT !.inbound = "quiet"]
             /\ UNCHANGED <<check, fd, open, stray, password>>
    <3>1. link' \in Links /\ status' \in Statuses
      BY <2>2 DEF TypeOK, Links, Inbound, Statuses
    <3>2. "CONNECTED" \in States /\ "CONN_SUCCESS" \in Results
      BY DEF States, Results
    <3> QED
      BY <1>10, <2>2, <3>1, <3>2, ReportType DEF WatchReply, TypeOK
  <2> QED
    BY <1>10, <2>1, <2>2 DEF WatchReply
<1>11. CASE WatchConnected
  <2>1. PICK ev \in {"PACKET", "NONE", "NULL"} : Report("CONNECTED", ev)
    BY <1>11 DEF WatchConnected
  <2>2. ev \in Results /\ "CONNECTED" \in States
    BY DEF Results, States
  <2>3. link' \in Links
    BY <1>11 DEF WatchConnected, TypeOK, Links, Inbound
  <2> QED
    BY <1>11, <2>1, <2>2, <2>3, ReportType DEF WatchConnected, TypeOK
<1> QED
  BY <1>1, <1>2, <1>3, <1>4, <1>5, <1>6, <1>7, <1>8, <1>9, <1>10, <1>11
  DEF Watch

LEMMA ClientKeepsTypes == TypeOK /\ Client => TypeOK'
<1> SUFFICES ASSUME TypeOK, Client PROVE TypeOK'
  OBVIOUS
<1>1. ASSUME NEW out \in SendOutcomes, NEW in \in InboundAfter(out, FALSE)
      PROVE  [link EXCEPT !.inbound = in] \in Links /\ out.ret \in Results
  BY DEF InboundAfter, SendOutcomes, TypeOK, Links, Inbound, Results
<1>2. {"OK", "ERROR", "nothing"} \subseteq Results
  BY DEF Results
<1>3. CASE ChangeStatus
  <2>1. CASE state # "CONNECTED"
    BY <1>2, <1>3, <2>1 DEF ChangeStatus, TypeOK
  <2>2. CASE state = "CONNECTED"
    <3>1. PICK out \in SendOutcomes :
            /\ status' \in Statuses
            /\ \E in \in InboundAfter(out, FALSE) :
                 link' = [link EXCEPT !.inbound = in]
            /\ result' = out.ret
      BY <1>3, <2>2 DEF ChangeStatus
    <3> QED
      BY <1>1, <1>3, <3>1 DEF ChangeStatus, TypeOK
  <2> QED
    BY <2>1, <2>2
<1>4. CASE Logoff
  <2>1. link' \in Links
    BY <1>4 DEF Logoff, TypeOK, Links, Inbound
  <2> QED
    BY <1>2, <1>4, <2>1 DEF Logoff, TypeOK
<1>5. CASE FreeSession
  BY <1>2, <1>5 DEF FreeSession, TypeOK, Phases
<1> QED
  BY <1>3, <1>4, <1>5 DEF Client

LEMMA FarEndKeepsTypes == TypeOK /\ FarEnd => TypeOK'
BY DEF TypeOK, FarEnd, Answers, ServerWrites, HangsUp, Links, Inbound

LEMMA InitTypes == Init => TypeOK
<1> SUFFICES ASSUME Init PROVE TypeOK
  OBVIOUS
<1>1. route \in Routes
  BY DEF Init, Routes, Addresses, Ports
<1>2. link \in Links
  BY DEF Init, NoLink, Links, Addresses, Ports, Inbound, Statuses
<1> QED
  BY <1>1, <1>2, ParamsAssumption
  DEF Init, TypeOK, Phases, States, Checks, Statuses, Results

LEMMA StutterKeepsTypes == TypeOK /\ UNCHANGED vars => TypeOK'
BY DEF TypeOK, vars

\* Every field of the session stays in its range, whatever the parameters
\* of gg_login() and however many descriptors the system has to give.
THEOREM TypeCorrect == Spec => []TypeOK
<1>1. TypeOK /\ [Next]_vars => TypeOK'
  BY LoginKeepsTypes, WatchKeepsTypes, ClientKeepsTypes, FarEndKeepsTypes,
     StutterKeepsTypes
  DEF Next, Over
<1> QED
  BY <1>1, InitTypes, PTL DEF Spec
-----------------------------------------------------------------------------
(***************************************************************************)
(* What the descriptor properties need besides themselves to be inductive. *)
(***************************************************************************)
FdInv ==
  /\ FdOwnership
  /\ phase = "idle" => open = {} /\ stray = {}

LEMMA HoldOwns ==
  ASSUME TypeOK, FdOwnership, NEW addr, NEW port,
         NEW r \in Connect(open \ {fd}, addr, port) \cup
                   ConnectOrHttps(open \ {fd}, addr, port),
         Hold(r)
  PROVE  /\ fd' = r.fd
         /\ open' = stray' \cup ({fd'} \ {NoFd})
         /\ fd' \notin stray'
<1>1. /\ r.fd \in Fds \cup {NoFd} /\ r.lost \in SUBSET (Fds \ (open \ {fd}))
      /\ r.fd \notin (open \ {fd}) \cup r.lost
  BY DialType
<1>2. stray \subseteq open \ {fd} /\ open \ {fd} = stray
  BY DEF FdOwnership, TypeOK
<1> QED
  BY <1>1, <1>2 DEF Hold

\* A report that neither fails nor stops the machine leaves a live session.
LEMMA ReportLives ==
  ASSUME Live, NEW st \in States \ {"IDLE"}, NEW ev \in Results \ Failures,
         Report(st, ev)
  PROVE  Live' /\ state' = st /\ phase' # "idle"
  BY DEF Report, Live

LEMMA ReportAlive ==
  ASSUME phase # "idle", NEW st, NEW ev, Report(st, ev)
  PROVE  phase' # "idle"
  BY DEF Report

LEMMA ArriveOwns ==
  ASSUME TypeOK, FdOwnership, Live, NEW addr, NEW port,
         NEW r \in Connect(open \ {fd}, addr, port) \cup
                   ConnectOrHttps(open \ {fd}, addr, port),
         NEW st \in States \ {"IDLE"}, NEW ev \in Results \ Failures,
         Arrive(r, addr, st, ev)
  PROVE  FdInv'
<1>1. /\ fd' = r.fd /\ open' = stray' \cup ({fd'} \ {NoFd})
      /\ fd' \notin stray'
  BY HoldOwns DEF Arrive
<1>2. phase # "idle"
  BY DEF Live
<1>3. CASE r.fd = NoFd
  BY <1>1, <1>2, <1>3, ReportAlive DEF Arrive, FdInv, FdOwnership
<1>4. CASE r.fd # NoFd
  BY <1>1, <1>4, ReportLives DEF Arrive, FdInv, FdOwnership
<1> QED
  BY <1>3, <1>4

LEMMA GiveUpOwns ==
  ASSUME TypeOK, FdOwnership, Live, NEW ev, GiveUp(ev)
  PROVE  FdInv'
<1>1. open' = stray' /\ fd' = NoFd /\ stray' = stray
  BY DEF GiveUp, FdOwnership
<1>2. NoFd \notin stray
  BY FdsAssumption DEF TypeOK
<1>3. phase' # "idle"
  BY ReportAlive DEF GiveUp, Live
<1> QED
  BY <1>1, <1>2, <1>3 DEF FdInv, FdOwnership

LEMMA KeepOwns ==
  ASSUME FdOwnership, Live, UNCHANGED <<fd, open, stray>>,
         NEW st \in States \ {"IDLE"}, NEW ev \in Results \ Failures,
         Report(st, ev)
  PROVE  FdInv'
BY ReportLives DEF FdInv, FdOwnership

\* The three ways a call of gg_watch_fd() can end: it closes the descriptor,
\* replaces it by the one of another connection, or keeps it.
Proceeding == States \ {"IDLE"}
Silent == Results \ Failures
Redials(addr, port) == Connect(open \ {fd}, addr, port) \cup
                         ConnectOrHttps(open \ {fd}, addr, port)
Closes == \E ev \in Failures : GiveUp(ev)
Redialled(addr, port) ==
  \E st \in Proceeding, ev \in Silent : \E r \in Redials(addr, port) :
    Arrive(r, addr, st, ev)
Replaces == \E addr \in Addresses, port \in Ports : Redialled(addr, port)
Keeps == \E st \in Proceeding, ev \in Silent :
           Report(st, ev) /\ UNCHANGED <<fd, open, stray>>

LEMMA WatchEnds ==
  ASSUME TypeOK, Watch
  PROVE  Live /\ (Closes \/ Replaces \/ Keeps)
<1>1. Live
  BY DEF Watch, WatchResolving, WatchConnectingHub, WatchHubSilent,
         WatchHubAnswers, WatchConnectingGG, WatchTls, WatchProxyAnswer,
         WatchKeyUnread, WatchKey, WatchReply, WatchConnected, Polled, Live
<1>2. /\ {"CONNECTING_GG", "CONNECTING_HUB", "READING_DATA", "TLS_NEGOTIATION",
          "READING_KEY", "READING_REPLY", "CONNECTED"} \subseteq Proceeding
      /\ {"NONE", "MSG", "CONN_SUCCESS", "PACKET", "NULL"} \subseteq Silent
      /\ {"RESOLVING", "CONNECTING", "READING", "WRITING", "TLS", "INVALID",
          "PASSWORD", "NEED_EMAIL"} \subseteq Failures
  BY DEF Proceeding, Silent, States, Results, Failures
<1>3. /\ {route.proxy, route.server, route.hub} \subseteq Addresses
      /\ {"proxy", "hub", "assigned", "nowhere"} \subseteq Addresses
      /\ {"proxy", "80", "8074", "assigned"} \subseteq Ports
      /\ HostPort \in Ports
  BY DEF TypeOK, Routes, Addresses, Ports, HostPort
<1>4. CASE WatchResolving
  <2>1. \/ GiveUp("RESOLVING")
        \/ \E addr \in {"proxy", "hub"},
              st \in {"CONNECTING_GG", "CONNECTING_HUB"} :
             \E r \in Connect(open \ {fd}, addr, HostPort) :
               Arrive(r, addr, st, "NONE")
    BY <1>4 DEF WatchResolving
  <2>2. ASSUME NEW addr \in {"proxy", "hub"},
               NEW st \in {"CONNECTING_GG", "CONNECTING_HUB"},
               NEW r \in Connect(open \ {fd}, addr, HostPort),
               Arrive(r, addr, st, "NONE")
        PROVE  Redialled(addr, HostPort)
    BY <1>2, <2>2 DEF Redialled, Redials
  <2> QED
    BY <1>1, <1>2, <1>3, <2>1, <2>2 DEF Closes, Replaces
<1>5. CASE WatchHubSilent
  <2>1. ASSUME NEW addr \in Addresses, NEW port \in Ports,
               NEW r \in Redials(addr, port),
               Arrive(r, addr, "CONNECTING_GG", "NONE")
        PROVE  Redialled(addr, port)
    BY <1>2, <2>1 DEF Redialled
  <2>2. CASE ProxyCarriesGG
    <3>1. \E r \in Redials(route.proxy, "proxy") :
            Arrive(r, route.proxy, "CONNECTING_GG", "NONE")
      BY <1>5, <2>2 DEF WatchHubSilent, Redials
    <3>2. Redialled(route.proxy, "proxy")
      BY <1>3, <2>1, <3>1
    <3> QED
      BY <1>1, <1>3, <3>2 DEF Replaces
  <2>3. CASE ~ProxyCarriesGG
    <3>1. PICK addr \in {route.server, route.hub} :
            \E r \in Redials(addr, "8074") :
              Arrive(r, addr, "CONNECTING_GG", "NONE")
      BY <1>5, <2>3 DEF WatchHubSilent, Redials
    <3>2. Redialled(addr, "8074")
      BY <1>3, <2>1, <3>1
    <3> QED
      BY <1>1, <1>3, <3>2 DEF Replaces
  <2> QED
    BY <2>2, <2>3
<1>6. CASE WatchHubAnswers
  <2>1. ASSUME NEW addr \in Addresses, NEW port \in Ports,
               NEW ev \in {"NONE", "MSG"}, NEW r \in Redials(addr, port),
               Arrive(r, addr, "CONNECTING_GG", ev)
        PROVE  Redialled(addr, port)
    BY <1>2, <2>1 DEF Redialled
  <2>2. PICK server \in {"assigned", "nowhere"}, port \in {"8074", "assigned"},
             ev \in {"NONE", "MSG"} :
          IF ProxyCarriesGG
          THEN \E r \in Connect(open \ {fd}, route.proxy, "proxy") :
                 Arrive(r, route.proxy, "CONNECTING_GG", ev)
          ELSE \E r \in ConnectOrHttps(open \ {fd}, server, port) :
                 Arrive(r, server, "CONNECTING_GG", ev)
    BY <1>6 DEF WatchHubAnswers
  <2>3. CASE ProxyCarriesGG
    <3>1. Redialled(route.proxy, "proxy")
      BY <1>3, <2>1, <2>2, <2>3 DEF Redials
    <3> QED
      BY <1>1, <1>3, <3>1 DEF Replaces
  <2>4. CASE ~ProxyCarriesGG
    <3>1. Redialled(server, port)
      BY <1>3, <2>1, <2>2, <2>4 DEF Redials
    <3> QED
      BY <1>1, <1>3, <3>1 DEF Replaces
  <2> QED
    BY <2>3, <2>4
<1>7. CASE WatchConnectingHub
  BY <1>1, <1>2, <1>7 DEF WatchConnectingHub, Closes, Keeps
<1>8. CASE WatchConnectingGG
  BY <1>1, <1>2, <1>8 DEF WatchConnectingGG, Closes, Keeps
<1>9. CASE WatchTls
  BY <1>1, <1>2, <1>9 DEF WatchTls, Closes, Keeps
<1>10. CASE WatchProxyAnswer
  BY <1>1, <1>2, <1>10 DEF WatchProxyAnswer, Keeps
<1>11. CASE WatchKeyUnread
  BY <1>1, <1>2, <1>11 DEF WatchKeyUnread, Closes
<1>12. CASE WatchKey
  BY <1>1, <1>2, <1>12 DEF WatchKey, Closes, Keeps
<1>13. CASE WatchReply
  BY <1>1, <1>2, <1>13 DEF WatchReply, Closes, Keeps
<1>14. CASE WatchConnected
  BY <1>1, <1>2, <1>14 DEF WatchConnected, Keeps
<1> QED
  BY <1>4, <1>5, <1>6, <1>7, <1>8, <1>9, <1>10, <1>11, <1>12, <1>13, <1>14
  DEF Watch

LEMMA WatchOwns == TypeOK /\ FdInv /\ Watch => FdInv'
<1> SUFFICES ASSUME TypeOK, FdInv, Watch PROVE FdInv'
  OBVIOUS
<1>1. Live /\ FdOwnership
  BY WatchEnds DEF FdInv
<1>2. CASE Closes
  BY <1>1, <1>2, GiveUpOwns DEF Closes
<1>3. CASE Replaces
  BY <1>1, <1>3, ArriveOwns
  DEF Replaces, Redialled, Redials, Proceeding, Silent
<1>4. CASE Keeps
  BY <1>1, <1>4, KeepOwns DEF Keeps, Proceeding, Silent
<1> QED
  BY <1>2, <1>3, <1>4, WatchEnds

LEMMA LoginOwns == TypeOK /\ FdInv /\ Login => FdInv'
<1> SUFFICES ASSUME TypeOK, FdInv, Login PROVE FdInv'
  OBVIOUS
<1>1. phase = "idle" /\ open = {} /\ stray = {} /\ fd = NoFd
  BY DEF Login, LoginHostUnknown, LoginSync, LoginResolving, LoginDirect,
         FdInv, FdOwnership, Live
<1>2. CASE LoginHostUnknown
  BY <1>1, <1>2 DEF LoginHostUnknown, NoSession, FdInv, FdOwnership, Live
<1>3. ASSUME NEW addr, NEW port, NEW r \in Connect({}, addr, port), Hold(r),
             \/ r.fd = NoFd /\ NoSession
             \/ \E ph \in {"sync", "open"}, st \in States \ {"IDLE"},
                   ck \in Checks, rt \in Routes : Started(ph, st, ck, rt)
      PROVE  FdInv'
  <2>1. r \in Connect(open \ {fd}, addr, port)
    BY <1>1, <1>3
  <2>2. /\ fd' = r.fd
        /\ open' = stray' \cup ({fd'} \ {NoFd})
        /\ fd' \notin stray'
    BY <1>3, <2>1, HoldOwns DEF FdInv
  <2>3. CASE r.fd = NoFd /\ NoSession
    BY <2>2, <2>3 DEF NoSession, FdInv, FdOwnership
  <2>4. CASE \E ph \in {"sync", "open"}, st \in States \ {"IDLE"},
                ck \in Checks, rt \in Routes : Started(ph, st, ck, rt)
    BY <2>2, <2>4 DEF Started, FdInv, FdOwnership, Live
  <2> QED
    BY <1>3, <2>3, <2>4
<1>4. /\ {"CONNECTING_GG", "CONNECTING_HUB", "RESOLVING"}
            \subseteq States \ {"IDLE"}
      /\ {"READ", "WRITE"} \subseteq Checks
  BY DEF States, Checks
<1>5. AsyncRoute \in Routes
        /\ \A server \in SyncServer : SyncRoute(server) \in Routes
  BY RoutesType
<1>6. CASE LoginSync
  BY <1>3, <1>4, <1>5, <1>6 DEF LoginSync
<1>7. CASE LoginDirect
  BY <1>3, <1>4, <1>5, <1>7 DEF LoginDirect
<1>8. CASE LoginResolving
  <2>1. CASE NoSession /\ UNCHANGED <<fd, open>>
    BY <1>1, <1>8, <2>1
    DEF LoginResolving, NoSession, FdInv, FdOwnership, Live
  <2>2. ASSUME NEW d \in Fds, fd' = d, open' = {d}, stray' = stray,
               Started("open", "RESOLVING", "READ", AsyncRoute)
        PROVE  FdInv'
    BY <1>1, <2>2, FdsAssumption DEF Started, FdInv, FdOwnership, Live
  <2> QED
    BY <1>8, <2>1, <2>2 DEF LoginResolving
<1> QED
  BY <1>2, <1>6, <1>7, <1>8 DEF Login

LEMMA OthersOwn ==
  TypeOK /\ FdInv /\ (Client \/ FarEnd \/ UNCHANGED vars) => FdInv'
<1> SUFFICES ASSUME TypeOK, FdInv, Client \/ FarEnd \/ UNCHANGED vars
             PROVE  FdInv'
  OBVIOUS
<1>1. CASE Logoff \/ FreeSession
  <2>1. fd' = NoFd /\ open' = open \ {fd} /\ stray' = stray /\ phase' # "idle"
    BY <1>1 DEF Logoff, FreeSession
  <2>2. NoFd \notin stray
    BY FdsAssumption DEF TypeOK
  <2> QED
    BY <2>1, <2>2 DEF FdInv, FdOwnership
<1>2. CASE ChangeStatus \/ FarEnd \/ UNCHANGED vars
  <2>1. UNCHANGED <<phase, state, fd, open, stray>>
    BY <1>2 DEF ChangeStatus, FarEnd, Answers, ServerWrites, HangsUp, vars
  <2> QED
    BY <2>1 DEF FdInv, FdOwnership, Live
<1> QED
  BY <1>1, <1>2 DEF Client

LEMMA FdInvariant == Spec => []FdInv
<1>1. Init => FdInv
  BY DEF Init, FdInv, FdOwnership, Live
<1>2. TypeOK /\ FdInv /\ [Next]_vars => FdInv'
  BY WatchOwns, LoginOwns, OthersOwn DEF Next, Over
<1> QED
  BY <1>1, <1>2, TypeCorrect, PTL DEF Spec

\* No sequence of calls, failures and retries leaks a descriptor other than
\* the one of a failed bind(), closes one twice or keeps a closed one.
THEOREM DescriptorsOwned == Spec => []FdOwnership
<1>1. FdInv => FdOwnership
  BY DEF FdInv
<1> QED
  BY <1>1, FdInvariant, PTL

-----------------------------------------------------------------------------
(***************************************************************************)
(* What the password, TLS and proxy properties need to be inductive: what  *)
(* the route, the tunnel and the login packet are like in each state.      *)
(***************************************************************************)
ProxyKnown ==
  route.proxyPort /\ state \notin {"IDLE", "RESOLVING"} => route.proxy # "zero"

KeySecure == state = "READING_KEY" /\ p.tls /\ ~UsesProxy => link.secure

NoLoginYet == state \in BeforeKey => link.login = "no"

NoTunnelYet ==
  state \in BeforeKey \ {"TLS_NEGOTIATION", "READING_KEY"} => link.tunnel = "no"

LoginSent == state \in {"READING_REPLY", "CONNECTED"} => link.login # "no"

LoginInv ==
  /\ ProxyKnown /\ KeySecure /\ NoLoginYet /\ NoTunnelYet /\ LoginSent
  /\ TlsBeforeLogin /\ ProxyAnswerFirst /\ PasswordLifetime
  /\ phase = "idle" => state = "IDLE" /\ result = "nothing"

LEMMA NewLinkIsBlank ==
  ASSUME NEW addr, NEW port
  PROVE  NewLink(addr, port).login = "no" /\ NewLink(addr, port).tunnel = "no"
BY DEF NewLink, NoLink

LEMMA ArriveProtects ==
  ASSUME TypeOK, LoginInv, Live, state \in BeforeKey, p' = p,
         NEW addr, NEW r, NEW st \in {"CONNECTING_GG", "CONNECTING_HUB"},
         NEW ev \in Silent, Arrive(r, addr, st, ev),
         route'.proxyPort => route'.proxy # "zero"
  PROVE  LoginInv'
<1>1. link'.login = "no" /\ link'.tunnel = "no"
  BY NewLinkIsBlank DEF Arrive
<1>2. password
  BY DEF LoginInv, PasswordLifetime
<1>3. CASE r.fd = NoFd
  <2>1. state' = "IDLE" /\ phase' # "idle" /\ (~Live' => ~password')
    BY <1>3 DEF Arrive, Report, KeepPassword, Live, Failures, TypeOK
  <2> QED
    BY <1>1, <2>1
    DEF LoginInv, ProxyKnown, KeySecure, NoLoginYet, NoTunnelYet, LoginSent,
        TlsBeforeLogin, ProxyAnswerFirst, SpeaksGG, PasswordLifetime, BeforeKey
<1>4. CASE r.fd # NoFd
  <2>1. state' = st /\ phase' # "idle" /\ Live' /\ password'
    BY <1>2, <1>4 DEF Arrive, Report, KeepPassword, Live, Silent, TypeOK
  <2> QED
    BY <1>1, <2>1
    DEF LoginInv, ProxyKnown, KeySecure, NoLoginYet, NoTunnelYet, LoginSent,
        TlsBeforeLogin, ProxyAnswerFirst, SpeaksGG, PasswordLifetime, BeforeKey
<1> QED
  BY <1>3, <1>4

LEMMA GiveUpProtects ==
  ASSUME TypeOK, LoginInv, Live, NEW ev \in Failures, GiveUp(ev),
         KeepPassword(ev), p' = p, link' = link
  PROVE  LoginInv'
<1>1. state' = "IDLE" /\ phase' # "idle" /\ (~Live' => ~password')
      /\ (password' => password)
  BY DEF GiveUp, Report, KeepPassword, Live, TypeOK
<1> QED
  BY <1>1
  DEF LoginInv, ProxyKnown, KeySecure, NoLoginYet, NoTunnelYet, LoginSent,
      TlsBeforeLogin, ProxyAnswerFirst, SpeaksGG, PasswordLifetime, BeforeKey

LEMMA WatchProtects == TypeOK /\ LoginInv /\ Watch => LoginInv'
<1> SUFFICES ASSUME TypeOK, LoginInv, Watch PROVE LoginInv'
  OBVIOUS
<1> USE DEF LoginInv
<1>1. Live /\ p' = p
  BY WatchEnds
  DEF Watch, WatchResolving, WatchConnectingHub, WatchHubSilent,
      WatchHubAnswers, WatchConnectingGG, WatchTls, WatchProxyAnswer,
      WatchKeyUnread, WatchKey, WatchReply, WatchConnected
<1>2. /\ {"NONE", "MSG"} \subseteq Silent
      /\ {"RESOLVING", "CONNECTING", "READING", "WRITING", "TLS", "INVALID",
          "PASSWORD", "NEED_EMAIL"} \subseteq Failures
  BY DEF Silent, Results, Failures
<1>3. ASSUME NEW st \in States \ {"IDLE", "CONNECTED"}, NEW ev \in Silent,
             Report(st, ev), password' = password
      PROVE  state' = st /\ Live' /\ phase' # "idle" /\ password' = password
  BY <1>1, <1>3 DEF Report, Live, Silent
<1>4. {"READING_DATA", "TLS_NEGOTIATION", "READING_KEY", "READING_REPLY"}
        \subseteq States \ {"IDLE", "CONNECTED"}
  BY DEF States
<1>5. CASE WatchResolving
  <2>1. state \in BeforeKey /\ state = "RESOLVING"
    BY <1>5 DEF WatchResolving, Polled, BeforeKey
  <2>2. CASE GiveUp("RESOLVING") /\ KeepPassword("RESOLVING") /\ link' = link
    BY <1>1, <1>2, <2>2, GiveUpProtects
  <2>3. ASSUME NEW addr \in {"proxy", "hub"},
               NEW r \in Connect(open \ {fd}, addr, HostPort),
               NEW st \in {"CONNECTING_GG", "CONNECTING_HUB"},
               Arrive(r, addr, st, "NONE"),
               \/ addr = "proxy" /\ route' = [route EXCEPT !.proxy = "proxy"]
               \/ ~route.proxyPort
                    /\ route' = [route EXCEPT !.server = addr, !.hub = addr]
        PROVE  LoginInv'
    <3>1. route'.proxyPort => route'.proxy # "zero"
      BY <2>3 DEF TypeOK, Routes
    <3> QED
      BY <1>1, <1>2, <2>1, <2>3, <3>1, ArriveProtects
  <2> QED
    BY <1>5, <2>2, <2>3 DEF WatchResolving
<1>6. CASE WatchHubSilent \/ WatchHubAnswers
  <2>1. state \in BeforeKey /\ state = "READING_DATA"
    BY <1>6 DEF WatchHubSilent, WatchHubAnswers, Polled, BeforeKey
  <2>2. route'.proxyPort = route.proxyPort /\ route'.proxy = route.proxy
    <3>1. CASE ProxyCarriesGG
      BY <1>6, <3>1 DEF WatchHubSilent, WatchHubAnswers, TypeOK, Routes
    <3>2. CASE ~ProxyCarriesGG
      BY <1>6, <3>2 DEF WatchHubSilent, WatchHubAnswers, TypeOK, Routes
    <3> QED
      BY <3>1, <3>2
  <2>3. route'.proxyPort => route'.proxy # "zero"
    BY <2>1, <2>2 DEF ProxyKnown
  <2>4. \E addr, r : \E ev \in {"NONE", "MSG"} :
          Arrive(r, addr, "CONNECTING_GG", ev)
    <3>1. CASE WatchHubSilent
      <4>1. \E addr, r : Arrive(r, addr, "CONNECTING_GG", "NONE")
        BY <3>1 DEF WatchHubSilent
      <4> QED
        BY <4>1
    <3>2. CASE WatchHubAnswers
      <4>1. PICK server \in {"assigned", "nowhere"},
                 port \in {"8074", "assigned"}, ev \in {"NONE", "MSG"} :
              IF ProxyCarriesGG
              THEN \E r \in Connect(open \ {fd}, route.proxy, "proxy") :
                     Arrive(r, route.proxy, "CONNECTING_GG", ev)
              ELSE \E r \in ConnectOrHttps(open \ {fd}, server, port) :
                     Arrive(r, server, "CONNECTING_GG", ev)
        BY <3>2 DEF WatchHubAnswers
      <4>2. CASE ProxyCarriesGG
        BY <4>1, <4>2
      <4>3. CASE ~ProxyCarriesGG
        BY <4>1, <4>3
      <4> QED
        BY <4>2, <4>3
    <3> QED
      BY <1>6, <3>1, <3>2
  <2> QED
    BY <1>1, <1>2, <2>1, <2>3, <2>4, ArriveProtects
<1>7. CASE WatchConnectingHub
  <2>1. state = "CONNECTING_HUB" /\ route' = route
    BY <1>7 DEF WatchConnectingHub, Polled
  <2>2. CASE GiveUp("WRITING") /\ KeepPassword("WRITING") /\ link' = link
    BY <1>1, <1>2, <2>2, GiveUpProtects
  <2>3. CASE ~(GiveUp("WRITING") /\ KeepPassword("WRITING") /\ link' = link)
    <3>1. Report("READING_DATA", "NONE") /\ password' = password
            /\ \E in \in Inbound : link' = [link EXCEPT !.inbound = in]
      BY <1>7, <2>3 DEF WatchConnectingHub, TypeOK, Links, Inbound
    <3>2. state' = "READING_DATA" /\ Live' /\ phase' # "idle"
      BY <1>2, <1>3, <1>4, <3>1
    <3>3. link'.login = link.login /\ link'.tunnel = link.tunnel
      BY <3>1 DEF TypeOK, Links
    <3> QED
      BY <1>1, <2>1, <3>1, <3>2, <3>3
      DEF ProxyKnown, KeySecure, NoLoginYet, NoTunnelYet, LoginSent,
          TlsBeforeLogin, ProxyAnswerFirst, SpeaksGG, PasswordLifetime,
          BeforeKey
  <2> QED
    BY <2>2, <2>3
<1>8. CASE WatchConnectingGG
  <2>1. /\ state = "CONNECTING_GG"
        /\ route'.proxyPort = (route.proxyPort /\ ~p.httpOnly)
        /\ route'.proxy = route.proxy
    BY <1>8 DEF WatchConnectingGG, Polled, TypeOK, Routes
  <2>2. /\ link.login = "no" /\ link.tunnel = "no" /\ password
        /\ route.proxyPort => route.proxy # "zero"
    BY <1>1, <2>1
    DEF NoLoginYet, NoTunnelYet, PasswordLifetime, BeforeKey, ProxyKnown
  <2>3. CASE GiveUp("CONNECTING") /\ KeepPassword("CONNECTING")
               /\ link' = link
    BY <1>1, <1>2, <2>3, GiveUpProtects
  <2>4. CASE ~(GiveUp("CONNECTING") /\ KeepPassword("CONNECTING")
                /\ link' = link)
    <3>1. \/ Report("TLS_NEGOTIATION", "NONE") /\ p.tls /\ ~route'.proxyPort
          \/ Report("READING_KEY", "NONE") /\ ~(~route'.proxyPort /\ p.tls)
      BY <1>8, <2>1, <2>4 DEF WatchConnectingGG
    <3>2. /\ password' = password
          /\ ~ProxyCarriesGG => link' = link
          /\ link'.login = "no"
      BY <1>8, <2>2, <2>4 DEF WatchConnectingGG, TypeOK, Links
    <3>3. Live' /\ phase' # "idle" /\ state' \in {"TLS_NEGOTIATION", "READING_KEY"}
      BY <1>2, <1>3, <1>4, <3>1, <3>2
    <3>4. state' = "TLS_NEGOTIATION" => ~route'.proxyPort
      BY <3>1 DEF Report
    <3>5. state' = "READING_KEY" => ~(~route'.proxyPort /\ p.tls)
      BY <3>1 DEF Report
    <3>6. ~route'.proxyPort => link'.tunnel = "no"
      BY <2>1, <2>2, <3>2 DEF ProxyCarriesGG, UsesProxy
    <3>7. UsesProxy' <=> route'.proxyPort
      BY <2>1, <2>2 DEF UsesProxy
    <3> QED
      BY <1>1, <2>1, <2>2, <3>2, <3>3, <3>4, <3>5, <3>6, <3>7
      DEF ProxyKnown, KeySecure, NoLoginYet, NoTunnelYet, LoginSent,
          TlsBeforeLogin, ProxyAnswerFirst, SpeaksGG, PasswordLifetime,
          BeforeKey
  <2> QED
    BY <2>3, <2>4
<1>9. CASE WatchTls
  <2>1. state = "TLS_NEGOTIATION" /\ route' = route
    BY <1>9 DEF WatchTls, Polled
  <2>2. CASE GiveUp("TLS") /\ KeepPassword("TLS") /\ link' = link
    BY <1>1, <1>2, <2>2, GiveUpProtects
  <2>3. CASE ~(GiveUp("TLS") /\ KeepPassword("TLS") /\ link' = link)
    <3>1. /\ Report("READING_KEY", "NONE") /\ password' = password
          /\ link' = [link EXCEPT !.secure = TRUE, !.inbound = "owed"]
      BY <1>9, <2>3 DEF WatchTls
    <3>2. state' = "READING_KEY" /\ Live' /\ phase' # "idle"
      BY <1>2, <1>3, <1>4, <3>1
    <3>3. link'.login = link.login /\ link'.tunnel = link.tunnel /\ link'.secure
      BY <3>1 DEF TypeOK, Links
    <3> QED
      BY <1>1, <2>1, <3>1, <3>2, <3>3
      DEF ProxyKnown, KeySecure, NoLoginYet, NoTunnelYet, LoginSent,
          TlsBeforeLogin, ProxyAnswerFirst, SpeaksGG, PasswordLifetime,
          BeforeKey
  <2> QED
    BY <2>2, <2>3
<1>10. CASE WatchProxyAnswer
  <2>1. /\ state = "READING_KEY" /\ password' = password
        /\ route' = [route EXCEPT !.proxyPort = FALSE]
        /\ \E in \in Inbound :
             link' = [link EXCEPT !.tunnel = "up", !.inbound = in]
        /\ \/ Report("TLS_NEGOTIATION", "NONE")
           \/ Report("READING_KEY", "NONE") /\ ~p.tls
    BY <1>10 DEF WatchProxyAnswer, Polled, TypeOK, Inbound
  <2>2. /\ link'.login = "no" /\ link'.tunnel = "up" /\ password
        /\ ~route'.proxyPort
    BY <1>1, <2>1
    DEF TypeOK, Links, Routes, NoLoginYet, PasswordLifetime, BeforeKey
  <2>3. /\ Live' /\ phase' # "idle"
        /\ \/ state' = "TLS_NEGOTIATION"
           \/ state' = "READING_KEY" /\ ~p.tls
    BY <1>2, <1>3, <1>4, <2>1
  <2> QED
    BY <1>1, <2>1, <2>2, <2>3
    DEF ProxyKnown, KeySecure, NoLoginYet, NoTunnelYet, LoginSent,
        TlsBeforeLogin, ProxyAnswerFirst, SpeaksGG, PasswordLifetime, BeforeKey
<1>11. CASE WatchKeyUnread
  BY <1>1, <1>2, <1>11, GiveUpProtects DEF WatchKeyUnread
<1>12. CASE WatchKey
  <2>1. /\ state = "READING_KEY" /\ ~UsesProxy /\ ~password' /\ route' = route
        /\ \/ GiveUp("WRITING")
           \/ Report("READING_REPLY", "NONE")
    BY <1>12 DEF WatchKey, Polled, TypeOK
  <2>2. PICK out \in SendOutcomes :
          \E in \in InboundAfter(out, TRUE) :
            link' = [link EXCEPT !.login = out.fate, !.inbound = in]
    BY <1>12 DEF WatchKey
  <2>3. out.fate # "no"
    BY DEF SendOutcomes
  <2>4. /\ link'.login # "no" /\ link'.tunnel = link.tunnel
        /\ link'.secure = link.secure
    BY <2>2, <2>3 DEF TypeOK, Links
  <2>5. state' \in {"IDLE", "READING_REPLY"} /\ phase' # "idle"
    BY <1>1, <2>1 DEF GiveUp, Report, Live
  <2> QED
    BY <1>1, <2>1, <2>4, <2>5
    DEF ProxyKnown, KeySecure, NoLoginYet, NoTunnelYet, LoginSent,
        TlsBeforeLogin, ProxyAnswerFirst, SpeaksGG, PasswordLifetime, BeforeKey
<1>13. CASE WatchReply
  <2>1. state = "READING_REPLY" /\ route' = route
    BY <1>13 DEF WatchReply, Polled
  <2>2. CASE \E ev \in Failures :
               GiveUp(ev) /\ KeepPassword(ev) /\ link' = link
    BY <1>1, <2>2, GiveUpProtects
  <2>3. CASE /\ Report("CONNECTED", "CONN_SUCCESS") /\ password' = password
             /\ link' = [link EXCEPT !.inbound = "quiet"]
    <3>1. /\ link'.login = link.login /\ link'.tunnel = link.tunnel
          /\ link'.secure = link.secure
      BY <2>3 DEF TypeOK, Links
    <3>2. state' = "CONNECTED" /\ phase' # "idle"
      BY <1>1, <2>3 DEF Report, Live
    <3> QED
      BY <1>1, <2>1, <2>3, <3>1, <3>2
      DEF ProxyKnown, KeySecure, NoLoginYet, NoTunnelYet, LoginSent,
          TlsBeforeLogin, ProxyAnswerFirst, SpeaksGG, PasswordLifetime,
          BeforeKey
  <2> QED
    BY <1>2, <1>13, <2>2, <2>3 DEF WatchReply
<1>14. CASE WatchConnected
  <2>1. /\ state = "CONNECTED" /\ route' = route /\ password' = password
        /\ \E in \in Inbound : link' = [link EXCEPT !.inbound = in]
        /\ \E ev : Report("CONNECTED", ev)
    BY <1>14 DEF WatchConnected, Polled, TypeOK, Links, Inbound
  <2>2. /\ link'.login = link.login /\ link'.tunnel = link.tunnel
        /\ link'.secure = link.secure
    BY <2>1 DEF TypeOK, Links
  <2>3. state' = "CONNECTED" /\ phase' # "idle"
    BY <1>1, <2>1 DEF Report, Live
  <2> QED
    BY <1>1, <2>1, <2>2, <2>3
    DEF ProxyKnown, KeySecure, NoLoginYet, NoTunnelYet, LoginSent,
        TlsBeforeLogin, ProxyAnswerFirst, SpeaksGG, PasswordLifetime, BeforeKey
<1> QED
  BY <1>5, <1>6, <1>7, <1>8, <1>9, <1>10, <1>11, <1>12, <1>13, <1>14
  DEF Watch

LEMMA LoginProtects == TypeOK /\ LoginInv /\ Login => LoginInv'
<1> SUFFICES ASSUME TypeOK, LoginInv, Login PROVE LoginInv'
  OBVIOUS
<1> USE DEF LoginInv
<1>1. phase = "idle" /\ state = "IDLE" /\ result = "nothing" /\ ~password
      /\ p' = p
  BY DEF Login, LoginHostUnknown, LoginSync, LoginResolving, LoginDirect,
         NoSession, Started, PasswordLifetime, Live
<1>2. ASSUME NoSession, \/ link' = link
                        \/ link'.login = "no" /\ link'.tunnel = "no"
      PROVE  LoginInv'
  BY <1>1, <1>2
  DEF NoSession, ProxyKnown, KeySecure, NoLoginYet, NoTunnelYet, LoginSent,
      TlsBeforeLogin, ProxyAnswerFirst, SpeaksGG, PasswordLifetime, BeforeKey,
      Live
<1>3. ASSUME NEW ph \in {"sync", "open"}, NEW ck, NEW rt \in Routes,
             NEW st \in {"CONNECTING_GG", "CONNECTING_HUB", "RESOLVING"},
             Started(ph, st, ck, rt), link'.login = "no", link'.tunnel = "no",
             rt.proxyPort /\ st # "RESOLVING" => rt.proxy # "zero"
      PROVE  LoginInv'
  BY <1>1, <1>3
  DEF Started, ProxyKnown, KeySecure, NoLoginYet, NoTunnelYet, LoginSent,
      TlsBeforeLogin, ProxyAnswerFirst, SpeaksGG, PasswordLifetime, BeforeKey,
      Live
<1>4. AsyncRoute \in Routes
        /\ \A server \in SyncServer : SyncRoute(server) \in Routes
  BY RoutesType
<1>5. CASE LoginHostUnknown
  BY <1>2, <1>5 DEF LoginHostUnknown
<1>6. CASE LoginSync
  <2>1. link'.login = "no" /\ link'.tunnel = "no"
    BY <1>6, NewLinkIsBlank DEF LoginSync
  <2>2. \/ NoSession
        \/ \E server \in SyncServer, st \in {"CONNECTING_GG", "CONNECTING_HUB"} :
             Started("sync", st, "READ", SyncRoute(server))
    BY <1>6 DEF LoginSync
  <2>3. \A server \in SyncServer :
          SyncRoute(server).proxyPort => SyncRoute(server).proxy # "zero"
    BY DEF SyncRoute, SyncAddr, Host
  <2> QED
    BY <1>2, <1>3, <1>4, <2>1, <2>2, <2>3
<1>7. CASE LoginResolving
  <2>1. CASE NoSession /\ link' = link
    BY <1>2, <2>1
  <2>2. CASE /\ Started("open", "RESOLVING", "READ", AsyncRoute)
             /\ link' = [NoLink EXCEPT !.inbound = "owed"]
    <3>1. link'.login = "no" /\ link'.tunnel = "no"
      BY <2>2 DEF NoLink
    <3> QED
      BY <1>3, <1>4, <2>2, <3>1
  <2> QED
    BY <1>7, <2>1, <2>2 DEF LoginResolving
<1>8. CASE LoginDirect
  <2>1. link'.login = "no" /\ link'.tunnel = "no"
    BY <1>8, NewLinkIsBlank DEF LoginDirect
  <2>2. \/ NoSession
        \/ Started("open", "CONNECTING_GG", "WRITE", AsyncRoute)
    BY <1>8 DEF LoginDirect
  <2>3. ~AsyncRoute.proxyPort
    BY <1>8 DEF LoginDirect, AsyncRoute
  <2> QED
    BY <1>2, <1>3, <1>4, <2>1, <2>2, <2>3
<1> QED
  BY <1>5, <1>6, <1>7, <1>8 DEF Login

LEMMA OthersProtect ==
  TypeOK /\ LoginInv /\ (Client \/ FarEnd \/ UNCHANGED vars) => LoginInv'
<1> SUFFICES ASSUME TypeOK, LoginInv, Client \/ FarEnd \/ UNCHANGED vars
             PROVE  LoginInv'
  OBVIOUS
<1>1. /\ link'.login = link.login /\ link'.tunnel = link.tunnel
      /\ link'.secure = link.secure
  <2>1. CASE link' = link
    BY <2>1
  <2>2. CASE \E in : link' = [link EXCEPT !.inbound = in]
    BY <2>2 DEF TypeOK, Links
  <2> QED
    BY <2>1, <2>2
    DEF Client, ChangeStatus, Logoff, FreeSession, FarEnd, Answers,
        ServerWrites, HangsUp, vars
<1>2. /\ UNCHANGED <<p, state, route>>
      /\ \/ UNCHANGED <<phase, password>>
         \/ phase' = "freed" /\ ~password'
      /\ phase' = "idle" => phase = "idle" /\ result' = result
  BY DEF Client, ChangeStatus, Logoff, FreeSession, FarEnd, Answers,
         ServerWrites, HangsUp, vars
<1> QED
  BY <1>1, <1>2
  DEF LoginInv, ProxyKnown, KeySecure, NoLoginYet, NoTunnelYet, LoginSent,
      TlsBeforeLogin, ProxyAnswerFirst, SpeaksGG, PasswordLifetime, BeforeKey,
      UsesProxy, Live

LEMMA LoginInvariant == Spec => []LoginInv
<1>1. Init => LoginInv
  BY DEF Init, NoLink, LoginInv, ProxyKnown, KeySecure, NoLoginYet,
         NoTunnelYet, LoginSent, TlsBeforeLogin, ProxyAnswerFirst, SpeaksGG,
         PasswordLifetime, BeforeKey, Live
<1>2. TypeOK /\ LoginInv /\ [Next]_vars => LoginInv'
  BY WatchProtects, LoginProtects, OthersProtect DEF Next, Over
<1> QED
  BY <1>1, <1>2, TypeCorrect, PTL DEF Spec

\* With tls set the login packet never leaves over a bare connection,
\* whichever of the routes of gg_watch_fd() the session took.
THEOREM PasswordUnderTls == Spec => []TlsBeforeLogin
<1>1. LoginInv => TlsBeforeLogin
  BY DEF LoginInv
<1> QED
  BY <1>1, LoginInvariant, PTL

\* No byte of a proxy's answer is taken for TLS or for a packet.
THEOREM ProxyAnswerConsumed == Spec => []ProxyAnswerFirst
<1>1. LoginInv => ProxyAnswerFirst
  BY DEF LoginInv
<1> QED
  BY <1>1, LoginInvariant, PTL

\* The password is there for gg_login_hash() and gone from every session
\* that sent it or is no longer live.
THEOREM PasswordKept == Spec => []PasswordLifetime
<1>1. LoginInv => PasswordLifetime
  BY DEF LoginInv
<1> QED
  BY <1>1, LoginInvariant, PTL

-----------------------------------------------------------------------------
(***************************************************************************)
(* The session implements LoginContract: each call of the library is a     *)
(* step of the contract, or leaves what the caller sees as it is.          *)
(***************************************************************************)
Fails == state' = "IDLE" /\ phase' # "idle" /\ result' \in Failures
GoesOn == /\ state' \notin {"IDLE", "CONNECTED"} /\ Live' /\ fd' # NoFd
          /\ result' \in {"NONE", "MSG"}
Succeeds == /\ state' = "CONNECTED" /\ Live' /\ fd' # NoFd
            /\ result' = "CONN_SUCCESS"
Serves == /\ state' = "CONNECTED" /\ Live' /\ fd' # NoFd
          /\ result' \in {"PACKET", "NONE", "NULL"}

LEMMA GiveUpFails ==
  ASSUME Live, NEW ev \in Failures, GiveUp(ev)
  PROVE  Fails
BY DEF GiveUp, Report, Fails, Live

LEMMA ReportGoesOn ==
  ASSUME Live, NEW st \in {"READING_DATA", "TLS_NEGOTIATION", "READING_KEY",
                           "READING_REPLY"},
         Report(st, "NONE"), fd # NoFd, fd' = fd
  PROVE  GoesOn
BY DEF Report, GoesOn, Live, Failures

LEMMA ArriveTells ==
  ASSUME TypeOK, Live, NEW addr, NEW r,
         NEW st \in {"CONNECTING_GG", "CONNECTING_HUB"},
         NEW ev \in {"NONE", "MSG"}, Arrive(r, addr, st, ev)
  PROVE  (Fails \/ GoesOn) /\ (password' => password)
<1>1. CASE r.fd = NoFd
  BY <1>1 DEF Arrive, Report, KeepPassword, Fails, Live, Failures
<1>2. CASE r.fd # NoFd
  BY <1>2 DEF Arrive, Hold, Report, KeepPassword, GoesOn, Live, Failures
<1> QED
  BY <1>1, <1>2

LEMMA WatchTells ==
  ASSUME TypeOK, Watch
  PROVE  /\ Live /\ fd # NoFd /\ state # "IDLE" /\ (password' => password)
         /\ \/ state # "CONNECTED" /\ (Fails \/ GoesOn)
            \/ state = "READING_REPLY" /\ Succeeds /\ password' = password
            \/ state = "CONNECTED" /\ Serves /\ password' = password
<1>1. Live /\ fd # NoFd /\ state # "IDLE"
  BY DEF Watch, WatchResolving, WatchConnectingHub, WatchHubSilent,
         WatchHubAnswers, WatchConnectingGG, WatchTls, WatchProxyAnswer,
         WatchKeyUnread, WatchKey, WatchReply, WatchConnected, Polled, Live
<1>2. {"RESOLVING", "CONNECTING", "READING", "WRITING", "TLS", "INVALID",
       "PASSWORD", "NEED_EMAIL"} \subseteq Failures
  BY DEF Failures
<1>3. CASE WatchResolving
  <2>1. state # "CONNECTED"
    BY <1>3 DEF WatchResolving, Polled
  <2>2. CASE GiveUp("RESOLVING") /\ KeepPassword("RESOLVING")
    BY <1>1, <1>2, <2>1, <2>2, GiveUpFails DEF KeepPassword
  <2>3. CASE \E addr, r : \E st \in {"CONNECTING_GG", "CONNECTING_HUB"} :
               Arrive(r, addr, st, "NONE")
    BY <1>1, <2>1, <2>3, ArriveTells
  <2> QED
    BY <1>3, <2>2, <2>3 DEF WatchResolving
<1>4. CASE WatchHubSilent
  <2>1. state # "CONNECTED"
    BY <1>4 DEF WatchHubSilent, Polled
  <2>2. \E addr, r : Arrive(r, addr, "CONNECTING_GG", "NONE")
    BY <1>4 DEF WatchHubSilent
  <2> QED
    BY <1>1, <2>1, <2>2, ArriveTells
<1>5. CASE WatchHubAnswers
  <2>1. state # "CONNECTED"
    BY <1>5 DEF WatchHubAnswers, Polled
  <2>2. PICK server \in {"assigned", "nowhere"}, port \in {"8074", "assigned"},
             ev \in {"NONE", "MSG"} :
          IF ProxyCarriesGG
          THEN \E r \in Connect(open \ {fd}, route.proxy, "proxy") :
                 Arrive(r, route.proxy, "CONNECTING_GG", ev)
          ELSE \E r \in ConnectOrHttps(open \ {fd}, server, port) :
                 Arrive(r, server, "CONNECTING_GG", ev)
    BY <1>5 DEF WatchHubAnswers
  <2>3. CASE ProxyCarriesGG
    BY <1>1, <2>1, <2>2, <2>3, ArriveTells
  <2>4. CASE ~ProxyCarriesGG
    BY <1>1, <2>1, <2>2, <2>4, ArriveTells
  <2> QED
    BY <2>3, <2>4
<1>6. CASE WatchConnectingHub
  <2>1. state = "CONNECTING_HUB"
    BY <1>6 DEF WatchConnectingHub, Polled
  <2>2. CASE GiveUp("WRITING") /\ KeepPassword("WRITING")
    BY <1>1, <1>2, <2>1, <2>2, GiveUpFails DEF KeepPassword
  <2>3. CASE /\ \E st \in {"READING_DATA"} :
                  Report(st, "NONE")
             /\ fd' = fd /\ password' = password
    BY <1>1, <2>1, <2>3, ReportGoesOn
  <2> QED
    BY <1>6, <2>2, <2>3 DEF WatchConnectingHub
<1>7. CASE WatchConnectingGG
  <2>1. state = "CONNECTING_GG"
    BY <1>7 DEF WatchConnectingGG, Polled
  <2>2. CASE GiveUp("CONNECTING") /\ KeepPassword("CONNECTING")
    BY <1>1, <1>2, <2>1, <2>2, GiveUpFails DEF KeepPassword
  <2>3. CASE /\ \E st \in {"TLS_NEGOTIATION", "READING_KEY"} :
                  Report(st, "NONE")
             /\ fd' = fd /\ password' = password
    BY <1>1, <2>1, <2>3, ReportGoesOn
  <2> QED
    BY <1>7, <2>2, <2>3 DEF WatchConnectingGG
<1>8. CASE WatchTls
  <2>1. state = "TLS_NEGOTIATION"
    BY <1>8 DEF WatchTls, Polled
  <2>2. CASE GiveUp("TLS") /\ KeepPassword("TLS")
    BY <1>1, <1>2, <2>1, <2>2, GiveUpFails DEF KeepPassword
  <2>3. CASE /\ \E st \in {"READING_KEY"} :
                  Report(st, "NONE")
             /\ fd' = fd /\ password' = password
    BY <1>1, <2>1, <2>3, ReportGoesOn
  <2> QED
    BY <1>8, <2>2, <2>3 DEF WatchTls
<1>9. CASE WatchProxyAnswer
  BY <1>1, <1>9, ReportGoesOn DEF WatchProxyAnswer, Polled
<1>10. CASE WatchKeyUnread
  BY <1>1, <1>2, <1>10, GiveUpFails DEF WatchKeyUnread, Polled, KeepPassword
<1>11. CASE WatchKey
  BY <1>1, <1>2, <1>11, GiveUpFails, ReportGoesOn DEF WatchKey, Polled
<1>12. CASE WatchReply
  <2>1. state = "READING_REPLY"
    BY <1>12 DEF WatchReply, Polled
  <2>2. CASE \E ev \in Failures : GiveUp(ev) /\ KeepPassword(ev)
    BY <1>1, <2>1, <2>2, GiveUpFails DEF KeepPassword
  <2>3. CASE /\ Report("CONNECTED", "CONN_SUCCESS")
             /\ password' = password /\ fd' = fd
    BY <1>1, <2>1, <2>3 DEF Report, Succeeds, Live, Failures
  <2> QED
    BY <1>2, <1>12, <2>2, <2>3 DEF WatchReply
<1>13. CASE WatchConnected
  <2>1. PICK ev \in {"PACKET", "NONE", "NULL"} : Report("CONNECTED", ev)
    BY <1>13 DEF WatchConnected
  <2> QED
    BY <1>1, <1>13, <2>1
    DEF WatchConnected, Polled, Report, Serves, Live, Failures
<1> QED
  BY <1>3, <1>4, <1>5, <1>6, <1>7, <1>8, <1>9, <1>10, <1>11, <1>12, <1>13
  DEF Watch

LEMMA WatchKeepsContract ==
  ASSUME TypeOK, LoginInv, LoginInv', Watch
  PROVE  Contract!CNext
<1>1. Live /\ fd # NoFd /\ state # "IDLE" /\ (password' => password)
  BY WatchTells
<1>2. Life = IF state = "CONNECTED" THEN "online" ELSE "pending"
  BY <1>1 DEF Life, Live
<1>3. CASE state # "CONNECTED" /\ Fails
  <2>1. Told' = "failure" /\ Life' \in {"over", "gone"}
    BY <1>3 DEF Fails, Told, Life
  <2>2. Life' = "gone" => ~password'
    BY <1>3, <2>1 DEF Life, Fails, LoginInv, PasswordLifetime
  <2> QED
    BY <1>1, <1>2, <1>3, <2>1, <2>2 DEF Contract!CNext, Contract!Fail
<1>4. CASE state # "CONNECTED" /\ GoesOn
  <2>1. Told' = "nothing" /\ Life' = "pending"
    BY <1>4 DEF GoesOn, Told, Life, Live, Failures
  <2> QED
    BY <1>1, <1>2, <1>4, <2>1 DEF Contract!CNext, Contract!Progress
<1>5. CASE state = "READING_REPLY" /\ Succeeds /\ password' = password
  <2>1. Told' = "success" /\ Life' = "online"
    BY <1>5 DEF Succeeds, Told, Life, Live, Failures
  <2>2. ~password
    BY <1>5 DEF LoginInv, LoginSent, PasswordLifetime
  <2> QED
    BY <1>2, <1>5, <2>1, <2>2 DEF Contract!CNext, Contract!Succeed
<1>6. CASE state = "CONNECTED" /\ Serves /\ password' = password
  <2>1. Told' \in {"nothing", "broken"} /\ Life' = "online"
    BY <1>6 DEF Serves, Told, Life, Live, Failures
  <2> QED
    BY <1>2, <1>6, <2>1 DEF Contract!CNext, Contract!Serve
<1> QED
  BY <1>3, <1>4, <1>5, <1>6, WatchTells

LEMMA LoginKeepsContract ==
  ASSUME TypeOK, FdInv', LoginInv, LoginInv', Login
  PROVE  Contract!CNext
<1>1. Life = "none"
  BY DEF Login, LoginHostUnknown, LoginSync, LoginResolving, LoginDirect, Life
<1>2. phase = "idle" /\ result = "nothing"
  BY DEF Login, LoginHostUnknown, LoginSync, LoginResolving, LoginDirect,
         LoginInv
<1>3. CASE NoSession
  <2>1. Told' = "nothing" /\ Life' = "gone"
    BY <1>3 DEF NoSession, Told, Life, Live, Failures
  <2>2. ~password'
    BY <1>3 DEF NoSession, LoginInv, PasswordLifetime, Live
  <2> QED
    BY <1>1, <2>1, <2>2 DEF Contract!CNext, Contract!Begin
<1>4. ASSUME NEW ph \in {"sync", "open"}, NEW ck, NEW rt, fd' # NoFd,
             NEW st \in {"CONNECTING_GG", "CONNECTING_HUB", "RESOLVING"},
             Started(ph, st, ck, rt)
      PROVE  Contract!CNext
  <2>1. Told' = "nothing" /\ Life' = "pending" /\ password' = TRUE
    BY <1>2, <1>4 DEF Started, Told, Life, Live, Failures
  <2> QED
    BY <1>1, <2>1 DEF Contract!CNext, Contract!Begin
<1>5. CASE LoginHostUnknown
  BY <1>3, <1>5 DEF LoginHostUnknown
<1>6. CASE LoginSync
  BY <1>3, <1>4, <1>6 DEF LoginSync, Hold
<1>7. CASE LoginResolving
  BY <1>3, <1>4, <1>7, FdsAssumption DEF LoginResolving
<1>8. CASE LoginDirect
  BY <1>3, <1>4, <1>8 DEF LoginDirect, Hold
<1> QED
  BY <1>5, <1>6, <1>7, <1>8 DEF Login

LEMMA OthersKeepContract ==
  ASSUME TypeOK, FdInv, LoginInv, Client \/ FarEnd \/ UNCHANGED vars
  PROVE  Contract!CNext \/ UNCHANGED <<Life, Told, password>>
<1>1. CASE FarEnd \/ UNCHANGED vars
  BY <1>1 DEF FarEnd, Answers, ServerWrites, HangsUp, vars, Life, Told, Live
<1>2. CASE Client
  <2>1. phase = "open"
    BY <1>2 DEF Client, ChangeStatus, Logoff, FreeSession
  <2>2. /\ Life \in {"over", "off", "online", "pending"}
        /\ Life = "online" <=> fd # NoFd /\ state = "CONNECTED"
        /\ Life = "over" <=> state = "IDLE"
    BY <2>1 DEF Life, Live
  <2>3. CASE ChangeStatus
    <3>1. Life' = Life /\ Told' = "nothing" /\ password' = password
      <4>1. \/ result' = "ERROR"
            \/ \E out \in SendOutcomes : result' = out.ret
        BY <2>3 DEF ChangeStatus
      <4>2. result' \in {"OK", "ERROR"}
        BY <4>1 DEF SendOutcomes
      <4>3. UNCHANGED <<phase, state, fd, password>>
        BY <2>3 DEF ChangeStatus
      <4> QED
        BY <4>2, <4>3 DEF Life, Live, Told, Failures
    <3> QED
      BY <2>2, <3>1
      DEF Contract!CNext, Contract!Progress, Contract!Serve, Contract!Idle
  <2>4. CASE Logoff
    <3>1. Life' = (IF Life = "over" THEN "over" ELSE "off")
            /\ Told' = "nothing" /\ password' = password
      BY <2>1, <2>2, <2>4 DEF Logoff, Life, Live, Told, Failures
    <3> QED
      BY <2>2, <3>1 DEF Contract!CNext, Contract!TurnOff, Contract!Idle
  <2>5. CASE FreeSession
    <3>1. Life' = "gone" /\ Told' = "nothing" /\ ~password'
      BY <2>5 DEF FreeSession, Life, Live, Told, Failures
    <3> QED
      BY <2>2, <3>1 DEF Contract!CNext, Contract!Free
  <2> QED
    BY <1>2, <2>3, <2>4, <2>5 DEF Client
<1> QED
  BY <1>1, <1>2

\* Whatever the network does, the caller is told once how the login ended.
THEOREM ContractKept == Spec => KeepsContract
<1>1. Init => Contract!CInit
  BY DEF Init, Contract!CInit, Life, Told, Failures
<1>2. /\ TypeOK /\ FdInv /\ FdInv' /\ LoginInv /\ LoginInv' /\ [Next]_vars
      => Contract!CNext \/ UNCHANGED <<Life, Told, password>>
  BY WatchKeepsContract, LoginKeepsContract, OthersKeepContract DEF Next, Over
<1>3. /\ TypeOK /\ FdInv /\ FdInv' /\ LoginInv /\ LoginInv' /\ [Next]_vars
      => [Contract!CNext]_(Contract!contractVars)
  BY <1>2 DEF Contract!contractVars
<1> QED
  BY <1>1, <1>3, TypeCorrect, FdInvariant, LoginInvariant, PTL
  DEF Spec, KeepsContract, Contract!CSpec

-----------------------------------------------------------------------------
(***************************************************************************)
(* Where a session is connected to.                                        *)
(***************************************************************************)

(***************************************************************************)
(* What the properties of the route need to be inductive: what is known of *)
(* the server, the hub and the proxy while the session looks for them.     *)
(***************************************************************************)
ProxyAsked == route.proxyPort => p.proxy

ServerKnown ==
  /\ route.server # "proxy"
  /\ state # "IDLE" /\ p.server # "none" => route.server # "zero"

HubKnown ==
  state \in {"CONNECTING_HUB", "READING_DATA"} /\ ~p.proxy =>
    route.hub \notin {"zero", "proxy"}

ResolvingFirst ==
  state = "RESOLVING" =>
    p.async /\ route.server = GivenAddr /\ route.proxyPort = p.proxy

\* The session speaks, or is about to, without a tunnel.
Bare ==
  /\ SpeaksGG \/ (state = "CONNECTING_GG" /\ ~ProxyCarriesGG)
  /\ link.tunnel = "no"
  /\ ~LeftAtProxy

BareToServer ==
  Bare => SpeaksFirst(link.addr, link.port) /\ link.port = route.port

RouteInv ==
  /\ ProxyAsked /\ ServerKnown /\ HubKnown /\ ResolvingFirst
  /\ BareToServer /\ EndpointKnown
  /\ phase = "idle" => link.login = "no"

\* A step that leaves the connection and the route as they are.
Stays ==
  /\ UNCHANGED <<p, route>>
  /\ UNCHANGED <<link.addr, link.port, link.target, link.tunnel>>
  /\ SpeaksGG' => SpeaksGG
  /\ state' # state => state' \notin {"RESOLVING", "CONNECTING_GG"}
  /\ state' # "IDLE" => state # "IDLE"
  /\ phase' = "idle" => phase = "idle" /\ link'.login = link.login
  /\ state' \in {"CONNECTING_HUB", "READING_DATA"} =>
       state \in {"CONNECTING_HUB", "READING_DATA"}

LEMMA StaysOnRoute == RouteInv /\ Stays => RouteInv'
<1> SUFFICES ASSUME RouteInv, Stays PROVE RouteInv'
  OBVIOUS
<1>1. /\ ProxyAsked' /\ ServerKnown' /\ HubKnown' /\ EndpointKnown'
  BY DEF RouteInv, Stays, ProxyAsked, ServerKnown, HubKnown, EndpointKnown
<1>2. ResolvingFirst'
  BY DEF RouteInv, Stays, ResolvingFirst, GivenAddr
<1>3. BareToServer'
  <2>1. Bare' => Bare
    BY DEF Stays, Bare, ProxyCarriesGG, UsesProxy, LeftAtProxy
  <2> QED
    BY <2>1 DEF RouteInv, Stays, BareToServer, SpeaksFirst
<1> QED
  BY <1>1, <1>2, <1>3 DEF RouteInv, Stays

\* What a new connection looks like.
LEMMA NewLinkLeads ==
  ASSUME NEW addr, NEW port
  PROVE  /\ NewLink(addr, port).addr = addr
         /\ NewLink(addr, port).port = port
         /\ NewLink(addr, port).target = "hub"
         /\ NewLink(addr, port).tunnel = "no"
         /\ NewLink(addr, port).login = "no"
BY DEF NewLink, NoLink

\* A session that gives up stays where it was.
LEMMA GiveUpStays ==
  ASSUME TypeOK, LoginInv, state # "IDLE", NEW ev, GiveUp(ev),
         UNCHANGED <<p, route, link>>
  PROVE  Stays
BY DEF GiveUp, Report, Stays, SpeaksGG

(***************************************************************************)
(* A step that connects anew is on its route if the address it dials is    *)
(* one, and if a session that goes straight to CONNECTING_GG dials the     *)
(* server or a proxy it will ask for a tunnel.                             *)
(***************************************************************************)
LEMMA ArriveOnRoute ==
  ASSUME TypeOK, RouteInv, p' = p, route' \in Routes, ProxyAsked', ServerKnown',
         NEW addr, NEW r, NEW st \in {"CONNECTING_GG", "CONNECTING_HUB"},
         NEW ev, Arrive(r, addr, st, ev),
         ~(p.proxy /\ p.server = "none") => addr # "zero",
         st = "CONNECTING_HUB" /\ ~p.proxy => route'.hub \notin {"zero", "proxy"},
         st = "CONNECTING_GG" =>
           \/ ProxyCarriesGG' \/ LeftAtProxy
           \/ SpeaksFirst(addr, r.port) /\ r.port = route'.port
  PROVE  RouteInv'
<1>1. /\ link'.addr = addr /\ link'.port = r.port /\ link'.target = "hub"
      /\ link'.tunnel = "no" /\ link'.login = "no"
  BY NewLinkLeads DEF Arrive
<1>2. state' \in {"IDLE", st}
  BY DEF Arrive, Report
<1>3. EndpointKnown'
  BY <1>1 DEF EndpointKnown
<1>4. HubKnown' /\ ResolvingFirst'
  BY <1>2 DEF HubKnown, ResolvingFirst
<1>5. ~SpeaksGG'
  BY <1>1, <1>2 DEF SpeaksGG
<1>6. BareToServer'
  BY <1>1, <1>2, <1>5 DEF BareToServer, Bare, LeftAtProxy, SpeaksFirst
<1> QED
  BY <1>1, <1>3, <1>4, <1>6 DEF RouteInv

-----------------------------------------------------------------------------
LEMMA LoginOnRoute == TypeOK /\ LoginInv /\ RouteInv /\ Login => RouteInv'
<1> SUFFICES ASSUME TypeOK, LoginInv, RouteInv, Login PROVE RouteInv'
  OBVIOUS
<1>1. /\ phase = "idle" /\ state = "IDLE" /\ p' = p /\ link.login = "no"
      /\ phase' # "idle"
  BY DEF Login, LoginHostUnknown, LoginSync, LoginResolving, LoginDirect,
         NoSession, Started, LoginInv, RouteInv
\* A gg_login() that returns NULL leaves the connection it tried, if any.
<1>2. ASSUME NoSession, \/ link' = link
                        \/ \E addr, port : /\ link' = NewLink(addr, port)
                                           /\ addr # "zero"
      PROVE  RouteInv'
  <2>1. /\ state' = "IDLE" /\ route' = route /\ link'.login = "no"
        /\ EndpointKnown'
    BY <1>1, <1>2, NewLinkLeads DEF NoSession, RouteInv, EndpointKnown
  <2>2. ~Bare'
    BY <2>1 DEF Bare, SpeaksGG
  <2> QED
    BY <1>1, <2>1, <2>2
    DEF RouteInv, ProxyAsked, ServerKnown, HubKnown, ResolvingFirst,
        BareToServer
<1>3. CASE LoginHostUnknown
  BY <1>2, <1>3 DEF LoginHostUnknown
<1>4. CASE LoginSync
  <2>1. link' = NewLink(SyncAddr, SyncPort) /\ SyncAddr # "zero"
    BY <1>4 DEF LoginSync, SyncAddr, Host
  <2>2. CASE NoSession
    BY <1>2, <2>1, <2>2
  <2>3. ASSUME NEW server \in SyncServer,
               Started("sync", IF p.server = "addrPort" THEN "CONNECTING_GG"
                                                        ELSE "CONNECTING_HUB",
                       "READ", SyncRoute(server))
        PROVE  RouteInv'
    <3>1. /\ state' = IF p.server = "addrPort" THEN "CONNECTING_GG"
                                               ELSE "CONNECTING_HUB"
          /\ route' = SyncRoute(server)
      BY <2>3 DEF Started
    <3>2. /\ route'.server = server /\ route'.hub = SyncAddr
          /\ route'.proxy = (IF p.proxy THEN SyncAddr ELSE "zero")
          /\ route'.proxyPort = p.proxy /\ route'.port = FirstPort
      BY <3>1 DEF SyncRoute
    <3>3. ProxyAsked'
      BY <1>1, <3>2 DEF ProxyAsked
    <3>4. ServerKnown'
      BY <1>1, <3>2 DEF ServerKnown, SyncServer, GivenAddr
    <3>5. HubKnown'
      BY <1>1, <3>1, <3>2 DEF HubKnown, SyncAddr, LooksUp, Host
    <3>6. ResolvingFirst' /\ EndpointKnown'
      BY <2>1, <3>1, NewLinkLeads DEF ResolvingFirst, EndpointKnown
    <3>7. BareToServer'
      <4>1. CASE state' = "CONNECTING_HUB"
        BY <2>1, <4>1, NewLinkLeads DEF BareToServer, Bare, SpeaksGG
      <4>2. CASE p.server = "addrPort" /\ LooksUp
        <5>1. ProxyCarriesGG'
          BY <1>1, <3>2, <4>2
          DEF ProxyCarriesGG, UsesProxy, LooksUp, SyncAddr, Host
        <5> QED
          BY <2>1, <3>1, <4>2, <5>1, NewLinkLeads
          DEF BareToServer, Bare, SpeaksGG
      <4>3. CASE p.server = "addrPort" /\ ~LooksUp
        BY <2>1, <3>2, <4>3, NewLinkLeads
        DEF BareToServer, SpeaksFirst, SyncAddr, SyncPort, FirstPort
      <4> QED
        BY <3>1, <4>1, <4>2, <4>3
    <3> QED
      BY <1>1, <3>3, <3>4, <3>5, <3>6, <3>7 DEF RouteInv
  <2> QED
    BY <1>4, <2>2, <2>3 DEF LoginSync
<1>5. CASE LoginResolving
  <2>1. CASE NoSession /\ link' = link
    BY <1>2, <2>1
  <2>2. CASE /\ Started("open", "RESOLVING", "READ", AsyncRoute)
             /\ link' = [NoLink EXCEPT !.inbound = "owed"]
    <3>1. state' = "RESOLVING" /\ route' = AsyncRoute /\ p.async
      BY <1>5, <2>2 DEF Started, LoginResolving
    <3>2. /\ link'.addr = "hub" /\ link'.target = "hub" /\ link'.login = "no"
      BY <2>2 DEF NoLink
    <3>3. route'.server = GivenAddr /\ route'.proxyPort = p.proxy
      BY <3>1 DEF AsyncRoute
    <3>4. ~Bare' /\ EndpointKnown'
      BY <3>1, <3>2 DEF Bare, SpeaksGG, EndpointKnown
    <3> QED
      BY <1>1, <3>1, <3>3, <3>4
      DEF RouteInv, ProxyAsked, ServerKnown, HubKnown, ResolvingFirst,
          BareToServer, GivenAddr
  <2> QED
    BY <1>5, <2>1, <2>2 DEF LoginResolving
<1>6. CASE LoginDirect
  <2>1. /\ link' = NewLink(GivenAddr, FirstPort) /\ GivenAddr = "given"
        /\ ~p.proxy
    BY <1>6 DEF LoginDirect, GivenAddr
  <2>2. CASE NoSession
    BY <1>2, <2>1, <2>2
  <2>3. CASE Started("open", "CONNECTING_GG", "WRITE", AsyncRoute)
    <3>1. state' = "CONNECTING_GG" /\ route' = AsyncRoute
      BY <2>3 DEF Started
    <3>2. /\ route'.server = "given" /\ route'.proxyPort = p.proxy
          /\ route'.port = FirstPort
      BY <2>1, <3>1 DEF AsyncRoute
    <3>3. /\ link'.addr = "given" /\ link'.port = FirstPort
          /\ link'.target = "hub" /\ FirstPort # "80"
      BY <2>1, NewLinkLeads DEF FirstPort
    <3> QED
      BY <1>1, <2>1, <3>1, <3>2, <3>3
      DEF RouteInv, ProxyAsked, ServerKnown, HubKnown, ResolvingFirst,
          BareToServer, SpeaksFirst, EndpointKnown
  <2> QED
    BY <1>6, <2>2, <2>3 DEF LoginDirect
<1> QED
  BY <1>3, <1>4, <1>5, <1>6 DEF Login

-----------------------------------------------------------------------------
LEMMA ResolvingOnRoute ==
  TypeOK /\ LoginInv /\ RouteInv /\ WatchResolving => RouteInv'
<1> SUFFICES ASSUME TypeOK, LoginInv, RouteInv, WatchResolving PROVE RouteInv'
  OBVIOUS
<1>1. /\ state = "RESOLVING" /\ p' = p /\ p.async
      /\ route.server = GivenAddr /\ route.proxyPort = p.proxy
  BY DEF WatchResolving, Polled, RouteInv, ResolvingFirst
<1>2. CASE GiveUp("RESOLVING") /\ UNCHANGED <<route, link>>
  BY <1>1, <1>2, GiveUpStays, StaysOnRoute
<1>3. ASSUME NEW addr, NEW r,
             addr = (IF p.proxy THEN "proxy" ELSE "hub"),
             NEW st, st = (IF p.proxy /\ route.server # "zero"
                           THEN "CONNECTING_GG" ELSE "CONNECTING_HUB"),
             route' = (IF p.proxy
                       THEN [route EXCEPT !.proxy = addr]
                       ELSE [route EXCEPT !.server = addr, !.hub = addr]),
             Arrive(r, addr, st, "NONE")
      PROVE  RouteInv'
  <2>1. CASE p.proxy
    <3>1. /\ route' \in Routes /\ route'.server = route.server
          /\ route'.proxy = "proxy" /\ route'.proxyPort = route.proxyPort
      BY <1>3, <2>1 DEF TypeOK, Routes, Addresses
    <3>2. ProxyAsked' /\ ServerKnown'
      BY <1>1, <3>1, <2>1 DEF RouteInv, ProxyAsked, ServerKnown
    <3>3. ProxyCarriesGG' \/ (st = "CONNECTING_GG" => LeftAtProxy)
      BY <1>1, <1>3, <2>1, <3>1
      DEF ProxyCarriesGG, UsesProxy, LeftAtProxy, GivenAddr
    <3>4. st \in {"CONNECTING_GG", "CONNECTING_HUB"} /\ addr # "zero"
      BY <1>3
    <3> QED
      BY <1>1, <1>3, <2>1, <3>1, <3>2, <3>3, <3>4, ArriveOnRoute
  <2>2. CASE ~p.proxy
    <3>1. /\ route' \in Routes /\ route'.server = "hub" /\ route'.hub = "hub"
          /\ route'.proxyPort = route.proxyPort
      BY <1>3, <2>2 DEF TypeOK, Routes, Addresses
    <3>2. ProxyAsked' /\ ServerKnown'
      BY <1>1, <3>1 DEF RouteInv, ProxyAsked, ServerKnown
    <3>3. st = "CONNECTING_HUB" /\ addr # "zero"
      BY <1>3, <2>2
    <3> QED
      BY <1>1, <1>3, <3>1, <3>2, <3>3, ArriveOnRoute
  <2> QED
    BY <2>1, <2>2
<1> QED
  BY <1>1, <1>2, <1>3 DEF WatchResolving

LEMMA HubSilentOnRoute ==
  TypeOK /\ LoginInv /\ RouteInv /\ WatchHubSilent => RouteInv'
<1> SUFFICES ASSUME TypeOK, LoginInv, RouteInv, WatchHubSilent PROVE RouteInv'
  OBVIOUS
<1>1. state = "READING_DATA" /\ p' = p
  BY DEF WatchHubSilent, Polled
<1>2. CASE ProxyCarriesGG
  <2>1. PICK r : Arrive(r, route.proxy, "CONNECTING_GG", "NONE") /\ route' = route
    BY <1>2 DEF WatchHubSilent
  <2>2. ProxyCarriesGG' /\ route' \in Routes /\ ProxyAsked' /\ route.proxy # "zero"
    BY <1>1, <1>2, <2>1
    DEF ProxyCarriesGG, UsesProxy, TypeOK, RouteInv, ProxyAsked
  <2>3. ServerKnown'
    BY <1>1, <2>1 DEF RouteInv, ServerKnown
  <2> QED
    BY <1>1, <2>1, <2>2, <2>3, ArriveOnRoute
<1>3. CASE ~ProxyCarriesGG
  <2> DEFINE addr == IF p.proxy THEN route.server ELSE route.hub
  <2>1. PICK r \in ConnectOrHttps(open \ {fd}, addr, "8074") :
          /\ Arrive(r, addr, "CONNECTING_GG", "NONE")
          /\ route' = [route EXCEPT !.hub = addr, !.port = r.port]
    BY <1>3 DEF WatchHubSilent
  <2>2. r.port \in {"8074", "443"}
    BY <2>1 DEF ConnectOrHttps
  <2>3. /\ route' \in Routes /\ route'.server = route.server
        /\ route'.proxyPort = route.proxyPort /\ route'.port = r.port
    BY <2>1, <2>2 DEF TypeOK, Routes, Ports
  <2>4. ProxyAsked' /\ ServerKnown'
    BY <1>1, <2>3 DEF RouteInv, ProxyAsked, ServerKnown
  <2>5. addr # "proxy" /\ (~(p.proxy /\ p.server = "none") => addr # "zero")
    BY <1>1 DEF RouteInv, ServerKnown, HubKnown
  <2>6. SpeaksFirst(addr, r.port)
    BY <2>2, <2>5 DEF SpeaksFirst
  <2> HIDE DEF addr
  <2> QED
    BY <1>1, <2>1, <2>3, <2>4, <2>5, <2>6, ArriveOnRoute
<1> QED
  BY <1>2, <1>3

LEMMA HubAnswersOnRoute ==
  TypeOK /\ LoginInv /\ RouteInv /\ WatchHubAnswers => RouteInv'
<1> SUFFICES ASSUME TypeOK, LoginInv, RouteInv, WatchHubAnswers PROVE RouteInv'
  OBVIOUS
<1>1. state = "READING_DATA" /\ p' = p
  BY DEF WatchHubAnswers, Polled
<1>2. ASSUME NEW server \in {"assigned", "nowhere"}, NEW port \in Ports,
             route' = [route EXCEPT !.server = server, !.port = port]
      PROVE  /\ route' \in Routes /\ ProxyAsked' /\ ServerKnown'
             /\ route'.port = port /\ route'.proxy = route.proxy
             /\ route'.proxyPort = route.proxyPort
  BY <1>1, <1>2 DEF TypeOK, Routes, Addresses, RouteInv, ProxyAsked, ServerKnown
<1>3. CASE ProxyCarriesGG
  <2>1. PICK server \in {"assigned", "nowhere"}, port \in {"8074", "assigned"},
             ev \in {"NONE", "MSG"} :
          \E r \in Connect(open \ {fd}, route.proxy, "proxy") :
            /\ Arrive(r, route.proxy, "CONNECTING_GG", ev)
            /\ route' = [route EXCEPT !.server = server, !.port = port]
    BY <1>3 DEF WatchHubAnswers
  <2>2. port \in Ports
    BY DEF Ports
  <2>3. route.proxy # "zero"
    BY <1>3 DEF ProxyCarriesGG, UsesProxy
  <2>4. route' \in Routes /\ ProxyAsked' /\ ServerKnown' /\ ProxyCarriesGG'
    BY <1>1, <1>2, <1>3, <2>1, <2>2 DEF ProxyCarriesGG, UsesProxy
  <2> QED
    BY <1>1, <2>1, <2>3, <2>4, ArriveOnRoute
<1>4. CASE ~ProxyCarriesGG
  <2>1. PICK server \in {"assigned", "nowhere"}, port \in {"8074", "assigned"},
             ev \in {"NONE", "MSG"} :
          \E r \in ConnectOrHttps(open \ {fd}, server, port) :
            /\ Arrive(r, server, "CONNECTING_GG", ev)
            /\ route' = [route EXCEPT !.server = server, !.port = r.port]
    BY <1>4, ZenonT(40) DEF WatchHubAnswers
  <2>2. PICK r \in ConnectOrHttps(open \ {fd}, server, port) :
          /\ Arrive(r, server, "CONNECTING_GG", ev)
          /\ route' = [route EXCEPT !.server = server, !.port = r.port]
    BY <2>1
  <2>3. r.port \in {"8074", "443", "assigned"}
    BY DEF ConnectOrHttps
  <2>4. r.port \in Ports /\ SpeaksFirst(server, r.port)
    BY <2>3 DEF Ports, SpeaksFirst
  <2>5. /\ route' \in Routes /\ ProxyAsked' /\ ServerKnown'
        /\ route'.port = r.port
    BY <1>2, <2>2, <2>4
  <2> QED
    BY <1>1, <2>2, <2>4, <2>5, ArriveOnRoute
<1> QED
  BY <1>3, <1>4

LEMMA ConnectingGGOnRoute ==
  TypeOK /\ LoginInv /\ RouteInv /\ WatchConnectingGG => RouteInv'
<1> SUFFICES ASSUME TypeOK, LoginInv, RouteInv, WatchConnectingGG
             PROVE  RouteInv'
  OBVIOUS
<1>1. /\ state = "CONNECTING_GG" /\ p' = p
      /\ link.login = "no" /\ link.tunnel = "no" /\ Live
  BY DEF WatchConnectingGG, Polled, LoginInv, NoLoginYet, NoTunnelYet,
         BeforeKey, Live
<1>2. /\ route'.proxyPort = (route.proxyPort /\ ~p.httpOnly)
      /\ route'.server = route.server /\ route'.proxy = route.proxy
      /\ route'.port = route.port
  BY DEF WatchConnectingGG, TypeOK, Routes
<1>3. ProxyAsked'
  BY <1>1, <1>2 DEF RouteInv, ProxyAsked
<1>4. ASSUME \/ link' = link
             \/ \E in : ProxyCarriesGG /\
                  link' = [link EXCEPT !.tunnel = "asked", !.inbound = in,
                    !.target = IF route.server # "zero" THEN route.server
                                                        ELSE route.hub]
      PROVE  /\ link'.addr = link.addr /\ link'.port = link.port
             /\ link'.login = "no" /\ EndpointKnown'
  <2>1. CASE link' = link
    BY <1>1, <2>1 DEF RouteInv, EndpointKnown
  <2>2. CASE \E in : ProxyCarriesGG /\
               link' = [link EXCEPT !.tunnel = "asked", !.inbound = in,
                 !.target = IF route.server # "zero" THEN route.server
                                                     ELSE route.hub]
    <3>1. /\ link'.addr = link.addr /\ link'.port = link.port
          /\ link'.login = "no"
          /\ link'.target = IF route.server # "zero" THEN route.server
                                                     ELSE route.hub
      BY <1>1, <2>2 DEF TypeOK, Links
    <3>2. p.proxy
      BY <2>2 DEF ProxyCarriesGG, UsesProxy, RouteInv, ProxyAsked
    <3> QED
      BY <1>1, <3>1, <3>2 DEF RouteInv, ServerKnown, EndpointKnown
  <2> QED
    BY <1>4, <2>1, <2>2
<1>5. CASE GiveUp("CONNECTING") /\ link' = link
  <2>1. state' = "IDLE" /\ phase' # "idle"
    BY <1>1, <1>5 DEF GiveUp, Report, Live
  <2>2. ~Bare' /\ EndpointKnown'
    BY <1>1, <1>4, <1>5, <2>1 DEF Bare, SpeaksGG
  <2> QED
    BY <1>1, <1>2, <1>3, <2>1, <2>2
    DEF RouteInv, ServerKnown, HubKnown, ResolvingFirst, BareToServer
<1>6. ASSUME NEW st \in {"TLS_NEGOTIATION", "READING_KEY"}, Report(st, "NONE"),
             \/ link' = link /\ ~ProxyCarriesGG
             \/ /\ ProxyCarriesGG
                /\ \E in :
                     link' = [link EXCEPT !.tunnel = "asked", !.inbound = in,
                       !.target = IF route.server # "zero" THEN route.server
                                                           ELSE route.hub]
      PROVE  RouteInv'
  <2>1. state' = st /\ phase' # "idle"
    BY <1>1, <1>6 DEF Report, Live
  <2>2. BareToServer'
    <3>1. CASE ProxyCarriesGG
      <4>1. link'.tunnel = "asked"
        BY <1>6, <3>1 DEF TypeOK, Links
      <4> QED
        BY <4>1 DEF BareToServer, Bare
    <3>2. CASE ~ProxyCarriesGG
      <4>1. link' = link
        BY <1>6, <3>2
      <4>2. Bare' => Bare
        BY <1>1, <3>2, <4>1 DEF Bare, LeftAtProxy
      <4> QED
        BY <1>2, <4>1, <4>2 DEF RouteInv, BareToServer, SpeaksFirst
    <3> QED
      BY <3>1, <3>2
  <2>3. ServerKnown' /\ HubKnown' /\ ResolvingFirst' /\ EndpointKnown'
    BY <1>1, <1>2, <1>4, <1>6, <2>1
    DEF RouteInv, ServerKnown, HubKnown, ResolvingFirst
  <2> QED
    BY <1>3, <2>1, <2>2, <2>3 DEF RouteInv
<1>7. CASE ~(GiveUp("CONNECTING") /\ link' = link)
  <2>1. \E st \in {"TLS_NEGOTIATION", "READING_KEY"} : Report(st, "NONE")
    BY <1>7 DEF WatchConnectingGG
  <2>2. CASE ProxyCarriesGG
    <3>1. \E in :
            link' = [link EXCEPT !.tunnel = "asked", !.inbound = in,
              !.target = IF route.server # "zero" THEN route.server
                                                  ELSE route.hub]
      <4>1. link' = [link EXCEPT !.tunnel = "asked",
              !.target = IF route.server # "zero" THEN route.server
                                                  ELSE route.hub,
              !.inbound = IF @ = "eof" THEN @ ELSE "owed"]
        BY <1>7, <2>2 DEF WatchConnectingGG
      <4> QED
        BY <4>1
    <3> QED
      BY <1>6, <2>1, <2>2, <3>1
  <2>3. CASE ~ProxyCarriesGG
    <3>1. link' = link
      BY <1>7, <2>3 DEF WatchConnectingGG
    <3> QED
      BY <1>6, <2>1, <2>3, <3>1
  <2> QED
    BY <2>2, <2>3
<1> QED
  BY <1>5, <1>7

LEMMA ProxyAnswerOnRoute ==
  TypeOK /\ LoginInv /\ RouteInv /\ WatchProxyAnswer => RouteInv'
<1> SUFFICES ASSUME TypeOK, LoginInv, RouteInv, WatchProxyAnswer
             PROVE  RouteInv'
  OBVIOUS
<1>1. /\ state = "READING_KEY" /\ p' = p /\ Live
      /\ route' = [route EXCEPT !.proxyPort = FALSE]
      /\ \E in : link' = [link EXCEPT !.tunnel = "up", !.inbound = in]
      /\ \E st \in {"TLS_NEGOTIATION", "READING_KEY"} : Report(st, "NONE")
  BY DEF WatchProxyAnswer, Polled, Live
<1>2. /\ state' \in {"TLS_NEGOTIATION", "READING_KEY"} /\ phase' # "idle"
      /\ route'.server = route.server /\ ~route'.proxyPort
      /\ link'.tunnel = "up" /\ link'.addr = link.addr
      /\ link'.target = link.target
  BY <1>1 DEF Report, Live, TypeOK, Routes, Links
<1> QED
  BY <1>1, <1>2
  DEF RouteInv, ProxyAsked, ServerKnown, HubKnown, ResolvingFirst,
      BareToServer, Bare, EndpointKnown

(***************************************************************************)
(* The other calls of gg_watch_fd(), those of the client and the moves of  *)
(* the far end change neither the route nor where the connection leads.    *)
(***************************************************************************)
LEMMA WatchStays ==
  ASSUME TypeOK, LoginInv,
         \/ WatchConnectingHub \/ WatchTls \/ WatchKeyUnread \/ WatchKey
         \/ WatchReply \/ WatchConnected
  PROVE  Stays
<1>1. /\ state # "IDLE" /\ UNCHANGED <<p, route>> /\ Live
      /\ state = "TLS_NEGOTIATION" => SpeaksGG
      /\ state \in {"READING_REPLY", "CONNECTED"} => SpeaksGG
  BY DEF WatchConnectingHub, WatchTls, WatchKeyUnread, WatchKey, WatchReply,
         WatchConnected, Polled, SpeaksGG, LoginInv, LoginSent, Live
<1>2. CASE \E ev : GiveUp(ev) /\ link' = link
  BY <1>1, <1>2, GiveUpStays
<1>3. CASE WatchConnectingHub /\ Report("READING_DATA", "NONE")
  <2>1. \E in : link' = [link EXCEPT !.inbound = in]
    BY <1>3 DEF WatchConnectingHub, Report, GiveUp
  <2>2. UNCHANGED <<link.addr, link.port, link.target, link.tunnel, link.login>>
    BY <2>1 DEF TypeOK, Links
  <2>3. state = "CONNECTING_HUB" /\ state' = "READING_DATA" /\ phase' # "idle"
    BY <1>1, <1>3 DEF WatchConnectingHub, Polled, Report, Live
  <2> QED
    BY <1>1, <2>2, <2>3 DEF Stays, SpeaksGG
<1>4. CASE WatchTls /\ Report("READING_KEY", "NONE")
  <2>1. link' = [link EXCEPT !.secure = TRUE, !.inbound = "owed"]
    BY <1>4 DEF WatchTls, Report, GiveUp
  <2>2. UNCHANGED <<link.addr, link.port, link.target, link.tunnel>>
    BY <2>1 DEF TypeOK, Links
  <2>3. state = "TLS_NEGOTIATION" /\ state' = "READING_KEY" /\ phase' # "idle"
    BY <1>1, <1>4 DEF WatchTls, Polled, Report, Live
  <2> QED
    BY <1>1, <2>2, <2>3 DEF Stays
<1>5. CASE WatchKey
  <2>1. \E in, fate : link' = [link EXCEPT !.login = fate, !.inbound = in]
    BY <1>5 DEF WatchKey
  <2>2. UNCHANGED <<link.addr, link.port, link.target, link.tunnel>>
    BY <2>1 DEF TypeOK, Links
  <2>3. /\ state = "READING_KEY" /\ SpeaksGG
        /\ state' \in {"IDLE", "READING_REPLY"} /\ phase' # "idle"
    BY <1>1, <1>5 DEF WatchKey, Polled, Report, GiveUp, Live, SpeaksGG
  <2> QED
    BY <1>1, <2>2, <2>3 DEF Stays
<1>6. CASE WatchReply /\ Report("CONNECTED", "CONN_SUCCESS")
  <2>1. link' = [link EXCEPT !.inbound = "quiet"]
    BY <1>6 DEF WatchReply, Report, GiveUp
  <2>2. UNCHANGED <<link.addr, link.port, link.target, link.tunnel>>
    BY <2>1 DEF TypeOK, Links
  <2>3. state = "READING_REPLY" /\ state' = "CONNECTED" /\ phase' # "idle"
    BY <1>1, <1>6 DEF WatchReply, Polled, Report, Live
  <2> QED
    BY <1>1, <2>2, <2>3 DEF Stays
<1>7. CASE WatchConnected
  <2>1. \E in : link' = [link EXCEPT !.inbound = in]
    BY <1>7 DEF WatchConnected
  <2>2. UNCHANGED <<link.addr, link.port, link.target, link.tunnel>>
    BY <2>1 DEF TypeOK, Links
  <2>3. state = "CONNECTED" /\ state' = "CONNECTED" /\ phase' # "idle"
    BY <1>1, <1>7 DEF WatchConnected, Polled, Report, Live
  <2> QED
    BY <1>1, <2>2, <2>3 DEF Stays
<1> QED
  BY <1>2, <1>3, <1>4, <1>5, <1>6, <1>7
  DEF WatchConnectingHub, WatchTls, WatchKeyUnread, WatchReply

LEMMA OthersStay ==
  ASSUME TypeOK, Client \/ FarEnd \/ UNCHANGED vars
  PROVE  Stays
<1>1. UNCHANGED <<link.addr, link.port, link.target, link.tunnel, link.login>>
  <2>1. CASE link' = link
    BY <2>1
  <2>2. CASE \E in : link' = [link EXCEPT !.inbound = in]
    BY <2>2 DEF TypeOK, Links
  <2> QED
    BY <2>1, <2>2
    DEF Client, ChangeStatus, Logoff, FreeSession, FarEnd, Answers,
        ServerWrites, HangsUp, vars
<1>2. UNCHANGED <<p, state, route>> /\ (phase' = "idle" => phase = "idle")
  BY DEF Client, ChangeStatus, Logoff, FreeSession, FarEnd, Answers,
         ServerWrites, HangsUp, vars
<1> QED
  BY <1>1, <1>2 DEF Stays, SpeaksGG, UsesProxy

LEMMA RouteInvariant == Spec => []RouteInv
<1>1. Init => RouteInv
  BY DEF Init, NoLink, RouteInv, ProxyAsked, ServerKnown, HubKnown,
         ResolvingFirst, BareToServer, Bare, SpeaksGG, EndpointKnown
<1>2. TypeOK /\ LoginInv /\ RouteInv /\ [Next]_vars => RouteInv'
  BY ResolvingOnRoute, HubSilentOnRoute, HubAnswersOnRoute, ConnectingGGOnRoute,
     ProxyAnswerOnRoute, WatchStays, OthersStay, StaysOnRoute, LoginOnRoute
  DEF Next, Watch, Over
<1> QED
  BY <1>1, <1>2, TypeCorrect, LoginInvariant, PTL DEF Spec

\* On every route of gg_login() and gg_watch_fd() what is taken for a
\* Gadu-Gadu server is one, but for the case LeftAtProxy.
THEOREM TalksToServer == Spec => []SpeaksToServer
<1>1. RouteInv => SpeaksToServer
  BY DEF RouteInv, BareToServer, Bare, SpeaksToServer
<1> QED
  BY <1>1, RouteInvariant, PTL

\* sess->port is where the session is connected, also after the retry on
\* GG_HTTPS_PORT.
THEOREM PortKept == Spec => []PortRecorded
<1>1. RouteInv => PortRecorded
  BY DEF RouteInv, BareToServer, Bare, PortRecorded
<1> QED
  BY <1>1, RouteInvariant, PTL

\* Without a proxy, or with a server given, no step dials address 0, and no
\* proxy is asked for address 0 or for itself.
THEOREM AddressesKnown == Spec => []EndpointKnown
<1>1. RouteInv => EndpointKnown
  BY DEF RouteInv
<1> QED
  BY <1>1, RouteInvariant, PTL
=============================================================================
