--------------------------- MODULE Pubdir_proofs ---------------------------
(***************************************************************************)
(* Proofs about Http and Pubdir, for every size of queries and headers,    *)
(* every set of answers and every number of retries.  The invariant has a  *)
(* part for the request under way (WorkInv), one for what was read of its  *)
(* body (ReadInv), one for the client's structure (HoldInv) and one for    *)
(* the memory (HeapInv).                                                   *)
(***************************************************************************)
EXTENDS Pubdir, SequenceTheorems, TLAPS

RStates == {"CONNECTING", "SENDING_QUERY", "READING_HEADER", "READING_DATA", "PARSING", "ERROR"}

Bodies == Seq(Nat)

RSpace ==
    [id : {1, 2}, state : RStates, fd : BOOLEAN, query : 0 .. QuerySize, header : Nat,
     body : Bodies \cup {NULL}, bodySize : Nat,
     error : {NULL, "WRITING", "READING", "CONNECTING"}]

LinkSpace == [answer : Answers, sent : Nat, given : Nat]

Parts == {"struct", "query", "header", "body", "data", "tokenid"}

(* A request is under way in gg_http_connect(), and has its socket.        *)
Busy == pc \in {"first", "second"}

WorkInv ==
    /\ stray \in Nat
    /\ ~Busy => r = NoRequest /\ open = stray
    /\ Busy =>
          /\ r \in RSpace /\ link \in LinkSpace
          /\ r.id = IF pc = "first" THEN 1 ELSE 2
          /\ open = IF r.fd THEN stray + 1 ELSE stray
          /\ r.state \in {"PARSING", "ERROR"} => ~r.fd

(* What was read of header and body.                                       *)
ReadInv ==
    Busy =>
        /\ r.state \in {"CONNECTING", "SENDING_QUERY"} => link.given = 0 /\ r.header = 0
        /\ r.state = "READING_HEADER" => link.given = r.header
        /\ r.state \in {"READING_DATA", "PARSING"} =>
              /\ \E n \in Nat : r.body = UpTo(n) /\ link.given = HeaderSize + n
              /\ link.sent = QuerySize /\ link.answer.ok
              /\ r.bodySize >= link.answer.length
        /\ r.state = "PARSING" =>
              link.given = link.answer.cut /\ Len(r.body) >= r.bodySize

DataSpace == {<<>>} \cup {<<b>> : b \in BOOLEAN} \cup {<<s>> : s \in Seq(Nat)}

HSpace == [state : {"PARSING", "DONE"}, id : {1, 2}, body : Seq(Nat), data : DataSpace]

(* What the client holds, and which answers it comes from.                 *)
HoldInv ==
    /\ pc \in Pcs /\ op \in [kind : Kinds, async : BOOLEAN] /\ res \in {0, -1}
    /\ retries \in 0 .. MaxRetries
    /\ told \in Seq(Answers)
    /\ pc \in {"idle", "first", "failed"} => h = NoRequest /\ told = <<>>
    /\ pc = "freed" => h = NoRequest /\ Len(told) \in {1, 2}
    /\ pc \in {"second", "watch", "client"} =>
          /\ h \in HSpace
          /\ Len(told) = h.id
          /\ h.id = 1 => Len(h.body) >= told[1].length
          /\ h.id = 1 /\ op.kind = "token" => h.data = <<>> /\ h.state = "PARSING"
          /\ h.id = 2 =>
                /\ op.kind = "token" /\ h.data # <<>> /\ pc # "second"
                /\ h.data[1] \in Seq(Nat)
                /\ Len(h.data[1]) >= told[1].length /\ Len(h.body) >= told[2].length
                /\ Whole(h.data[1], told[1]) => told[1].sound
          /\ h.state = "DONE" /\ op.kind # "token" => (h.data[1] => told[1].sound)
    /\ pc = "second" =>
          op.kind = "token" /\ (Whole(h.body, told[1]) => told[1].sound)

First == {<<1, "struct">>, <<1, "header">>, <<1, "body">>}
Second == First \cup {<<2, "header">>, <<2, "body">>, <<2, "data">>, <<2, "tokenid">>}

(* The memory of the request under way, over what was there before it.     *)
Base == IF pc = "first" THEN {} ELSE First

Working(base) ==
    /\ base \subseteq heap /\ heap \subseteq base \cup Released(r)
    /\ <<r.id, "struct">> \in heap
    /\ r.state \in {"READING_HEADER", "READING_DATA", "PARSING"} => <<r.id, "query">> \notin heap
    /\ r.state \in {"READING_DATA", "PARSING"} =>
          <<r.id, "header">> \in heap /\ <<r.id, "body">> \in heap

HeapInv ==
    /\ pc \in {"idle", "failed"} => heap = {}
    /\ Busy => Working(Base)
    /\ pc \in {"watch", "client"} =>
          heap = IF h.id = 2 THEN Second
                 ELSE IF h.data = <<>> THEN First ELSE First \cup {<<1, "data">>}
    /\ pc = "freed" => heap = IF Len(told) = 2 THEN {<<1, "body">>, <<1, "header">>} ELSE {}

IInv == WorkInv /\ ReadInv /\ HoldInv /\ HeapInv

-----------------------------------------------------------------------------
(* The initial states have the invariant.                                  *)
LEMMA InitIInv == Init => IInv
  BY RetriesAssumption
  DEF Init, IInv, Busy, WorkInv, ReadInv, HoldInv, HeapInv, Pcs, Kinds

(* UpTo(n) is the sequence of the first n numbers, and one is continued by *)
(* the numbers that follow.                                                *)
LEMMA UpToSeq ==
  ASSUME NEW n \in Nat
  PROVE  UpTo(n) \in Seq(Nat) /\ Len(UpTo(n)) = n
  BY DEF UpTo

After(n, m) == [i \in 1 .. m |-> n + i]

LEMMA UpToGoesOn ==
  \A n \in Nat, m \in Nat : UpTo(n) \o After(n, m) = UpTo(n + m)
<1> TAKE n \in Nat, m \in Nat
<1> DEFINE s == [i \in 1 .. m |-> n + i]
           c == UpTo(n) \o s
<1>1. s \in Seq(Nat) /\ Len(s) = m
  OBVIOUS
<1>2. UpTo(n) \in Seq(Nat) /\ Len(UpTo(n)) = n
  BY UpToSeq
<1>3. /\ c \in Seq(Nat) /\ Len(c) = n + m
      /\ \A i \in 1 .. n + m : c[i] = IF i <= n THEN UpTo(n)[i] ELSE s[i - n]
  <2>. DEFINE u == UpTo(n)
  <2>1. u \in Seq(Nat) /\ Len(u) = n
    BY <1>2
  <2>. HIDE DEF u, s
  <2>2. /\ u \o s \in Seq(Nat) /\ Len(u \o s) = Len(u) + Len(s)
        /\ \A i \in 1 .. Len(u) + Len(s) :
              (u \o s)[i] = IF i <= Len(u) THEN u[i] ELSE s[i - Len(u)]
    BY <1>1, <2>1, ConcatProperties
  <2>3. /\ u \o s \in Seq(Nat) /\ Len(u \o s) = n + m
        /\ \A i \in 1 .. n + m : (u \o s)[i] = IF i <= n THEN u[i] ELSE s[i - n]
    BY <1>1, <2>1, <2>2
  <2>. QED
    BY <2>3 DEF u
<1>4. \A i \in 1 .. n + m : c[i] = i
  <2>1. \A i \in 1 .. n : UpTo(n)[i] = i
    BY DEF UpTo
  <2>2. \A i \in 1 .. m : s[i] = n + i
    OBVIOUS
  <2>. DEFINE u == UpTo(n)
  <2>3. \A i \in 1 .. n : u[i] = i
    BY <2>1
  <2>4. \A i \in 1 .. n + m : c[i] = IF i <= n THEN u[i] ELSE s[i - n]
    BY <1>3
  <2>. HIDE DEF c, s, u
  <2>5. ASSUME NEW i \in 1 .. n + m PROVE c[i] = i
    <3>1. CASE i <= n
      BY <2>3, <2>4, <3>1
    <3>2. CASE i > n
      <4>1. i - n \in 1 .. m
        BY <3>2
      <4>2. s[i - n] = n + (i - n)
        BY <2>2, <4>1
      <4>. QED
        BY <2>4, <3>2, <4>2
    <3>. QED
      BY <3>1, <3>2
  <2>. QED
    BY <2>5
<1>. HIDE DEF c
<1>5. c \in [1 .. n + m -> Nat]
  <2>1. c \in Seq(Nat) /\ Len(c) = n + m
    BY <1>3
  <2>2. c \in [1 .. Len(c) -> Nat]
    BY <2>1, LenProperties
  <2>. QED
    BY <2>1, <2>2
<1>6. c = [i \in 1 .. n + m |-> i]
  BY <1>4, <1>5
<1>. QED
  BY <1>6 DEF c, UpTo, After

(* What read() returns, and what it says about the connection.             *)
LEMMA ReadFacts ==
  ASSUME Busy, WorkInv, NEW got \in ReadResults
  PROVE  /\ got \in Int /\ (got = -1 \/ got = 0 \/ got > 0)
         /\ got > 0 => r.fd /\ link.sent = QuerySize
         /\ got = 0 => r.fd /\ link.given = Arriving
  <1>1. r \in RSpace /\ link \in LinkSpace
    BY DEF WorkInv
  <1>2. link.answer \in AnswerSpace
    BY <1>1, AnswersAssumption DEF LinkSpace
  <1>3. Arriving \in Nat /\ link.given \in Nat /\ BufSize \in Nat \ {0}
    BY <1>1, <1>2, SizesAssumption DEF Arriving, LinkSpace, AnswerSpace
  <1>4. CASE ~r.fd
    BY <1>4 DEF ReadResults
  <1>5. CASE r.fd /\ link.given = Arriving
    BY <1>5 DEF ReadResults
  <1>6. CASE r.fd /\ link.given # Arriving
    <2>1. got \in 1 .. (IF BufSize <= Arriving - link.given THEN BufSize
                        ELSE Arriving - link.given)
      BY <1>6 DEF ReadResults
    <2>2. got \in Int /\ got > 0 /\ Arriving > 0
      BY <1>3, <2>1
    <2>. QED
      BY <1>6, <2>2 DEF Arriving
  <1>. QED
    BY <1>1, <1>4, <1>5, <1>6 DEF RSpace

-----------------------------------------------------------------------------
(* What the client holds does not change inside gg_http_connect().         *)
ClientSame == UNCHANGED <<pc, op, h, res, told, retries>>

LEMMA HoldSame ==
  ASSUME HoldInv, ClientSame
  PROVE  HoldInv'
  BY DEF HoldInv, ClientSame, Pcs, Kinds, HSpace, DataSpace, Whole

(* gg_http_error() closes the socket and takes the request to its end.     *)
LEMMA ErrorKeepsWork ==
  ASSUME Busy, WorkInv, NEW e \in {"WRITING", "READING", "CONNECTING"}, HttpError(e),
         ClientSame, link' \in LinkSpace
  PROVE  WorkInv' /\ ReadInv' /\ r'.id = r.id /\ r'.state = "ERROR"
<1>1. r \in RSpace
  BY DEF WorkInv
<1>2. r' \in RSpace /\ r'.id = r.id /\ r'.state = "ERROR" /\ r'.fd = FALSE
  BY <1>1 DEF HttpError, RSpace, RStates
<1>3. open' = stray /\ stray' = stray /\ stray \in Nat
  BY <1>1 DEF HttpError, WorkInv, RSpace
<1>4. WorkInv'
  BY <1>2, <1>3 DEF WorkInv, Busy, ClientSame
<1>. QED
  BY <1>2, <1>4 DEF ReadInv

(* A step of sending changes the rest of the query and the state.          *)
Sends(x, q, s) == [x EXCEPT !.query = q, !.state = s]

LEMMA RequestSent ==
  \A x \in RSpace, q \in 0 .. QuerySize, s \in RStates :
      /\ Sends(x, q, s) \in RSpace
      /\ Sends(x, q, s).id = x.id /\ Sends(x, q, s).state = s
      /\ Sends(x, q, s).header = x.header /\ Sends(x, q, s).fd = x.fd
<1> SUFFICES ASSUME NEW x \in RSpace, NEW q \in 0 .. QuerySize, NEW s \in RStates
             PROVE  /\ Sends(x, q, s) \in RSpace
                    /\ Sends(x, q, s).id = x.id /\ Sends(x, q, s).state = s
                    /\ Sends(x, q, s).header = x.header /\ Sends(x, q, s).fd = x.fd
  OBVIOUS
<1> DEFINE y == Sends(x, q, s)
<1>1. y \in RSpace
  BY DEF Sends, RSpace
<1>2. y.id = x.id /\ y.state = s /\ y.header = x.header
  BY DEF Sends, RSpace
<1>3. y.fd = x.fd
  BY DEF Sends, RSpace
<1>. QED
  BY <1>1, <1>2, <1>3

LEMMA SendingKeeps ==
  ASSUME IInv, Busy, WatchSending, ClientSame
  PROVE  IInv'
<1>1. r \in RSpace /\ link \in LinkSpace /\ Working(Base) /\ QuerySize \in Nat
  BY SizesAssumption DEF IInv, WorkInv, HeapInv
<1>2. PICK n \in Written(r.query) :
        /\ r.state \in {"CONNECTING", "SENDING_QUERY"}
        /\ IF n = 0 THEN HttpError("WRITING") /\ UNCHANGED <<link, heap>>
           ELSE /\ IF n # -1 /\ n < r.query
                   THEN /\ r' = [r EXCEPT !.query = @ - n, !.state = "SENDING_QUERY"]
                        /\ UNCHANGED heap
                   ELSE /\ r' = [r EXCEPT !.query = 0, !.state = "READING_HEADER"]
                        /\ heap' = heap \ {<<r.id, "query">>}
                /\ link' = [link EXCEPT !.sent = IF n > 0 THEN @ + n ELSE @]
                /\ UNCHANGED <<open, stray>>
  BY DEF WatchSending
<1>3. n \in -1 .. r.query /\ r.query \in 0 .. QuerySize
  BY <1>1 DEF Written, RSpace
<1>4. HoldInv'
  BY HoldSame DEF IInv
<1>5. CASE n = 0
  <2>1. HttpError("WRITING") /\ UNCHANGED <<link, heap>>
    BY <1>2, <1>5
  <2>2. WorkInv' /\ ReadInv' /\ r'.id = r.id /\ r'.state = "ERROR"
    BY <1>1, <2>1, ErrorKeepsWork DEF IInv
  <2>3. HeapInv'
    BY <1>1, <2>1, <2>2 DEF HeapInv, Working, Base, Busy, ClientSame, Released, Fields
  <2>. QED
    BY <1>4, <2>2, <2>3 DEF IInv
<1>6. CASE n # 0
  <2>1. link' \in LinkSpace /\ link'.answer = link.answer /\ link'.given = link.given
        /\ open' = open /\ stray' = stray
    BY <1>1, <1>2, <1>3, <1>6 DEF LinkSpace
  <2>2. CASE n # -1 /\ n < r.query
    <3>1. /\ r' = [r EXCEPT !.query = @ - n, !.state = "SENDING_QUERY"]
          /\ heap' = heap
      BY <1>2, <1>6, <2>2
    <3>2. r' \in RSpace /\ r'.id = r.id /\ r'.state = "SENDING_QUERY" /\ r'.fd = r.fd
          /\ r'.header = r.header
      <4>1. r.query - n \in 0 .. QuerySize
        BY <1>1, <1>3, <1>6, <2>2
      <4>2. "SENDING_QUERY" \in RStates
        BY DEF RStates
      <4>3. r' = Sends(r, r.query - n, "SENDING_QUERY")
        BY <3>1 DEF Sends
      <4>. QED
        BY <1>1, <4>1, <4>2, <4>3, RequestSent
    <3>3. WorkInv'
      BY <2>1, <3>2 DEF IInv, WorkInv, Busy, ClientSame
    <3>4. ReadInv'
      BY <1>2, <2>1, <3>2 DEF IInv, ReadInv, Busy, ClientSame
    <3>5. HeapInv'
      BY <1>1, <3>1, <3>2 DEF HeapInv, Working, Base, Busy, ClientSame, Released, Fields
    <3>. QED
      BY <1>4, <3>3, <3>4, <3>5 DEF IInv
  <2>3. CASE ~(n # -1 /\ n < r.query)
    <3>1. /\ r' = [r EXCEPT !.query = 0, !.state = "READING_HEADER"]
          /\ heap' = heap \ {<<r.id, "query">>}
      BY <1>2, <1>6, <2>3
    <3>2. r' \in RSpace /\ r'.id = r.id /\ r'.state = "READING_HEADER" /\ r'.fd = r.fd
          /\ r'.header = r.header
      <4>1. 0 \in 0 .. QuerySize /\ "READING_HEADER" \in RStates
        BY <1>1 DEF RStates
      <4>2. r' = Sends(r, 0, "READING_HEADER")
        BY <3>1 DEF Sends
      <4>. QED
        BY <1>1, <4>1, <4>2, RequestSent
    <3>3. WorkInv'
      BY <2>1, <3>2 DEF IInv, WorkInv, Busy, ClientSame
    <3>4. ReadInv'
      BY <1>2, <2>1, <3>2 DEF IInv, ReadInv, Busy, ClientSame
    <3>5. HeapInv'
      BY <1>1, <3>1, <3>2
      DEF HeapInv, Working, Base, First, Busy, ClientSame, Released, Fields
    <3>. QED
      BY <1>4, <3>3, <3>4, <3>5 DEF IInv
  <2>. QED
    BY <2>2, <2>3
<1>. QED
  BY <1>5, <1>6

(* A step of reading the header: more of it, or all of it and the          *)
(* beginning of the body.                                                  *)
Heads(x, n) == [x EXCEPT !.header = n]
HeadDone(x, n, b, size) ==
    [x EXCEPT !.header = n, !.state = "READING_DATA", !.body = b, !.bodySize = size]

LEMMA HeaderRead ==
  \A x \in RSpace, n \in Nat :
      /\ Heads(x, n) \in RSpace
      /\ Heads(x, n).id = x.id /\ Heads(x, n).state = x.state /\ Heads(x, n).header = n
      /\ Heads(x, n).fd = x.fd
<1> SUFFICES ASSUME NEW x \in RSpace, NEW n \in Nat
             PROVE  /\ Heads(x, n) \in RSpace
                    /\ Heads(x, n).id = x.id /\ Heads(x, n).state = x.state
                    /\ Heads(x, n).header = n
                    /\ Heads(x, n).fd = x.fd
  OBVIOUS
<1> DEFINE y == Heads(x, n)
<1>1. y \in RSpace
  BY DEF Heads, RSpace
<1>2. y.id = x.id /\ y.state = x.state /\ y.header = n
  BY DEF Heads, RSpace
<1>3. y.fd = x.fd
  BY DEF Heads, RSpace
<1>. QED
  BY <1>1, <1>2, <1>3

LEMMA BodyBegun ==
  \A x \in RSpace, n \in Nat, size \in Nat, b \in Bodies :
      /\ HeadDone(x, n, b, size) \in RSpace
      /\ HeadDone(x, n, b, size).id = x.id
      /\ HeadDone(x, n, b, size).state = "READING_DATA"
      /\ HeadDone(x, n, b, size).body = b
      /\ HeadDone(x, n, b, size).bodySize = size
      /\ HeadDone(x, n, b, size).fd = x.fd
<1> TAKE x \in RSpace, n \in Nat, size \in Nat, b \in Bodies
<1> DEFINE y == HeadDone(x, n, b, size)
<1>1. y \in RSpace
  BY DEF HeadDone, RSpace, RStates
<1>2. y.id = x.id /\ y.state = "READING_DATA" /\ y.body = b /\ y.bodySize = size
  BY DEF HeadDone, RSpace
<1>3. y.fd = x.fd
  BY DEF HeadDone, RSpace
<1>. QED
  BY <1>1, <1>2, <1>3

(* The announced length is a number no body is longer than, and not less   *)
(* than what was announced.                                                *)
LEMMA AnnouncedEnough ==
  ASSUME link.answer \in Answers, NEW left \in Nat
  PROVE  Announced(left) \in Nat /\ Announced(left) >= link.answer.length
<1> DEFINE length == link.answer.length
<1>1. Word \in Nat \ {0} /\ length \in -Word .. Word - 1
  BY SizesAssumption, AnswersAssumption
<1>2. length % Word \in Nat /\ length % Word >= length
  <2>1. length \in Int
    BY <1>1
  <2>2. length % Word \in 0 .. Word - 1
    BY <1>1, <2>1
  <2>3. CASE length < 0
    BY <1>1, <2>1, <2>2, <2>3
  <2>4. CASE length >= 0
    <3>1. length % Word = length
      BY <1>1, <2>1, <2>4
    <3>. QED
      BY <2>1, <2>4, <3>1
  <2>. QED
    BY <2>1, <2>3, <2>4
<1>. QED
  BY <1>1, <1>2 DEF Announced

LEMMA HeaderKeeps ==
  ASSUME IInv, Busy, WatchHeader, ClientSame
  PROVE  IInv'
<1> DEFINE length == link.answer.length
<1>1. /\ r \in RSpace /\ link \in LinkSpace /\ Working(Base)
      /\ HeaderSize \in Nat /\ link.answer \in AnswerSpace
  BY SizesAssumption, AnswersAssumption DEF IInv, WorkInv, HeapInv, LinkSpace
<1>2. PICK n \in ReadResults :
        /\ r.state = "READING_HEADER"
        /\ link' = [link EXCEPT !.given = IF n > 0 THEN @ + n ELSE @]
        /\ IF n \in {-1, 0}
           THEN HttpError("READING") /\ heap' = heap \ {<<r.id, "header">>}
           ELSE HeaderHas(r.header + n)
  BY DEF WatchHeader
<1>3. /\ n \in Int /\ (n = -1 \/ n = 0 \/ n > 0)
      /\ n > 0 => r.fd /\ link.sent = QuerySize
  BY ReadFacts DEF IInv
<1>4. HoldInv'
  BY HoldSame DEF IInv
<1>5. /\ link' \in LinkSpace /\ link'.answer = link.answer /\ link'.sent = link.sent
      /\ link'.given = IF n > 0 THEN link.given + n ELSE link.given
  BY <1>1, <1>2, <1>3 DEF LinkSpace
<1>6. link.given = r.header /\ r.header \in Nat
  BY <1>1, <1>2 DEF IInv, ReadInv, RSpace
<1>7. ASSUME NEW e \in {"READING", "CONNECTING"}, HttpError(e),
             heap' = heap \ {<<r.id, "header">>}
      PROVE  IInv'
  <2>1. WorkInv' /\ ReadInv' /\ r'.id = r.id /\ r'.state = "ERROR"
    BY <1>5, <1>7, ErrorKeepsWork DEF IInv
  <2>2. <<r.id, "header">> \notin Base
    BY DEF IInv, WorkInv, Base, First, Busy
  <2>3. HeapInv'
    BY <1>1, <1>7, <2>1, <2>2 DEF HeapInv, Working, Base, Busy, ClientSame, Released, Fields
  <2>. QED
    BY <1>4, <2>1, <2>3 DEF IInv
<1>8. CASE n > 0 /\ HeaderGoesOn(r.header + n)
  <2>1. /\ r' = Heads(r, r.header + n) /\ heap' = heap \cup {<<r.id, "header">>}
        /\ open' = open /\ stray' = stray
    BY <1>8 DEF HeaderGoesOn, Heads
  <2>2. r.header + n \in Nat
    BY <1>3, <1>6, <1>8
  <2>3. r' \in RSpace /\ r'.id = r.id /\ r'.state = "READING_HEADER" /\ r'.fd = r.fd
        /\ r'.header = r.header + n
    BY <1>1, <1>2, <2>1, <2>2, HeaderRead
  <2>4. WorkInv'
    BY <1>5, <2>1, <2>3 DEF IInv, WorkInv, Busy, ClientSame
  <2>5. ReadInv'
    BY <1>5, <1>6, <1>8, <2>3 DEF ReadInv
  <2>6. HeapInv'
    BY <1>1, <1>2, <2>1, <2>3
    DEF HeapInv, Working, Base, Busy, ClientSame, Released, Fields
  <2>. QED
    BY <1>4, <2>4, <2>5, <2>6 DEF IInv
<1>9. CASE n > 0 /\ HeaderEnds(r.header + n)
  <2> DEFINE m == r.header + n
             left == m - HeaderSize
             b == UpTo(left)
             size == Announced(left)
  <2>1. /\ r' = HeadDone(r, m, b, size)
        /\ heap' = heap \cup {<<r.id, "header">>, <<r.id, "body">>}
        /\ open' = open /\ stray' = stray
    BY <1>9 DEF HeaderEnds, HeadDone
  <2>2. /\ m \in Nat /\ left \in Nat /\ size \in Nat /\ size >= length
        /\ m = HeaderSize + left
    <3>1. m \in Nat /\ left \in Nat /\ m = HeaderSize + left
      BY <1>1, <1>3, <1>6, <1>9 DEF HeaderEnds
    <3>2. link.answer \in Answers
      BY <1>1 DEF LinkSpace
    <3>. HIDE DEF left
    <3>3. Announced(left) \in Nat /\ Announced(left) >= link.answer.length
      BY <3>1, <3>2, AnnouncedEnough
    <3>. QED
      BY <3>1, <3>3
  <2>3. b \in Bodies /\ b = UpTo(left)
    BY <2>2, UpToSeq DEF Bodies
  <2>. HIDE DEF left, size, b, m
  <2>4. r' \in RSpace /\ r'.id = r.id /\ r'.state = "READING_DATA" /\ r'.fd = r.fd
        /\ r'.body = b /\ r'.bodySize = size
    <3>1. r \in RSpace /\ m \in Nat /\ size \in Nat /\ b \in Bodies
      BY <1>1, <2>2, <2>3
    <3>2. r' = HeadDone(r, m, b, size)
      BY <2>1
    <3>3. r' \in RSpace
      BY <3>1, <3>2, BodyBegun
    <3>4. r'.id = r.id /\ r'.state = "READING_DATA" /\ r'.body = b
      BY <3>1, <3>2, BodyBegun
    <3>5. r'.bodySize = size
      BY <3>1, <3>2, BodyBegun
    <3>6. r'.fd = r.fd
      BY <3>1, <3>2, BodyBegun
    <3>. QED
      BY <3>3, <3>4, <3>5, <3>6
  <2>5. WorkInv'
    BY <1>5, <2>1, <2>4 DEF IInv, WorkInv, Busy, ClientSame
  <2>6. link'.given = HeaderSize + left
    BY <1>1, <1>3, <1>5, <1>6, <1>9, <2>2 DEF m
  <2>7. ReadInv'
    <3>1. link.answer.ok
      BY <1>9 DEF HeaderEnds
    <3>. QED
      BY <1>3, <1>5, <1>9, <3>1, <2>2, <2>3, <2>4, <2>6 DEF ReadInv
  <2>8. HeapInv'
    BY <1>1, <1>2, <2>1, <2>4
    DEF HeapInv, Working, Base, Busy, ClientSame, Released, Fields
  <2>. QED
    BY <1>4, <2>5, <2>7, <2>8 DEF IInv
<1>10. CASE n \in {-1, 0}
  BY <1>2, <1>7, <1>10
<1>11. ASSUME n > 0, NEW e \in {"CONNECTING", "READING"}, HeaderFails(r.header + n, e)
       PROVE  IInv'
  BY <1>7, <1>11 DEF HeaderFails
<1>12. n > 0 => HeaderHas(r.header + n)
  BY <1>2, <1>3
<1>. QED
  BY <1>3, <1>8, <1>9, <1>10, <1>11, <1>12 DEF HeaderHas

(* A step of reading the body: more of it, or its end.                     *)
Grows(x, b, size) == [x EXCEPT !.body = b, !.bodySize = size]
Ends(x) == [x EXCEPT !.state = "PARSING", !.fd = FALSE]

LEMMA BodyGrown ==
  \A x \in RSpace, size \in Nat, b \in Bodies :
      /\ Grows(x, b, size) \in RSpace
      /\ Grows(x, b, size).id = x.id /\ Grows(x, b, size).state = x.state
      /\ Grows(x, b, size).body = b /\ Grows(x, b, size).bodySize = size
      /\ Grows(x, b, size).fd = x.fd
<1> TAKE x \in RSpace, size \in Nat, b \in Bodies
<1> DEFINE y == Grows(x, b, size)
<1>1. y \in RSpace
  BY DEF Grows, RSpace
<1>2. y.id = x.id /\ y.state = x.state /\ y.body = b /\ y.bodySize = size
  BY DEF Grows, RSpace
<1>3. y.fd = x.fd
  BY DEF Grows, RSpace
<1>. QED
  BY <1>1, <1>2, <1>3

LEMMA BodyEnded ==
  \A x \in RSpace :
      /\ Ends(x) \in RSpace
      /\ Ends(x).id = x.id /\ Ends(x).state = "PARSING" /\ Ends(x).body = x.body
      /\ Ends(x).bodySize = x.bodySize /\ Ends(x).fd = FALSE
  BY DEF Ends, RSpace, RStates

LEMMA DataKeeps ==
  ASSUME IInv, Busy, WatchData, ClientSame
  PROVE  IInv'
<1> DEFINE b(n) == r.body \o After(link.given - HeaderSize, n)
           size(n) == IF Len(r.body) + n > r.bodySize THEN Len(r.body) + n ELSE r.bodySize
<1>1. /\ r \in RSpace /\ link \in LinkSpace /\ Working(Base)
      /\ HeaderSize \in Nat /\ link.answer \in AnswerSpace
  BY SizesAssumption, AnswersAssumption DEF IInv, WorkInv, HeapInv, LinkSpace
<1>2. PICK n \in ReadResults :
        /\ r.state = "READING_DATA"
        /\ link' = [link EXCEPT !.given = IF n > 0 THEN @ + n ELSE @]
        /\ IF n > 0
           THEN r' = Grows(r, b(n), size(n)) /\ UNCHANGED <<heap, open, stray>>
           ELSE IF n = 0 /\ Enough(r)
           THEN r' = Ends(r) /\ open' = open - 1 /\ UNCHANGED <<heap, stray>>
           ELSE HttpError("READING") /\ heap' = heap \ {<<r.id, "body">>}
  BY Zenon DEF WatchData, Grows, Ends, After
<1>3. /\ n \in Int /\ (n = -1 \/ n = 0 \/ n > 0)
      /\ n = 0 => r.fd /\ link.given = Arriving
  BY ReadFacts DEF IInv
<1>4. HoldInv'
  BY HoldSame DEF IInv
<1>5. /\ link' \in LinkSpace /\ link'.answer = link.answer /\ link'.sent = link.sent
      /\ link'.given = IF n > 0 THEN link.given + n ELSE link.given
  BY <1>1, <1>2, <1>3 DEF LinkSpace
<1>6. /\ link.sent = QuerySize /\ link.answer.ok /\ r.bodySize >= link.answer.length
      /\ \E k \in Nat : r.body = UpTo(k) /\ link.given = HeaderSize + k
  BY <1>2 DEF IInv, ReadInv
<1>7. PICK k \in Nat : r.body = UpTo(k) /\ link.given = HeaderSize + k
  BY <1>6
<1>8. Len(r.body) = k /\ r.bodySize \in Nat /\ link.answer.length \in Int
  BY <1>1, <1>7, UpToSeq DEF RSpace, AnswerSpace
<1>9. CASE n > 0
  <2>1. /\ r' = Grows(r, b(n), size(n)) /\ heap' = heap /\ open' = open
        /\ stray' = stray
    BY <1>2, <1>9
  <2>2. b(n) = UpTo(k + n)
    <3>1. link.given - HeaderSize = k
      BY <1>1, <1>7
    <3>2. UpTo(k) \o After(k, n) = UpTo(k + n)
      <4>1. k \in Nat /\ n \in Nat
        BY <1>3, <1>9
      <4>. QED
        BY <4>1, UpToGoesOn
    <3>. QED
      BY <1>7, <3>1, <3>2
  <2>3. b(n) \in Bodies
    <3>1. k + n \in Nat
      BY <1>3, <1>9
    <3>. HIDE DEF b
    <3>. QED
      BY <2>2, <3>1, UpToSeq DEF Bodies
  <2>4. size(n) \in Nat /\ size(n) >= r.bodySize
    BY <1>3, <1>8, <1>9
  <2>. HIDE DEF b, size
  <2>5. r' \in RSpace /\ r'.id = r.id /\ r'.state = "READING_DATA" /\ r'.fd = r.fd
        /\ r'.body = b(n) /\ r'.bodySize = size(n)
    BY <1>1, <1>2, <2>1, <2>3, <2>4, BodyGrown
  <2>6. WorkInv'
    BY <1>5, <2>1, <2>5 DEF IInv, WorkInv, Busy, ClientSame
  <2>7. link'.given = HeaderSize + (k + n) /\ k + n \in Nat
    BY <1>1, <1>3, <1>5, <1>7, <1>9
  <2>8. r'.bodySize >= link'.answer.length
    BY <1>5, <1>6, <1>8, <2>4, <2>5
  <2>9. ReadInv'
    BY <1>5, <1>6, <2>2, <2>5, <2>7, <2>8 DEF ReadInv
  <2>10. HeapInv'
    BY <1>1, <1>2, <2>1, <2>5
    DEF HeapInv, Working, Base, Busy, ClientSame, Released, Fields
  <2>. QED
    BY <1>4, <2>6, <2>9, <2>10 DEF IInv
<1>10. CASE n = 0 /\ Enough(r)
  <2>1. r' = Ends(r) /\ open' = open - 1 /\ heap' = heap /\ stray' = stray
    BY <1>2, <1>10
  <2>2. r' \in RSpace /\ r'.id = r.id /\ r'.state = "PARSING" /\ r'.body = r.body
        /\ r'.bodySize = r.bodySize /\ r'.fd = FALSE
    BY <1>1, <2>1, BodyEnded
  <2>3. open = stray + 1 /\ stray \in Nat
    BY <1>3, <1>10 DEF IInv, WorkInv
  <2>4. WorkInv'
    BY <1>5, <2>1, <2>2, <2>3 DEF IInv, WorkInv, Busy, ClientSame
  <2>5. link'.given = link'.answer.cut /\ link'.given = link.given
    BY <1>3, <1>5, <1>6, <1>10 DEF Arriving
  <2>6. ReadInv'
    BY <1>5, <1>6, <1>7, <1>10, <2>2, <2>5 DEF ReadInv, Enough
  <2>7. HeapInv'
    BY <1>1, <1>2, <2>1, <2>2
    DEF HeapInv, Working, Base, Busy, ClientSame, Released, Fields
  <2>. QED
    BY <1>4, <2>4, <2>6, <2>7 DEF IInv
<1>11. CASE ~(n > 0) /\ ~(n = 0 /\ Enough(r))
  <2>1. HttpError("READING") /\ heap' = heap \ {<<r.id, "body">>}
    BY <1>2, <1>11
  <2>2. WorkInv' /\ ReadInv' /\ r'.id = r.id /\ r'.state = "ERROR"
    BY <1>5, <2>1, ErrorKeepsWork DEF IInv
  <2>3. <<r.id, "body">> \notin Base
    BY DEF IInv, WorkInv, Base, First, Busy
  <2>4. HeapInv'
    BY <1>1, <2>1, <2>2, <2>3 DEF HeapInv, Working, Base, Busy, ClientSame, Released, Fields
  <2>. QED
    BY <1>4, <2>2, <2>4 DEF IInv
<1>. QED
  BY <1>9, <1>10, <1>11

-----------------------------------------------------------------------------
(* A request that begins has its socket or not, and its memory.            *)
Begun(id, connected) ==
    [id |-> id, state |-> "CONNECTING", fd |-> connected, query |-> QuerySize,
     header |-> 0, body |-> NULL, bodySize |-> 0, error |-> NULL]

LEMMA RequestBegun ==
  \A id \in {1, 2}, connected \in BOOLEAN :
      /\ Begun(id, connected) \in RSpace
      /\ Begun(id, connected).id = id /\ Begun(id, connected).state = "CONNECTING"
      /\ Begun(id, connected).header = 0
      /\ Begun(id, connected).fd = connected
<1> TAKE id \in {1, 2}, connected \in BOOLEAN
<1>1. QuerySize \in Nat
  BY SizesAssumption
<1>2. Begun(id, connected) \in RSpace
  BY <1>1 DEF Begun, RSpace, RStates
<1>. QED
  BY <1>2 DEF Begun

LEMMA WorkBegins ==
  ASSUME ~Busy, WorkInv, NEW id \in {1, 2}, HttpBegins(id),
         pc' = IF id = 1 THEN "first" ELSE "second"
  PROVE  /\ WorkInv' /\ ReadInv' /\ r'.id = id /\ r'.state = "CONNECTING"
         /\ heap' = heap \cup {<<id, "struct">>, <<id, "query">>}
<1>1. PICK answer \in Answers, outcome \in {"connected", "refused", "unbound"} :
        /\ r' = Begun(id, outcome = "connected")
        /\ link' = [answer |-> answer, sent |-> 0, given |-> 0]
        /\ heap' = heap \cup {<<id, "struct">>, <<id, "query">>}
        /\ open' = IF outcome = "refused" THEN open ELSE open + 1
        /\ stray' = IF outcome = "unbound" THEN stray + 1 ELSE stray
  BY DEF HttpBegins, Begun
<1>2. r' \in RSpace /\ r'.id = id /\ r'.state = "CONNECTING" /\ r'.header = 0
  BY <1>1, RequestBegun
<1>3. r'.fd = (outcome = "connected")
  BY <1>1, RequestBegun
<1>4. link' \in LinkSpace /\ link'.given = 0
  BY <1>1 DEF LinkSpace
<1>5. open = stray /\ stray \in Nat
  BY DEF WorkInv
<1>6. stray' \in Nat /\ open' = IF r'.fd THEN stray' + 1 ELSE stray'
  <2>1. CASE outcome = "connected"
    <3>1. r'.fd = TRUE
      BY <1>3, <2>1
    <3>2. open' = open + 1 /\ stray' = stray
      BY <1>1, <2>1
    <3>. QED
      BY <1>5, <3>1, <3>2
  <2>2. CASE outcome # "connected"
    <3>1. r'.fd = FALSE
      BY <1>3, <2>2, Zenon
    <3>2. open' = stray' /\ stray' \in Nat
      BY <1>1, <1>5, <2>2
    <3>. QED
      BY <3>1, <3>2
  <2>. QED
    BY <2>1, <2>2
<1>7. WorkInv'
  BY <1>2, <1>4, <1>6 DEF WorkInv, Busy
<1>8. ReadInv'
  BY <1>2, <1>4 DEF ReadInv
<1>. QED
  BY <1>1, <1>2, <1>7, <1>8

LEMMA BeginsKeeps ==
  ASSUME IInv, NEW kind \in Kinds, Begins(kind)
  PROVE  IInv'
<1>1. /\ pc = "idle" /\ op' \in [kind : Kinds, async : BOOLEAN]
      /\ UNCHANGED <<h, res, told, retries>> /\ pc' \in {"first", "failed"}
  BY DEF Begins
<1>2. HoldInv'
  BY <1>1 DEF IInv, HoldInv, Pcs
<1>3. CASE HttpBegins(1) /\ pc' = "first"
  <2>1. /\ WorkInv' /\ ReadInv' /\ r'.id = 1 /\ r'.state = "CONNECTING"
        /\ heap' = heap \cup {<<1, "struct">>, <<1, "query">>}
    BY <1>1, <1>3, WorkBegins DEF IInv, Busy
  <2>2. HeapInv'
    BY <1>1, <1>3, <2>1 DEF IInv, HeapInv, Working, Base, Busy, Released, Fields
  <2>. QED
    BY <1>2, <2>1, <2>2 DEF IInv
<1>4. CASE HttpHostUnknown /\ pc' = "failed"
  <2>1. UNCHANGED httpVars
    BY <1>4 DEF HttpHostUnknown
  <2>2. WorkInv' /\ ReadInv' /\ HeapInv'
    BY <1>1, <1>4, <2>1 DEF IInv, WorkInv, ReadInv, HeapInv, Busy, httpVars
  <2>. QED
    BY <1>2, <2>2 DEF IInv
<1>. QED
  BY <1>3, <1>4 DEF Begins

(* A request that fails leaves no memory behind, and no socket.            *)
LEMMA WorkFails ==
  ASSUME IInv, Busy, HttpFails, pc' \notin {"first", "second"}
  PROVE  WorkInv' /\ ReadInv' /\ heap' = Base
<1>1. r.state = "ERROR" /\ r \in RSpace /\ open = stray /\ stray \in Nat
  BY DEF IInv, WorkInv, HttpFails
<1>2. WorkInv' /\ ReadInv'
  BY <1>1 DEF HttpFails, WorkInv, ReadInv, Busy
<1>3. Working(Base) /\ r.id = IF pc = "first" THEN 1 ELSE 2
  BY DEF IInv, HeapInv, WorkInv
<1>4. Base \cap Released(r) = {}
  BY <1>3 DEF Base, First, Released, Fields, Busy
<1>5. heap' = heap \ Released(r)
  BY DEF HttpFails
<1>6. heap' \subseteq Base /\ Base \subseteq heap'
  BY <1>3, <1>4, <1>5 DEF Working
<1>. QED
  BY <1>2, <1>6

LEMMA FirstFailsKeeps ==
  ASSUME IInv, FirstFails
  PROVE  IInv'
<1>1. WorkInv' /\ ReadInv' /\ heap' = Base
  BY WorkFails DEF FirstFails, Busy
<1>2. HoldInv'
  BY DEF FirstFails, IInv, HoldInv, Pcs
<1>3. HeapInv'
  BY <1>1 DEF FirstFails, HeapInv, Base, Busy
<1>. QED
  BY <1>1, <1>2, <1>3 DEF IInv

(* A request that is read to its end has a body of the announced length,   *)
(* and of its memory the query is gone.                                    *)
LEMMA WorkReady ==
  ASSUME IInv, Busy, HttpReady
  PROVE  /\ open = stray /\ stray \in Nat /\ link.answer \in Answers /\ r.body \in Seq(Nat)
         /\ Len(r.body) >= link.answer.length
         /\ heap = Base \cup {<<r.id, "struct">>, <<r.id, "header">>, <<r.id, "body">>}
<1>1. /\ r \in RSpace /\ link \in LinkSpace /\ r.state = "PARSING" /\ open = stray
      /\ stray \in Nat /\ Working(Base)
  BY DEF IInv, WorkInv, HeapInv, HttpReady
<1>2. PICK k \in Nat : r.body = UpTo(k)
  BY <1>1 DEF IInv, ReadInv
<1>3. r.body \in Seq(Nat) /\ Len(r.body) \in Nat
  BY <1>2, UpToSeq
<1>4. link.answer \in Answers /\ link.answer \in AnswerSpace
  BY <1>1, AnswersAssumption DEF LinkSpace
<1>5. r.bodySize \in Nat /\ link.answer.length \in Int
  BY <1>1, <1>4 DEF RSpace, AnswerSpace
<1>6. r.bodySize >= link.answer.length /\ Len(r.body) >= r.bodySize
  BY <1>1 DEF IInv, ReadInv
<1>7. Len(r.body) >= link.answer.length
  BY <1>3, <1>5, <1>6
<1>8. heap \subseteq Base \cup {<<r.id, "struct">>, <<r.id, "header">>, <<r.id, "body">>}
  BY <1>1 DEF Working, Released, Fields
<1>9. Base \cup {<<r.id, "struct">>, <<r.id, "header">>, <<r.id, "body">>} \subseteq heap
  BY <1>1 DEF Working
<1>. QED
  BY <1>1, <1>3, <1>4, <1>7, <1>8, <1>9

LEMMA FirstReadyKeeps ==
  ASSUME IInv, FirstReady
  PROVE  IInv'
<1>1. /\ pc = "first" /\ HttpReady /\ Busy /\ r.id = 1 /\ told = <<>>
      /\ pc' \in {"client", "watch"}
      /\ h' = [state |-> "PARSING", id |-> 1, body |-> r.body, data |-> NoData]
      /\ told' = <<link.answer>> /\ r' = NoRequest
      /\ UNCHANGED <<op, heap, open, stray, res, retries>>
  BY DEF FirstReady, Busy, IInv, WorkInv, HoldInv
<1>2. /\ open = stray /\ stray \in Nat /\ link.answer \in Answers /\ r.body \in Seq(Nat)
      /\ Len(r.body) >= link.answer.length
      /\ heap = {<<1, "struct">>, <<1, "header">>, <<1, "body">>}
  BY <1>1, WorkReady DEF Base
<1>3. WorkInv' /\ ReadInv'
  BY <1>1, <1>2 DEF WorkInv, ReadInv, Busy
<1>4. h' \in HSpace /\ h'.id = 1 /\ h'.body = r.body /\ h'.data = <<>>
      /\ h'.state = "PARSING"
  BY <1>1, <1>2 DEF HSpace, DataSpace, NoData
<1>5. told' \in Seq(Answers) /\ Len(told') = 1 /\ told'[1] = link.answer
  BY <1>1, <1>2
<1>6. HoldInv'
  BY <1>1, <1>2, <1>4, <1>5 DEF IInv, HoldInv, Pcs
<1>7. HeapInv'
  BY <1>1, <1>2, <1>4 DEF HeapInv, First, Busy
<1>. QED
  BY <1>3, <1>6, <1>7 DEF IInv

-----------------------------------------------------------------------------
(* With no request under way, nothing but what the client holds counts.    *)
Quiet == ~Busy /\ UNCHANGED <<r, open, stray>> /\ pc' \notin {"first", "second"}

LEMMA QuietKeeps ==
  ASSUME IInv, Quiet
  PROVE  WorkInv' /\ ReadInv'
  BY DEF Quiet, IInv, WorkInv, ReadInv, Busy

(* What the client holds while a watch function runs or it is its turn.    *)
LEMMA Holds ==
  ASSUME IInv, pc \in {"second", "watch", "client"}
  PROVE  /\ h \in HSpace /\ told \in Seq(Answers) /\ Len(told) = h.id
         /\ told[1] \in AnswerSpace /\ h.body \in Seq(Nat)
<1>1. h \in HSpace /\ told \in Seq(Answers) /\ Len(told) = h.id /\ h.id \in {1, 2}
  BY DEF IInv, HoldInv, HSpace
<1>2. told[1] \in Answers
  BY <1>1
<1>. QED
  BY <1>1, <1>2, AnswersAssumption DEF HSpace

Finished(x, d) == [x EXCEPT !.state = "DONE", !.data = d]

LEMMA HeldFinished ==
  \A x \in HSpace, d \in DataSpace :
      /\ Finished(x, d) \in HSpace
      /\ Finished(x, d).id = x.id /\ Finished(x, d).body = x.body
      /\ Finished(x, d).data = d /\ Finished(x, d).state = "DONE"
  BY DEF Finished, HSpace

LEMMA PubdirParsesKeeps ==
  ASSUME IInv, PubdirParses
  PROVE  IInv'
<1> DEFINE ok == told[1].sound /\ h.body # <<>>
<1>1. /\ pc = "watch" /\ op.kind # "token" /\ h' = Finished(h, <<ok>>)
      /\ heap' = heap \cup {<<1, "data">>} /\ res' \in {0, -1} /\ pc' = "client"
      /\ UNCHANGED <<r, link, open, stray, op, told, retries>>
  BY DEF PubdirParses, Returns, Finished, IInv, HoldInv
<1>2. h \in HSpace /\ Len(told) = h.id /\ told[1] \in AnswerSpace
  BY <1>1, Holds
<1>3. h.id = 1
  BY <1>1, <1>2 DEF IInv, HoldInv, HSpace
<1>4. ok \in BOOLEAN
  BY <1>2 DEF AnswerSpace
<1>5. <<ok>> \in DataSpace /\ <<ok>> # <<>>
  <2>. HIDE DEF ok
  <2>. QED
    BY <1>4 DEF DataSpace
<1>6. h' \in HSpace /\ h'.id = 1 /\ h'.body = h.body /\ h'.data = <<ok>>
      /\ h'.state = "DONE"
  BY <1>1, <1>2, <1>3, <1>5, HeldFinished
<1>7. h'.data[1] => told[1].sound
  <2>1. CASE told[1].sound
    BY <2>1
  <2>2. CASE ~told[1].sound
    <3>1. ok = FALSE
      BY <2>2
    <3>2. h'.data = <<FALSE>>
      BY <1>6, <3>1
    <3>. QED
      BY <3>2
  <2>. QED
    BY <2>1, <2>2
<1>8. WorkInv' /\ ReadInv'
  BY <1>1, QuietKeeps DEF Quiet, Busy
<1>. HIDE DEF ok
<1>9. HoldInv'
  BY <1>1, <1>2, <1>3, <1>6, <1>7 DEF IInv, HoldInv, Pcs
<1>10. HeapInv'
  <2>1. heap = IF h.data = <<>> THEN First ELSE First \cup {<<1, "data">>}
    BY <1>1, <1>3 DEF IInv, HeapInv
  <2>. QED
    BY <1>1, <1>5, <1>6, <2>1 DEF HeapInv, Busy
<1>. QED
  BY <1>8, <1>9, <1>10 DEF IInv

(* What a watch function leaves when it changes no memory and no structure *)
(* of the client.                                                          *)
LEMMA ReturnKeeps ==
  ASSUME IInv, pc \in {"watch", "client"}, pc' \in {"watch", "client"}, res' \in {0, -1},
         retries' \in 0 .. MaxRetries, UNCHANGED <<httpVars, op, h, told>>
  PROVE  IInv'
<1>1. WorkInv' /\ ReadInv'
  BY QuietKeeps DEF Quiet, Busy, httpVars
<1>2. HoldInv'
  BY DEF IInv, HoldInv, Pcs
<1>3. HeapInv'
  BY DEF IInv, HeapInv, Busy, httpVars
<1>. QED
  BY <1>1, <1>2, <1>3 DEF IInv

LEMMA TokenRefusesKeeps ==
  ASSUME IInv, TokenRefuses
  PROVE  IInv'
<1>1. retries \in 0 .. MaxRetries /\ res \in {0, -1}
  BY DEF IInv, HoldInv
<1>. QED
  BY <1>1, ReturnKeeps DEF TokenRefuses, Returns

LEMMA ClientWatchesKeeps ==
  ASSUME IInv, ClientWatches
  PROVE  IInv'
<1>1. retries \in 0 .. MaxRetries /\ res \in {0, -1}
  BY DEF IInv, HoldInv
<1>2. retries' \in 0 .. MaxRetries
  BY <1>1, RetriesAssumption DEF ClientWatches
<1>. QED
  BY <1>1, <1>2, ReturnKeeps DEF ClientWatches

LEMMA TokenAsksKeeps ==
  ASSUME IInv, TokenAsks
  PROVE  IInv'
<1>1. /\ pc = "watch" /\ op.kind = "token" /\ h.data = <<>> /\ TRUE \in TokenFields
      /\ UNCHANGED <<op, h, told, retries>>
  BY DEF TokenAsks, NoData
<1>2. h \in HSpace /\ told[1] \in AnswerSpace
  BY <1>1, Holds
<1>3. h.id = 1
  BY <1>1, <1>2 DEF IInv, HoldInv, HSpace
<1>4. Whole(h.body, told[1]) => told[1].sound
  BY <1>1, <1>2 DEF TokenFields, AnswerSpace
<1>5. CASE HttpBegins(2) /\ pc' = "second" /\ UNCHANGED res
  <2>1. /\ WorkInv' /\ ReadInv' /\ r'.id = 2 /\ r'.state = "CONNECTING"
        /\ heap' = heap \cup {<<2, "struct">>, <<2, "query">>}
    BY <1>1, <1>5, WorkBegins DEF IInv, Busy
  <2>2. HoldInv'
    BY <1>1, <1>3, <1>4, <1>5 DEF IInv, HoldInv, Pcs
  <2>3. heap = First
    BY <1>1, <1>3 DEF IInv, HeapInv
  <2>4. HeapInv'
    BY <1>5, <2>1, <2>3 DEF HeapInv, Working, Base, Busy, Released, Fields
  <2>. QED
    BY <2>1, <2>2, <2>4 DEF IInv
<1>6. CASE HttpHostUnknown /\ Returns(-1)
  <2>1. retries \in 0 .. MaxRetries /\ res \in {0, -1}
    BY DEF IInv, HoldInv
  <2>. QED
    BY <1>1, <1>6, <2>1, ReturnKeeps DEF HttpHostUnknown, Returns
<1>. QED
  BY <1>5, <1>6 DEF TokenAsks

LEMMA SecondFailsKeeps ==
  ASSUME IInv, SecondFails
  PROVE  IInv'
<1>1. /\ pc = "second" /\ pc' = "client" /\ res' \in {0, -1} /\ HttpFails
      /\ UNCHANGED <<op, h, told, retries>>
  BY DEF SecondFails, Returns, IInv, HoldInv
<1>2. WorkInv' /\ ReadInv' /\ heap' = Base
  BY <1>1, WorkFails DEF Busy
<1>3. /\ h \in HSpace /\ h.id = 1 /\ h.data = <<>>
  BY <1>1 DEF IInv, HoldInv, HSpace
<1>4. HoldInv'
  BY <1>1 DEF IInv, HoldInv, Pcs
<1>5. HeapInv'
  BY <1>1, <1>2, <1>3 DEF HeapInv, Base, Busy
<1>. QED
  BY <1>2, <1>4, <1>5 DEF IInv

(* The second answer comes after the first.                                *)
LEMMA SecondTold ==
  \A s \in Seq(Answers), a \in Answers :
      Len(s) = 1 => /\ Append(s, a) \in Seq(Answers) /\ Len(Append(s, a)) = 2
                    /\ Append(s, a)[1] = s[1] /\ Append(s, a)[2] = a
<1> SUFFICES ASSUME NEW s \in Seq(Answers), NEW a \in Answers, Len(s) = 1
             PROVE  /\ Append(s, a) \in Seq(Answers) /\ Len(Append(s, a)) = 2
                    /\ Append(s, a)[1] = s[1] /\ Append(s, a)[2] = a
  OBVIOUS
<1>1. Append(s, a) \in Seq(Answers)
  BY AppendProperties
<1>2. Len(Append(s, a)) = 2
  <2>1. Len(Append(s, a)) = Len(s) + 1
    BY AppendProperties
  <2>. QED
    BY <2>1
<1>3. Append(s, a)[1] = s[1]
  <2>1. 1 \in 1 .. Len(s)
    OBVIOUS
  <2>. QED
    BY <2>1, AppendProperties, SMTT(30)
<1>4. Append(s, a)[2] = a
  <2>1. Append(s, a)[Len(s) + 1] = a
    BY AppendProperties
  <2>. QED
    BY <2>1
<1>. QED
  BY <1>1, <1>2, <1>3, <1>4

LEMMA SecondReadyKeeps ==
  ASSUME IInv, SecondReady
  PROVE  IInv'
<1>1. /\ pc = "second" /\ HttpReady /\ Busy /\ r.id = 2 /\ op.kind = "token"
      /\ pc' \in {"client", "watch"} /\ res' \in {0, -1}
      /\ h' = [state |-> "PARSING", id |-> 2, body |-> r.body, data |-> <<h.body>>]
      /\ told' = Append(told, link.answer) /\ r' = NoRequest
      /\ heap' = (heap \ {<<2, "struct">>}) \cup {<<2, "data">>, <<2, "tokenid">>}
      /\ UNCHANGED <<open, stray, op, retries>>
  BY DEF SecondReady, Returns, Overwritten, Busy, IInv, WorkInv, HoldInv
<1>2. /\ open = stray /\ stray \in Nat /\ link.answer \in Answers /\ r.body \in Seq(Nat)
      /\ Len(r.body) >= link.answer.length
      /\ heap = First \cup {<<2, "struct">>, <<2, "header">>, <<2, "body">>}
  BY <1>1, WorkReady DEF Base
<1>3. WorkInv' /\ ReadInv'
  BY <1>1, <1>2 DEF WorkInv, ReadInv, Busy
<1>4. /\ h \in HSpace /\ told \in Seq(Answers) /\ Len(told) = h.id
      /\ h.body \in Seq(Nat)
  BY <1>1, Holds
<1>5. /\ h.id = 1 /\ Len(h.body) >= told[1].length
      /\ Whole(h.body, told[1]) => told[1].sound
  BY <1>1, <1>4 DEF IInv, HoldInv, HSpace
<1>6. <<h.body>> \in DataSpace
  BY <1>4 DEF DataSpace
<1>7. h' \in HSpace /\ h'.id = 2 /\ h'.body = r.body /\ h'.data = <<h.body>>
      /\ h'.data # <<>> /\ h'.data[1] = h.body /\ h'.state = "PARSING"
  BY <1>1, <1>2, <1>6 DEF HSpace
<1>8. told' \in Seq(Answers) /\ Len(told') = 2 /\ told'[1] = told[1]
      /\ told'[2] = link.answer
  <2> DEFINE answer == link.answer
  <2>1. told \in Seq(Answers) /\ answer \in Answers /\ Len(told) = 1
    BY <1>2, <1>4, <1>5
  <2>2. told' = Append(told, answer)
    BY <1>1
  <2>. HIDE DEF answer
  <2>3. /\ Append(told, answer) \in Seq(Answers) /\ Len(Append(told, answer)) = 2
        /\ Append(told, answer)[1] = told[1] /\ Append(told, answer)[2] = answer
    BY <2>1, SecondTold
  <2>. QED
    BY <2>2, <2>3 DEF answer
<1>9. HoldInv'
  BY <1>1, <1>2, <1>4, <1>5, <1>7, <1>8 DEF IInv, HoldInv, Pcs, Whole
<1>10. heap' = Second
  <2>1. heap' \subseteq Second
    BY <1>1, <1>2 DEF First, Second
  <2>2. Second \subseteq heap'
    BY <1>1, <1>2 DEF First, Second
  <2>. QED
    BY <2>1, <2>2
<1>11. HeapInv'
  BY <1>1, <1>7, <1>10 DEF HeapInv, Busy
<1>. QED
  BY <1>3, <1>9, <1>11 DEF IInv

LEMMA TokenDoneKeeps ==
  ASSUME IInv, TokenDone
  PROVE  IInv'
<1>1. /\ pc = "watch" /\ op.kind = "token" /\ h.data # <<>>
      /\ h' = [h EXCEPT !.state = "DONE"] /\ res' \in {0, -1} /\ pc' = "client"
      /\ UNCHANGED <<httpVars, op, told, retries>>
  BY DEF TokenDone, Returns, HasData, NoData, IInv, HoldInv
<1>2. h \in HSpace /\ told \in Seq(Answers) /\ Len(told) = h.id
  BY <1>1, Holds
<1>3. h.id = 2
  BY <1>1, <1>2 DEF IInv, HoldInv, HSpace
<1>4. h' \in HSpace /\ h'.id = 2 /\ h'.body = h.body /\ h'.data = h.data
  BY <1>1, <1>2, <1>3 DEF HSpace
<1>5. WorkInv' /\ ReadInv'
  BY <1>1, QuietKeeps DEF Quiet, Busy, httpVars
<1>6. HoldInv'
  BY <1>1, <1>2, <1>3, <1>4 DEF IInv, HoldInv, Pcs
<1>7. HeapInv'
  BY <1>1, <1>3, <1>4 DEF IInv, HeapInv, Busy, httpVars
<1>. QED
  BY <1>5, <1>6, <1>7 DEF IInv

LEMMA ClientFreesKeeps ==
  ASSUME IInv, ClientFrees
  PROVE  IInv'
<1> DEFINE freed == Fields(h) \cup {<<1, "struct">>, <<h.id, "data">>, <<h.id, "tokenid">>}
<1>1. /\ pc = "client" /\ pc' = "freed" /\ h' = NoRequest /\ heap' = heap \ freed
      /\ UNCHANGED <<r, link, open, stray, op, res, told, retries>>
  BY DEF ClientFrees
<1>2. h \in HSpace /\ told \in Seq(Answers) /\ Len(told) = h.id /\ h.id \in {1, 2}
  BY <1>1, Holds DEF HSpace
<1>3. WorkInv' /\ ReadInv'
  BY <1>1, QuietKeeps DEF Quiet, Busy
<1>4. HoldInv'
  BY <1>1, <1>2 DEF IInv, HoldInv, Pcs
<1>5. CASE h.id = 1
  <2>1. heap \subseteq First \cup {<<1, "data">>}
    BY <1>1, <1>5 DEF IInv, HeapInv
  <2>2. heap' = {}
    BY <1>1, <1>5, <2>1 DEF First, Fields
  <2>3. HeapInv'
    BY <1>1, <1>2, <1>5, <2>2 DEF HeapInv, Busy
  <2>. QED
    BY <1>3, <1>4, <2>3 DEF IInv
<1>6. CASE h.id = 2
  <2>1. heap = Second
    BY <1>1, <1>6 DEF IInv, HeapInv
  <2>2. heap' \subseteq {<<1, "body">>, <<1, "header">>}
    BY <1>1, <1>6, <2>1 DEF First, Second, Fields
  <2>3. {<<1, "body">>, <<1, "header">>} \subseteq heap'
    BY <1>1, <1>6, <2>1 DEF First, Second, Fields
  <2>4. HeapInv'
    BY <1>1, <1>2, <1>6, <2>2, <2>3 DEF HeapInv, Busy
  <2>. QED
    BY <1>3, <1>4, <2>4 DEF IInv
<1>. QED
  BY <1>2, <1>5, <1>6

-----------------------------------------------------------------------------
(* The invariant holds initially, is kept by every step, and says what the *)
(* runs check.                                                             *)
LEMMA ConnectKeeps ==
  ASSUME IInv, Connect
  PROVE  IInv'
<1>1. Busy /\ ClientSame
  BY DEF Connect, Busy, ClientSame
<1>. QED
  BY <1>1, SendingKeeps, HeaderKeeps, DataKeeps DEF Connect, HttpWatch

LEMMA NextIInv == IInv /\ [Next]_vars => IInv'
<1> SUFFICES ASSUME IInv, [Next]_vars PROVE IInv'
  OBVIOUS
<1>1. CASE UNCHANGED vars
  BY <1>1 DEF vars, httpVars, IInv, WorkInv, ReadInv, HoldInv, HeapInv, Busy, Working, Base,
              Released, Fields
<1>2. CASE Begin
  BY <1>2, BeginsKeeps
  DEF Begin, Register, Unregister, ChangePasswd, RemindPasswd, Token, Kinds
<1>3. CASE Connect
  BY <1>3, ConnectKeeps
<1>4. CASE FirstFails
  BY <1>4, FirstFailsKeeps
<1>5. CASE FirstReady
  BY <1>5, FirstReadyKeeps
<1>6. CASE PubdirParses
  BY <1>6, PubdirParsesKeeps
<1>7. CASE TokenRefuses
  BY <1>7, TokenRefusesKeeps
<1>8. CASE TokenAsks
  BY <1>8, TokenAsksKeeps
<1>9. CASE SecondFails
  BY <1>9, SecondFailsKeeps
<1>10. CASE SecondReady
  BY <1>10, SecondReadyKeeps
<1>11. CASE TokenDone
  BY <1>11, TokenDoneKeeps
<1>12. CASE ClientWatches
  BY <1>12, ClientWatchesKeeps
<1>13. CASE ClientFrees
  BY <1>13, ClientFreesKeeps
<1>. QED
  BY <1>1, <1>2, <1>3, <1>4, <1>5, <1>6, <1>7, <1>8, <1>9, <1>10, <1>11, <1>12, <1>13
  DEF Next, Library

LEMMA Invariant == Spec => []IInv
  BY InitIInv, NextIInv, PTL DEF Spec

LEMMA ImpliesType == IInv => TypeOK
<1> SUFFICES ASSUME IInv PROVE TypeOK
  OBVIOUS
<1>1. pc \in Pcs /\ res \in {0, -1} /\ retries \in 0 .. MaxRetries
  BY DEF IInv, HoldInv
<1>2. stray \in Nat /\ open - stray \in {0, 1}
  BY DEF IInv, WorkInv
<1>3. r # NoRequest => r.query \in 0 .. QuerySize /\ r.header \in Nat
  BY DEF IInv, WorkInv, RSpace
<1>4. heap \subseteq {1, 2} \X {"struct", "query", "header", "body", "data", "tokenid"}
  <2>1. CASE Busy
    <3>1. heap \subseteq Base \cup Released(r) /\ r.id \in {1, 2}
      BY <2>1 DEF IInv, HeapInv, Working, WorkInv
    <3>. QED
      BY <3>1 DEF Base, First, Released, Fields
  <2>2. CASE pc \in {"watch", "client"}
    <3>1. heap \subseteq Second \/ heap \subseteq First \cup {<<1, "data">>}
      BY <2>2 DEF IInv, HeapInv
    <3>. QED
      BY <3>1 DEF First, Second
  <2>3. CASE pc \in {"idle", "failed", "freed"}
    <3>1. heap \subseteq {<<1, "body">>, <<1, "header">>}
      BY <2>3 DEF IInv, HeapInv
    <3>. QED
      BY <3>1
  <2>. QED
    BY <1>1, <2>1, <2>2, <2>3 DEF Pcs, Busy
<1>. QED
  BY <1>1, <1>2, <1>3, <1>4 DEF TypeOK

LEMMA ImpliesWhole == IInv => BodyWhole
<1> SUFFICES ASSUME IInv, HttpReady
             PROVE  /\ r.body = UpTo(Len(r.body))
                    /\ link.sent = QuerySize /\ link.answer.ok
                    /\ Len(r.body) >= link.answer.length
                    /\ Len(r.body) + HeaderSize = link.answer.cut
  BY DEF BodyWhole
<1>1. Busy
  BY DEF HttpReady, IInv, WorkInv, NoRequest
<1>2. /\ link.sent = QuerySize /\ link.answer.ok /\ link.given = link.answer.cut
      /\ \E n \in Nat : r.body = UpTo(n) /\ link.given = HeaderSize + n
  BY <1>1 DEF HttpReady, IInv, ReadInv
<1>3. PICK n \in Nat : r.body = UpTo(n) /\ link.given = HeaderSize + n
  BY <1>2
<1>4. Len(r.body) = n
  BY <1>3, UpToSeq
<1>5. Len(r.body) >= link.answer.length
  BY <1>1, WorkReady
<1>6. HeaderSize \in Nat
  BY SizesAssumption
<1>. QED
  BY <1>2, <1>3, <1>4, <1>5, <1>6

LEMMA ImpliesDone == IInv => DoneIsReal
<1> SUFFICES ASSUME IInv, h.state = "DONE"
             PROVE  IF op.kind # "token" THEN h.data[1] => told[1].sound
                    ELSE /\ Len(told) = 2
                         /\ Len(h.data[1]) >= told[1].length
                         /\ Len(h.body) >= told[2].length
                         /\ Whole(h.data[1], told[1]) => told[1].sound
  BY DEF DoneIsReal
<1>1. pc \in {"second", "watch", "client"}
  BY DEF IInv, HoldInv, Pcs, NoRequest
<1>2. h.id \in {1, 2}
  BY <1>1, Holds DEF HSpace
<1>3. CASE op.kind # "token"
  BY <1>1, <1>3 DEF IInv, HoldInv
<1>4. CASE op.kind = "token"
  <2>1. h.id = 2
    BY <1>1, <1>2, <1>4 DEF IInv, HoldInv
  <2>. QED
    BY <1>1, <1>4, <2>1 DEF IInv, HoldInv
<1>. QED
  BY <1>3, <1>4

LEMMA ImpliesClean == IInv => SocketsClosed /\ MemoryAccounted
<1> SUFFICES ASSUME IInv PROVE SocketsClosed /\ MemoryAccounted
  OBVIOUS
<1>1. SocketsClosed
  BY DEF IInv, WorkInv, Busy, SocketsClosed
<1>2. MemoryAccounted
  <2>1. CASE pc = "failed"
    BY <2>1 DEF IInv, HeapInv, HoldInv, MemoryAccounted
  <2>2. CASE pc = "freed"
    BY <2>2 DEF IInv, HeapInv, MemoryAccounted
  <2>. QED
    BY <2>1, <2>2 DEF MemoryAccounted
<1>. QED
  BY <1>1, <1>2

-----------------------------------------------------------------------------
(* The variables keep their types, and one socket at most is in use, the   *)
(* ones that a failed bind() left open apart (common.c:244).               *)
THEOREM TypeCorrect == Spec => []TypeOK
  BY Invariant, ImpliesType, PTL

(* A body that is handed on is what the server sent, in order, and has the *)
(* announced length: whatever the sizes of the reads and however often     *)
(* they were short (gg_http_watch_fd() in GG_STATE_READING_DATA).          *)
THEOREM BodiesWhole == Spec => []BodyWhole
  BY Invariant, ImpliesWhole, PTL

(* No socket outlives gg_http_connect(), on any of its ways out, but those *)
(* of failed bind() calls: what is open is what gg_connect() left.         *)
THEOREM NoSocketLeft == Spec => []SocketsClosed
  BY Invariant, ImpliesClean, PTL

(* After gg_pubdir_free() or gg_token_free(), or when NULL was returned,   *)
(* all memory is free but the body and header the token's second request   *)
(* was written over, whatever failed before and however often.             *)
THEOREM MemoryBack == Spec => []MemoryAccounted
  BY Invariant, ImpliesClean, PTL

(* What an operation is done with is what the server sent for it, for a    *)
(* token in two answers, with any number of failures and new attempts.     *)
THEOREM DoneReal == Spec => []DoneIsReal
  BY Invariant, ImpliesDone, PTL
=============================================================================
