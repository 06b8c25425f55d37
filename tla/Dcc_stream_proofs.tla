------------------------- MODULE Dcc_stream_proofs --------------------------
(***************************************************************************)
(* What is on its way between the two clients of a direct connection, as a *)
(* path of an automaton: what such paths begin and end with, how they are  *)
(* joined and cut, and which data of the file they carry.  And the         *)
(* invariant that the two walk in step: what goes to a client leads from   *)
(* where it reads to where the other one is, as long as no write was cut.  *)
(* The handshake keeps it.                                                 *)
(***************************************************************************)
EXTENDS Dcc_proofs

(***************************************************************************)
(* A stream of one direction as an automaton: where in the conversation    *)
(* the reader of the next item stands.  left counts the units that are     *)
(* missing of a chunk or a frame, pos is the position in the file or the   *)
(* number of the frame.  Behind "told", "asked" and "answered" the other   *)
(* side has the word.                                                      *)
(***************************************************************************)
Names == {"start", "uin", "greeted", "silentOffered", "silentAnswered",
  "offers", "answers", "info", "told", "asked", "ackSize", "answered",
  "chunk", "header", "last", "voice", "size"}
Nodes == [at : Names, left : Nat, pos : Nat]
Node(at, left, pos) == [at |-> at, left |-> left, pos |-> pos]
At(at) == Node(at, 0, 0)

\* The side that greets, or answers the greeting.
GreetingLeads(x, item, y) ==
  \/ x.at = "start" /\ item.kind = "uin" /\ y = At("uin")
  \/ x.at = "uin" /\ item.kind = "uin" /\ y = At("greeted")
  \/ x.at = "silentOffered" /\ item.kind = "ack" /\ y = At("offers")
  \/ x.at = "silentAnswered" /\ item.kind = "ack" /\ y = At("answers")
  \/ x.at = "greeted" /\ item = Item("small", 2) /\ y = At("offers")
  \/ x.at = "greeted" /\ item = Item("small", 3) /\ y = At("answers")

\* The side that offers a file or a conversation, or answers the offer.
OfferLeads(x, item, y) ==
  \/ x.at = "offers" /\ item = Item("small", 1) /\ y = At("info")
  \/ x.at = "offers" /\ item = Item("small", 3) /\ y = At("asked")
  \/ x.at = "info" /\ item.kind = "info" /\ y = Node("told", 0, item.val)
  \/ x.at = "answers" /\ item = Item("bigType", 6) /\ y = At("ackSize")
  \/ x.at = "answers" /\ item = Item("tiny", 1) /\ y = At("voice")
  \/ x.at = "ackSize" /\ item.kind = "bigSize"
     /\ y = Node("answered", 0, item.val)

\* The side that sends the file.
FileLeads(x, item, y) ==
  \/ /\ x.at = "chunk" /\ x.left = 0
     /\ item.kind = "bigType" /\ item.val # 5
     /\ y = Node("header", 0, x.pos)
  \/ /\ x.at = "header" /\ item.kind = "bigSize"
     /\ y = IF item.val = 0 THEN Node("last", 0, x.pos)
                            ELSE Node("chunk", item.val, x.pos)
  \/ /\ x.at = "chunk" /\ x.left > 0
     /\ item = Item("data", x.pos + 1)
     /\ y = Node("chunk", x.left - 1, x.pos + 1)

\* A side that speaks frames of these lengths.
VoiceLeads(x, item, y, spoken) ==
  \/ /\ x.at = "voice" /\ x.left = 0
     /\ item = Item("tiny", 3)
     /\ y = Node("size", 0, x.pos)
  \/ /\ x.at = "size" /\ item.kind = "small"
     /\ x.pos < Len(spoken) /\ item.val = spoken[x.pos + 1]
     /\ y = Node("voice", item.val, x.pos + 1)
  \/ /\ x.at = "voice" /\ x.left > 0
     /\ item = Item("voice", x.pos)
     /\ y = Node("voice", x.left - 1, x.pos)

Leads(x, item, y, spoken) ==
  \/ GreetingLeads(x, item, y) \/ OfferLeads(x, item, y)
  \/ FileLeads(x, item, y) \/ VoiceLeads(x, item, y, spoken)

\* What may be read at a, or anywhere behind it, up to b.
Later(a, b) ==
  \/ a = b
  \/ /\ a \in {"start", "uin", "greeted", "silentOffered"}
     /\ b \in {"offers", "info", "told", "asked"}
  \/ /\ a \in {"start", "uin", "greeted", "silentAnswered"}
     /\ b \in {"answers", "ackSize", "answered", "voice", "size"}
  \/ a = "start" /\ b \in {"uin", "greeted"}
  \/ a = "uin" /\ b = "greeted"
  \/ a = "offers" /\ b \in {"info", "told", "asked"}
  \/ a = "answers" /\ b \in {"ackSize", "answered", "voice", "size"}
  \/ a = "info" /\ b = "told"
  \/ a = "ackSize" /\ b = "answered"
  \/ a \in {"voice", "size"} /\ b \in {"voice", "size"}
  \/ a \in {"chunk", "header"} /\ b \in {"chunk", "header", "last"}

FileNodes == {"chunk", "header", "last"}

\* k units further in the same chunk or frame.
Ahead(x, k) ==
  Node(x.at, x.left - k, IF x.at = "chunk" THEN x.pos + k ELSE x.pos)

\* What holds of two nodes, the j-th behind the i-th, on the way along q.
Linked(q, i, x, j, y) ==
  /\ Later(x.at, y.at)
  /\ x.at \in {"chunk", "voice"} /\ j - i <= x.left => y = Ahead(x, j - i)
  /\ x.at \in FileNodes =>
       /\ y.at \in FileNodes /\ x.pos <= y.pos
       /\ \A n \in x.pos + 1 .. y.pos :
            \E k \in i .. j - 1 : q[k] = Item("data", n)

\* The nodes along q.
Way(ns, q, spoken) ==
  /\ ns \in [1 .. Len(q) + 1 -> Nodes]
  /\ \A i \in 1..Len(q) : Leads(ns[i], q[i], ns[i + 1], spoken)
  /\ \A i, j \in 1 .. Len(q) + 1 : i <= j => Linked(q, i, ns[i], j, ns[j])

Path(x, q, y, spoken) ==
  \E ns \in [1 .. Len(q) + 1 -> Nodes] :
    Way(ns, q, spoken) /\ ns[1] = x /\ ns[Len(q) + 1] = y

-----------------------------------------------------------------------------
LEMMA NodeType ==
  ASSUME NEW at \in Names, NEW left \in Nat, NEW pos \in Nat
  PROVE  /\ Node(at, left, pos) \in Nodes /\ At(at) \in Nodes
         /\ Node(at, left, pos).at = at /\ Node(at, left, pos).left = left
         /\ Node(at, left, pos).pos = pos
         /\ At(at).at = at /\ At(at).left = 0 /\ At(at).pos = 0
         /\ At(at) = Node(at, 0, 0)
BY DEF Node, At, Nodes

\* One step of a way.
LEMMA LeadsOn ==
  ASSUME NEW x \in Nodes, NEW y \in Nodes, NEW item \in Items, NEW spoken,
         Leads(x, item, y, spoken)
  PROVE  /\ Later(x.at, y.at)
         /\ x.at \in {"chunk", "voice"} /\ 1 <= x.left => y = Ahead(x, 1)
         /\ x.at \in FileNodes =>
              /\ y.at \in FileNodes
              /\ item.kind = "data" => item = Item("data", x.pos + 1)
                                       /\ y.pos = x.pos + 1
              /\ item.kind # "data" => y.pos = x.pos
<1>1. CASE GreetingLeads(x, item, y)
  BY <1>1, NodeType DEF GreetingLeads, Later, FileNodes, Names, At, Node
<1>2. CASE OfferLeads(x, item, y)
  BY <1>2, NodeType DEF OfferLeads, Later, FileNodes, Names, At, Node
<1>3. CASE FileLeads(x, item, y)
  BY <1>3 DEF FileLeads, Later, FileNodes, Names, Ahead, Node, Nodes, Item, Items
<1>4. CASE VoiceLeads(x, item, y, spoken)
  BY <1>4 DEF VoiceLeads, Later, FileNodes, Names, Ahead, Node, Nodes, Item, Items
<1> QED
  BY <1>1, <1>2, <1>3, <1>4 DEF Leads

LEMMA LaterTransitive ==
  ASSUME NEW a, NEW b, NEW c, Later(a, b), Later(b, c)
  PROVE  Later(a, c)
BY DEF Later

-----------------------------------------------------------------------------
(***************************************************************************)
(* Ways can be joined and cut.                                             *)
(***************************************************************************)
LEMMA LinkedShifted ==
  ASSUME NEW p, NEW q, NEW x, NEW y, NEW i \in Nat, NEW j \in Nat, NEW d \in Int,
         \A k \in i .. j - 1 : q[k + d] = p[k],
         Linked(p, i, x, j, y)
  PROVE  Linked(q, i + d, x, j + d, y)
<1>1. (j + d) - (i + d) = j - i
  OBVIOUS
<1>2. ASSUME NEW n, \E k \in i .. j - 1 : p[k] = Item("data", n)
      PROVE  \E k \in i + d .. (j + d) - 1 : q[k] = Item("data", n)
  <2>1. PICK k \in i .. j - 1 : p[k] = Item("data", n)
    BY <1>2
  <2>2. k + d \in i + d .. (j + d) - 1 /\ q[k + d] = Item("data", n)
    BY <2>1
  <2> QED
    BY <2>2
<1> QED
  BY <1>1, <1>2 DEF Linked

LEMMA LinkedJoined ==
  ASSUME NEW q, NEW x \in Nodes, NEW y \in Nodes, NEW z \in Nodes,
         NEW i \in Nat, NEW j \in Nat, NEW k \in Nat, i <= j, j <= k,
         Linked(q, i, x, j, y), Linked(q, j, y, k, z)
  PROVE  Linked(q, i, x, k, z)
<1>1. Later(x.at, z.at)
  BY LaterTransitive DEF Linked
<1>2. ASSUME x.at \in {"chunk", "voice"}, k - i <= x.left
      PROVE  z = Ahead(x, k - i)
  <2>1. x.left \in Nat /\ x.pos \in Nat
    BY DEF Nodes
  <2>2. y = Ahead(x, j - i)
    BY <1>2, <2>1 DEF Linked
  <2>3. /\ y.at = x.at /\ y.left = x.left - (j - i)
        /\ y.pos = IF x.at = "chunk" THEN x.pos + (j - i) ELSE x.pos
    BY <2>2 DEF Ahead, Node
  <2>4. k - j <= y.left
    BY <1>2, <2>1, <2>3
  <2>5. z = Ahead(y, k - j)
    BY <1>2, <2>3, <2>4 DEF Linked
  <2>6. y.left - (k - j) = x.left - (k - i)
        /\ (x.at = "chunk" => y.pos + (k - j) = x.pos + (k - i))
    BY <2>1, <2>3
  <2> QED
    BY <2>3, <2>5, <2>6 DEF Ahead
<1>3. ASSUME x.at \in FileNodes
      PROVE  /\ z.at \in FileNodes /\ x.pos <= z.pos
             /\ \A n \in x.pos + 1 .. z.pos :
                  \E m \in i .. k - 1 : q[m] = Item("data", n)
  <2>1. x.pos \in Nat /\ y.pos \in Nat /\ z.pos \in Nat
    BY DEF Nodes
  <2>2. /\ y.at \in FileNodes /\ x.pos <= y.pos
        /\ \A n \in x.pos + 1 .. y.pos :
             \E m \in i .. j - 1 : q[m] = Item("data", n)
    BY <1>3 DEF Linked
  <2>3. /\ z.at \in FileNodes /\ y.pos <= z.pos
        /\ \A n \in y.pos + 1 .. z.pos :
             \E m \in j .. k - 1 : q[m] = Item("data", n)
    BY <2>2 DEF Linked
  <2>4. ASSUME NEW n \in x.pos + 1 .. z.pos
        PROVE  \E m \in i .. k - 1 : q[m] = Item("data", n)
    <3>1. CASE n <= y.pos
      BY <2>1, <2>2, <2>4, <3>1
    <3>2. CASE n > y.pos
      BY <2>1, <2>3, <2>4, <3>2
    <3> QED
      BY <2>1, <3>1, <3>2
  <2> QED
    BY <2>1, <2>2, <2>3, <2>4
<1> QED
  BY <1>1, <1>2, <1>3 DEF Linked

\* A node is linked to itself.
LEMMA LinkedSelf ==
  ASSUME NEW q, NEW x \in Nodes, NEW i \in Nat
  PROVE  Linked(q, i, x, i, x)
<1>1. x = Node(x.at, x.left, x.pos) /\ x.left \in Nat /\ x.pos \in Nat
  BY DEF Nodes, Node
<1>2. i - i = 0 /\ x.left - 0 = x.left /\ x.pos + 0 = x.pos
  BY <1>1
<1>3. x = Ahead(x, i - i)
  BY <1>1, <1>2 DEF Ahead
<1> QED
  BY <1>1, <1>3 DEF Linked, Later

LEMMA LinkedOn ==
  ASSUME NEW q, NEW i \in Nat, NEW x \in Nodes, NEW y \in Nodes, NEW spoken,
         q[i] \in Items, Leads(x, q[i], y, spoken)
  PROVE  Linked(q, i, x, i + 1, y)
<1>1. x.pos \in Nat /\ y.pos \in Nat /\ (i + 1) - i = 1 /\ (i + 1) - 1 = i
  BY DEF Nodes
<1>2. x.at \in FileNodes =>
        /\ y.at \in FileNodes /\ x.pos <= y.pos
        /\ \A n \in x.pos + 1 .. y.pos : n = x.pos + 1 /\ q[i] = Item("data", n)
  BY <1>1, LeadsOn
<1>3. i \in i .. (i + 1) - 1
  OBVIOUS
<1> QED
  BY <1>1, <1>2, <1>3, LeadsOn DEF Linked

LEMMA PathEmpty ==
  ASSUME NEW x \in Nodes, NEW spoken
  PROVE  Path(x, <<>>, x, spoken)
<1> DEFINE ns == [i \in 1..1 |-> x]
<1>1. Len(<<>>) = 0 /\ Len(<<>>) + 1 = 1
  BY EmptySeq
<1>2. ns \in [1..1 -> Nodes] /\ ns[1] = x
  OBVIOUS
<1> HIDE DEF ns
<1>3. \A i, j \in 1..1 : Linked(<<>>, i, ns[i], j, ns[j])
  BY <1>2, LinkedSelf
<1>4. Way(ns, <<>>, spoken)
  BY <1>1, <1>2, <1>3 DEF Way
<1> QED
  BY <1>1, <1>2, <1>4 DEF Path

LEMMA PathEnd ==
  ASSUME NEW x, NEW y, NEW spoken, Path(x, <<>>, y, spoken)
  PROVE  x = y
<1>1. Len(<<>>) + 1 = 1
  BY EmptySeq
<1> QED
  BY <1>1 DEF Path

LEMMA PathOne ==
  ASSUME NEW x \in Nodes, NEW y \in Nodes, NEW item \in Items, NEW spoken,
         Leads(x, item, y, spoken)
  PROVE  Path(x, <<item>>, y, spoken)
<1> DEFINE ns == [i \in 1..2 |-> IF i = 1 THEN x ELSE y]
           q == <<item>>
<1>1. Len(q) = 1 /\ Len(q) + 1 = 2 /\ q[1] = item
  OBVIOUS
<1>2. ns \in [1..2 -> Nodes] /\ ns[1] = x /\ ns[2] = y
  OBVIOUS
<1> HIDE DEF ns, q
<1>3. ASSUME NEW i \in 1..2, NEW j \in 1..2, i <= j
      PROVE  Linked(q, i, ns[i], j, ns[j])
  <2>1. CASE i = j
    BY <1>2, <2>1, LinkedSelf
  <2>2. CASE i = 1 /\ j = 1 + 1
    BY <1>1, <1>2, <2>2, LinkedOn
  <2> QED
    BY <1>3, <2>1, <2>2
<1>4. Way(ns, q, spoken)
  BY <1>1, <1>2, <1>3 DEF Way
<1> QED
  BY <1>1, <1>2, <1>4 DEF Path, q

LEMMA PathJoined ==
  ASSUME NEW x \in Nodes, NEW y \in Nodes, NEW z \in Nodes, NEW spoken,
         NEW p \in Seq(Items), NEW q \in Seq(Items),
         Path(x, p, y, spoken), Path(y, q, z, spoken)
  PROVE  Path(x, p \o q, z, spoken)
<1> DEFINE P == Len(p)
           Q == Len(q)
           r == p \o q
<1>1. /\ P \in Nat /\ Q \in Nat /\ r \in Seq(Items) /\ Len(r) = P + Q
      /\ \A k \in 1..P : r[k] = p[k] /\ p[k] \in Items
      /\ \A k \in 1..Q : r[P + k] = q[k] /\ q[k] \in Items
  <2>1. P \in Nat /\ Q \in Nat
    BY LenProperties
  <2>2. r \in Seq(Items) /\ Len(r) = P + Q
        /\ \A k \in 1 .. P + Q : r[k] = IF k <= P THEN p[k] ELSE q[k - P]
    BY ConcatProperties
  <2>3. \A k \in 1..P : p[k] \in Items
    BY ElementOfSeq
  <2>4. \A k \in 1..Q : q[k] \in Items
    BY ElementOfSeq
  <2> HIDE DEF P, Q, r
  <2>5. \A k \in 1..Q : P + k \in 1 .. P + Q /\ ~(P + k <= P) /\ (P + k) - P = k
    BY <2>1
  <2> QED
    BY <2>1, <2>2, <2>3, <2>4, <2>5
<1>2. PICK ms \in [1 .. P + 1 -> Nodes] :
        Way(ms, p, spoken) /\ ms[1] = x /\ ms[P + 1] = y
  BY DEF Path
<1>3. PICK ns \in [1 .. Q + 1 -> Nodes] :
        Way(ns, q, spoken) /\ ns[1] = y /\ ns[Q + 1] = z
  BY DEF Path
<1>4. /\ \A i \in 1..P : Leads(ms[i], p[i], ms[i + 1], spoken)
      /\ \A i, j \in 1 .. P + 1 : i <= j => Linked(p, i, ms[i], j, ms[j])
  BY <1>2 DEF Way
<1>5. /\ \A i \in 1..Q : Leads(ns[i], q[i], ns[i + 1], spoken)
      /\ \A i, j \in 1 .. Q + 1 : i <= j => Linked(q, i, ns[i], j, ns[j])
  BY <1>3 DEF Way
<1> DEFINE js == [i \in 1 .. P + Q + 1 |-> IF i <= P + 1 THEN ms[i] ELSE ns[i - P]]
<1> HIDE DEF P, Q, r
<1>6. /\ js \in [1 .. P + Q + 1 -> Nodes]
      /\ \A i \in 1 .. P + 1 : js[i] = ms[i]
      /\ \A i \in 1 .. Q + 1 : js[P + i] = ns[i]
  <2>1. \A i \in 1 .. P + Q + 1 :
          /\ i <= P + 1 => i \in 1 .. P + 1
          /\ ~(i <= P + 1) => i - P \in 1 .. Q + 1
    BY <1>1
  <2>2. js \in [1 .. P + Q + 1 -> Nodes]
    BY <1>2, <1>3, <2>1
  <2>3. \A i \in 1 .. P + 1 : i \in 1 .. P + Q + 1 /\ i <= P + 1
    BY <1>1
  <2>4. \A i \in 1 .. Q + 1 : P + i \in 1 .. P + Q + 1 /\ (P + i) - P = i
                              /\ (P + i <= P + 1 => i = 1)
    BY <1>1
  <2> QED
    BY <1>2, <1>3, <2>2, <2>3, <2>4
<1> HIDE DEF js
<1>7. ASSUME NEW i \in 1 .. P + Q
      PROVE  Leads(js[i], r[i], js[i + 1], spoken)
  <2>1. CASE i \in 1..P
    <3>1. i + 1 \in 1 .. P + 1 /\ i \in 1 .. P + 1
      BY <1>1, <2>1
    <3> QED
      BY <1>1, <1>4, <1>6, <2>1, <3>1
  <2>2. CASE i > P
    <3>1. PICK k \in 1..Q : i = P + k /\ k \in 1 .. Q + 1
                            /\ k + 1 \in 1 .. Q + 1 /\ i + 1 = P + (k + 1)
      <4>1. i - P \in 1..Q /\ i = P + (i - P) /\ i - P \in 1 .. Q + 1
            /\ (i - P) + 1 \in 1 .. Q + 1 /\ i + 1 = P + ((i - P) + 1)
        BY <1>1, <2>2
      <4> QED
        BY <4>1
    <3>2. Leads(ns[k], q[k], ns[k + 1], spoken)
      BY <1>5, <3>1
    <3>3. js[P + k] = ns[k] /\ js[P + (k + 1)] = ns[k + 1]
      BY <1>6, <3>1
    <3>4. js[i] = ns[k] /\ js[i + 1] = ns[k + 1] /\ r[i] = q[k]
      BY <1>1, <3>1, <3>3
    <3> QED
      BY <3>2, <3>4
  <2> QED
    BY <1>1, <2>1, <2>2
<1>8. ASSUME NEW i \in 1 .. P + 1, NEW j \in 1 .. P + 1, i <= j
      PROVE  Linked(r, i, js[i], j, js[j])
  <2>1. /\ i \in Nat /\ j \in Nat /\ 0 \in Int /\ i + 0 = i /\ j + 0 = j
        /\ \A k \in i .. j - 1 : k \in 1..P /\ k + 0 = k
    BY <1>1, <1>8
  <2>2. \A k \in i .. j - 1 : r[k + 0] = p[k]
    BY <1>1, <2>1
  <2>3. Linked(p, i, ms[i], j, ms[j])
    BY <1>4, <1>8
  <2>4. Linked(r, i + 0, ms[i], j + 0, ms[j])
    BY <2>1, <2>2, <2>3, LinkedShifted
  <2> QED
    BY <1>6, <2>1, <2>4
<1>9. ASSUME NEW i \in 1 .. Q + 1, NEW j \in 1 .. Q + 1, i <= j
      PROVE  Linked(r, P + i, js[P + i], P + j, js[P + j])
  <2>1. /\ i \in Nat /\ j \in Nat /\ P \in Int /\ i + P = P + i /\ j + P = P + j
        /\ \A k \in i .. j - 1 : k \in 1..Q /\ k + P = P + k
    BY <1>1, <1>9
  <2>2. ASSUME NEW k \in i .. j - 1
        PROVE  r[k + P] = q[k]
    <3>1. k \in 1..Q /\ k + P = P + k
      BY <2>1
    <3>2. r[P + k] = q[k]
      BY <1>1, <3>1
    <3> QED
      BY <3>1, <3>2
  <2>3. Linked(q, i, ns[i], j, ns[j])
    BY <1>5, <1>9
  <2>4. Linked(r, i + P, ns[i], j + P, ns[j])
    BY <2>1, <2>2, <2>3, LinkedShifted
  <2> QED
    BY <1>6, <2>1, <2>4
<1>10. ASSUME NEW i \in 1 .. P + Q + 1, NEW j \in 1 .. P + Q + 1, i <= j
       PROVE  Linked(r, i, js[i], j, js[j])
  <2>1. CASE j <= P + 1
    BY <1>1, <1>8, <1>10, <2>1
  <2>2. CASE i > P
    <3>1. /\ i - P \in 1 .. Q + 1 /\ j - P \in 1 .. Q + 1 /\ i - P <= j - P
          /\ P + (i - P) = i /\ P + (j - P) = j
      BY <1>1, <1>10, <2>2
    <3>2. Linked(r, P + (i - P), js[P + (i - P)], P + (j - P), js[P + (j - P)])
      BY <1>9, <3>1
    <3> QED
      BY <3>1, <3>2
  <2>3. CASE i <= P /\ j > P + 1
    <3>1. /\ i \in 1 .. P + 1 /\ P + 1 \in 1 .. P + 1 /\ i <= P + 1
          /\ j - P \in 1 .. Q + 1 /\ 1 \in 1 .. Q + 1 /\ 1 <= j - P
          /\ P + (j - P) = j /\ P + 1 \in Nat /\ P + 1 <= j
          /\ i \in Nat /\ j \in Nat
      <4>1. P \in Nat /\ Q \in Nat /\ i \in Nat /\ j \in Nat
            /\ 1 <= i /\ j <= P + Q + 1
        BY <1>1
      <4> QED
        BY <2>3, <4>1
    <3>2. Linked(r, i, js[i], P + 1, js[P + 1])
      BY <1>8, <3>1
    <3>3. Linked(r, P + 1, js[P + 1], P + (j - P), js[P + (j - P)])
      BY <1>9, <3>1
    <3>4. Linked(r, P + 1, js[P + 1], j, js[j])
      BY <3>1, <3>3
    <3>5. js[i] \in Nodes /\ js[P + 1] \in Nodes /\ js[j] \in Nodes
      BY <1>1, <1>6, <3>1
    <3> QED
      BY <3>1, <3>2, <3>4, <3>5, LinkedJoined
  <2> QED
    BY <1>1, <2>1, <2>2, <2>3
<1>11. js[1] = x /\ js[P + Q + 1] = z
  <2>1. 1 \in 1 .. P + 1 /\ Q + 1 \in 1 .. Q + 1 /\ P + (Q + 1) = P + Q + 1
    BY <1>1
  <2>2. js[P + (Q + 1)] = z
    BY <1>3, <1>6, <2>1 DEF Q
  <2> QED
    BY <1>2, <1>6, <2>1, <2>2
<1>12. Way(js, r, spoken)
  BY <1>1, <1>6, <1>7, <1>10 DEF Way
<1> QED
  BY <1>1, <1>6, <1>11, <1>12 DEF Path, r

LEMMA PathCut ==
  ASSUME NEW x \in Nodes, NEW y \in Nodes, NEW spoken, NEW q \in Seq(Items),
         NEW n \in 0..Len(q), Path(x, q, y, spoken)
  PROVE  \E z \in Nodes :
           /\ Path(x, SubSeq(q, 1, n), z, spoken)
           /\ Path(z, SubSeq(q, n + 1, Len(q)), y, spoken)
<1> DEFINE L == Len(q)
           p == SubSeq(q, 1, n)
           r == SubSeq(q, n + 1, L)
<1>1. /\ L \in Nat /\ n \in Nat /\ n <= L
      /\ Len(p) = n /\ Len(r) = L - n
      /\ \A k \in 1..n : p[k] = q[k]
      /\ \A k \in 1 .. L - n : r[k] = q[k + n]
  <2>1. L \in Nat
    BY LenProperties
  <2>2. /\ Len(p) = (IF 1 <= n THEN n - 1 + 1 ELSE 0)
        /\ \A k \in 1 .. n - 1 + 1 : p[k] = q[1 + k - 1]
    BY <2>1, SubSeqProperties
  <2>3. /\ Len(r) = (IF n + 1 <= L THEN L - (n + 1) + 1 ELSE 0)
        /\ \A k \in 1 .. L - (n + 1) + 1 : r[k] = q[(n + 1) + k - 1]
    BY <2>1, SubSeqProperties
  <2> HIDE DEF L, p, r
  <2>4. n \in 0..L
    BY DEF L
  <2>5. \A k \in 1..n : k \in 1 .. n - 1 + 1 /\ 1 + k - 1 = k
    BY <2>1, <2>4
  <2>6. \A k \in 1 .. L - n : k \in 1 .. L - (n + 1) + 1 /\ (n + 1) + k - 1 = k + n
    BY <2>1, <2>4
  <2>7. Len(p) = n /\ Len(r) = L - n
    BY <2>1, <2>2, <2>3, <2>4
  <2>8. \A k \in 1..n : p[k] = q[k]
    BY <2>2, <2>5
  <2>9. \A k \in 1 .. L - n : r[k] = q[k + n]
    BY <2>3, <2>6
  <2> QED
    BY <2>1, <2>4, <2>7, <2>8, <2>9
<1>2. PICK ns \in [1 .. L + 1 -> Nodes] :
        Way(ns, q, spoken) /\ ns[1] = x /\ ns[L + 1] = y
  BY DEF Path
<1>3. /\ \A i \in 1..L : Leads(ns[i], q[i], ns[i + 1], spoken)
      /\ \A i, j \in 1 .. L + 1 : i <= j => Linked(q, i, ns[i], j, ns[j])
  BY <1>2 DEF Way
<1> HIDE DEF L, p, r
<1> DEFINE ms == [i \in 1 .. n + 1 |-> ns[i]]
           js == [i \in 1 .. L - n + 1 |-> ns[i + n]]
<1>4. /\ n + 1 \in 1 .. L + 1 /\ 1 \in 1 .. n + 1 /\ n + 1 \in 1 .. n + 1
      /\ 1 \in 1 .. L - n + 1 /\ L - n + 1 \in 1 .. L - n + 1
      /\ (L - n + 1) + n = L + 1 /\ 1 + n = n + 1
      /\ \A i \in 1 .. n + 1 : i \in 1 .. L + 1
      /\ \A i \in 1 .. L - n + 1 : i + n \in 1 .. L + 1
  BY <1>1
<1>5. /\ ms \in [1 .. n + 1 -> Nodes] /\ \A i \in 1 .. n + 1 : ms[i] = ns[i]
      /\ js \in [1 .. L - n + 1 -> Nodes]
      /\ \A i \in 1 .. L - n + 1 : js[i] = ns[i + n]
  BY <1>2, <1>4
<1> HIDE DEF ms, js
<1>6. Way(ms, p, spoken)
  <2>1. ASSUME NEW i \in 1..n
        PROVE  Leads(ms[i], p[i], ms[i + 1], spoken)
    <3>1. i \in 1..L /\ i \in 1 .. n + 1 /\ i + 1 \in 1 .. n + 1
      BY <1>1
    <3> QED
      BY <1>1, <1>3, <1>5, <3>1
  <2>2. ASSUME NEW i \in 1 .. n + 1, NEW j \in 1 .. n + 1, i <= j
        PROVE  Linked(p, i, ms[i], j, ms[j])
    <3>1. /\ i \in Nat /\ j \in Nat /\ 0 \in Int /\ i + 0 = i /\ j + 0 = j
          /\ \A k \in i .. j - 1 : k \in 1..n /\ k + 0 = k
      BY <1>1, <2>2
    <3>2. \A k \in i .. j - 1 : p[k + 0] = q[k]
      BY <1>1, <3>1
    <3>3. Linked(q, i, ns[i], j, ns[j])
      BY <1>3, <1>4, <2>2
    <3>4. Linked(p, i + 0, ns[i], j + 0, ns[j])
      BY <3>1, <3>2, <3>3, LinkedShifted
    <3> QED
      BY <1>5, <3>1, <3>4
  <2> QED
    BY <1>1, <1>5, <2>1, <2>2 DEF Way
<1>7. Way(js, r, spoken)
  <2>1. ASSUME NEW i \in 1 .. L - n
        PROVE  Leads(js[i], r[i], js[i + 1], spoken)
    <3>1. /\ i + n \in 1..L /\ i \in 1 .. L - n + 1 /\ i + 1 \in 1 .. L - n + 1
          /\ (i + 1) + n = (i + n) + 1
      BY <1>1
    <3>2. Leads(ns[i + n], q[i + n], ns[(i + n) + 1], spoken)
      BY <1>3, <3>1
    <3>3. js[i] = ns[i + n] /\ js[i + 1] = ns[(i + n) + 1] /\ r[i] = q[i + n]
      BY <1>1, <1>5, <3>1
    <3> QED
      BY <3>2, <3>3
  <2>2. ASSUME NEW i \in 1 .. L - n + 1, NEW j \in 1 .. L - n + 1, i <= j
        PROVE  Linked(r, i, js[i], j, js[j])
    <3>1. /\ i + n \in Nat /\ j + n \in Nat /\ i + n <= j + n /\ 0 - n \in Int
          /\ (i + n) + (0 - n) = i /\ (j + n) + (0 - n) = j
          /\ i + n \in 1 .. L + 1 /\ j + n \in 1 .. L + 1
      <4>1. /\ i \in Int /\ j \in Int /\ n \in Nat /\ L \in Nat /\ n <= L
            /\ 1 <= i /\ i <= j /\ j <= L - n + 1
        BY <1>1, <2>2
      <4>2. i + n <= L + 1 /\ j + n <= L + 1 /\ 1 <= i + n /\ 1 <= j + n
        BY <4>1
      <4> QED
        BY <4>1, <4>2
    <3>2. ASSUME NEW k \in i + n .. (j + n) - 1
          PROVE  r[k + (0 - n)] = q[k]
      <4>1. k \in Int /\ i \in Int /\ j \in Int /\ i >= 1 /\ j <= L - n + 1
            /\ k >= i + n /\ k <= (j + n) - 1
        BY <1>1, <2>2, <3>1
      <4>2. k + (0 - n) \in 1 .. L - n /\ (k + (0 - n)) + n = k
        BY <1>1, <4>1
      <4> QED
        BY <1>1, <4>2
    <3>3. Linked(q, i + n, ns[i + n], j + n, ns[j + n])
      BY <1>3, <3>1
    <3>4. Linked(r, (i + n) + (0 - n), ns[i + n], (j + n) + (0 - n), ns[j + n])
      BY <3>1, <3>2, <3>3, LinkedShifted
    <3> QED
      BY <1>5, <3>1, <3>4
  <2> QED
    BY <1>1, <1>5, <2>1, <2>2 DEF Way
<1>8. Path(x, p, ms[n + 1], spoken)
  BY <1>1, <1>2, <1>4, <1>5, <1>6 DEF Path
<1>9. Path(js[1], r, y, spoken)
  <2>1. Len(r) + 1 = L - n + 1
    BY <1>1
  <2>2. js[L - n + 1] = y
    BY <1>2, <1>4, <1>5
  <2> QED
    BY <1>5, <1>7, <2>1, <2>2 DEF Path
<1>10. ms[n + 1] = js[1] /\ js[1] \in Nodes
  BY <1>4, <1>5
<1> QED
  BY <1>8, <1>9, <1>10 DEF p, r, L

-----------------------------------------------------------------------------
(***************************************************************************)
(* What paths begin and end with.                                          *)
(***************************************************************************)
LEMMA PathWay ==
  ASSUME NEW x, NEW y, NEW spoken, NEW q \in Seq(Items), Path(x, q, y, spoken)
  PROVE  /\ Len(q) \in Nat /\ \A i \in 1..Len(q) : q[i] \in Items
         /\ \E ns \in [1 .. Len(q) + 1 -> Nodes] :
              /\ ns[1] = x /\ ns[Len(q) + 1] = y
              /\ \A i \in 1..Len(q) : Leads(ns[i], q[i], ns[i + 1], spoken)
              /\ \A i, j \in 1 .. Len(q) + 1 :
                   i <= j => Linked(q, i, ns[i], j, ns[j])
<1>1. Len(q) \in Nat /\ \A i \in 1..Len(q) : q[i] \in Items
  BY LenProperties, ElementOfSeq
<1>2. PICK ns \in [1 .. Len(q) + 1 -> Nodes] :
        Way(ns, q, spoken) /\ ns[1] = x /\ ns[Len(q) + 1] = y
  BY DEF Path
<1>3. /\ \A i \in 1..Len(q) : Leads(ns[i], q[i], ns[i + 1], spoken)
      /\ \A i, j \in 1 .. Len(q) + 1 : i <= j => Linked(q, i, ns[i], j, ns[j])
  BY <1>2 DEF Way
<1> QED
  BY <1>1, <1>2, <1>3

LEMMA PathLater ==
  ASSUME NEW x, NEW y, NEW spoken, NEW q \in Seq(Items), Path(x, q, y, spoken)
  PROVE  Later(x.at, y.at)
<1>1. PICK ns \in [1 .. Len(q) + 1 -> Nodes] :
        /\ ns[1] = x /\ ns[Len(q) + 1] = y
        /\ \A i \in 1..Len(q) : Leads(ns[i], q[i], ns[i + 1], spoken)
        /\ \A i, j \in 1 .. Len(q) + 1 : i <= j => Linked(q, i, ns[i], j, ns[j])
  BY PathWay
<1>2. Len(q) \in Nat
  BY LenProperties
<1>3. 1 \in 1 .. Len(q) + 1 /\ Len(q) + 1 \in 1 .. Len(q) + 1 /\ 1 <= Len(q) + 1
  BY <1>2
<1>4. Linked(q, 1, ns[1], Len(q) + 1, ns[Len(q) + 1])
  BY <1>1, <1>3
<1> QED
  BY <1>1, <1>4 DEF Linked

LEMMA PathOnce ==
  ASSUME NEW x, NEW y, NEW spoken, NEW q \in Seq(Items), Path(x, q, y, spoken)
  PROVE  Len(q) = 1 => Leads(x, q[1], y, spoken)
<1>1. PICK ns \in [1 .. Len(q) + 1 -> Nodes] :
        /\ ns[1] = x /\ ns[Len(q) + 1] = y
        /\ \A i \in 1..Len(q) : Leads(ns[i], q[i], ns[i + 1], spoken)
        /\ \A i, j \in 1 .. Len(q) + 1 : i <= j => Linked(q, i, ns[i], j, ns[j])
  BY PathWay
<1>2. HAVE Len(q) = 1
<1>3. 1 \in 1..Len(q) /\ Len(q) + 1 = 1 + 1
  BY <1>2
<1>4. Leads(ns[1], q[1], ns[1 + 1], spoken)
  BY <1>1, <1>3
<1> QED
  BY <1>1, <1>3, <1>4

LEMMA PathHead ==
  ASSUME NEW x \in Nodes, NEW y \in Nodes, NEW spoken, NEW q \in Seq(Items),
         q # <<>>, Path(x, q, y, spoken)
  PROVE  \E z \in Nodes :
           /\ Leads(x, q[1], z, spoken)
           /\ Path(z, SubSeq(q, 2, Len(q)), y, spoken)
<1>1. Len(q) \in Nat /\ Len(q) # 0
  BY LenProperties, EmptySeq
<1>2. 1 \in 0..Len(q) /\ 1 + 1 = 2
  BY <1>1
<1>3. PICK z \in Nodes :
        /\ Path(x, SubSeq(q, 1, 1), z, spoken)
        /\ Path(z, SubSeq(q, 1 + 1, Len(q)), y, spoken)
  BY <1>2, PathCut
<1>4. /\ SubSeq(q, 1, 1) \in Seq(Items) /\ Len(SubSeq(q, 1, 1)) = 1
      /\ SubSeq(q, 1, 1)[1] = q[1]
  BY <1>1, SubSeqProperties
<1>5. Leads(x, q[1], z, spoken)
  BY <1>3, <1>4, PathOnce
<1> QED
  BY <1>2, <1>3, <1>5

\* Where a step may go.
LEMMA LeadsAway ==
  ASSUME NEW x \in Nodes, NEW y \in Nodes, NEW item, NEW spoken,
         Leads(x, item, y, spoken)
  PROVE  /\ x.at \notin {"told", "asked", "answered", "last"}
         /\ x.at \in {"start", "uin", "greeted", "silentOffered",
                      "silentAnswered", "offers", "answers", "info", "ackSize"}
              => ~Later(y.at, x.at)
<1>1. CASE GreetingLeads(x, item, y)
  BY <1>1, NodeType DEF GreetingLeads, Later, Names
<1>2. CASE OfferLeads(x, item, y)
  <2>1. \/ x.at = "offers" /\ y.at \in {"info", "asked"}
        \/ x.at = "answers" /\ y.at \in {"ackSize", "voice"}
        \/ x.at = "info" /\ y.at = "told"
        \/ x.at = "ackSize" /\ y.at = "answered"
    BY <1>2, NodeType DEF OfferLeads, At, Node
  <2> QED
    BY <2>1 DEF Later
<1>3. CASE FileLeads(x, item, y)
  BY <1>3 DEF FileLeads
<1>4. CASE VoiceLeads(x, item, y, spoken)
  BY <1>4 DEF VoiceLeads
<1> QED
  BY <1>1, <1>2, <1>3, <1>4 DEF Leads

\* On a path to where it began nothing lies, but for data and frames.
LEMMA PathStill ==
  ASSUME NEW x \in Nodes, NEW y \in Nodes, NEW spoken, NEW q \in Seq(Items),
         Path(x, q, y, spoken), x.at = y.at \/ x.at = "answered",
         x.at \notin {"chunk", "header", "voice", "size"}
  PROVE  q = <<>> /\ x = y
<1>1. CASE q # <<>>
  <2>1. PICK z \in Nodes : /\ Leads(x, q[1], z, spoken)
                           /\ Path(z, SubSeq(q, 2, Len(q)), y, spoken)
    BY <1>1, PathHead
  <2>2. SubSeq(q, 2, Len(q)) \in Seq(Items)
    BY LenProperties, SubSeqProperties
  <2>3. Later(z.at, y.at)
    BY <2>1, <2>2, PathLater
  <2>4. x.at \notin {"told", "asked", "answered", "last"} /\ x.at \in Names
    BY <2>1, LeadsAway DEF Nodes
  <2> QED
    BY <2>1, <2>3, <2>4, LeadsAway DEF Names
<1>2. CASE q = <<>>
  BY <1>2, PathEnd
<1> QED
  BY <1>1, <1>2

\* The frames a path depends on are those that were spoken first.
LEMMA PathSpoken ==
  ASSUME NEW x, NEW y, NEW spoken \in Seq(Nat), NEW n \in Nat, NEW q \in Seq(Items),
         Path(x, q, y, spoken)
  PROVE  Path(x, q, y, Append(spoken, n))
<1> DEFINE more == Append(spoken, n)
<1>1. /\ Len(spoken) \in Nat /\ Len(more) = Len(spoken) + 1
      /\ \A i \in 1..Len(spoken) : more[i] = spoken[i]
  BY LenProperties, AppendProperties
<1> HIDE DEF more
<1>2. ASSUME NEW a \in Nodes, NEW b, NEW item, Leads(a, item, b, spoken)
      PROVE  Leads(a, item, b, more)
  <2>1. CASE VoiceLeads(a, item, b, spoken)
    <3>1. a.pos \in Nat
      BY DEF Nodes
    <3>2. ASSUME a.pos < Len(spoken)
          PROVE  a.pos < Len(more) /\ more[a.pos + 1] = spoken[a.pos + 1]
      <4>1. a.pos + 1 \in 1..Len(spoken) /\ a.pos < Len(more)
        BY <1>1, <3>1, <3>2
      <4> QED
        BY <1>1, <4>1
    <3>3. VoiceLeads(a, item, b, more)
      BY <2>1, <3>2 DEF VoiceLeads
    <3> QED
      BY <3>3 DEF Leads
  <2> QED
    BY <1>2, <2>1 DEF Leads
<1>3. PICK ns \in [1 .. Len(q) + 1 -> Nodes] :
        Way(ns, q, spoken) /\ ns[1] = x /\ ns[Len(q) + 1] = y
  BY DEF Path
<1>4. \A i \in 1..Len(q) : i \in 1 .. Len(q) + 1
  BY LenProperties
<1>5. \A i \in 1..Len(q) : Leads(ns[i], q[i], ns[i + 1], more)
  BY <1>2, <1>3, <1>4 DEF Way
<1>6. Way(ns, q, more)
  BY <1>3, <1>5 DEF Way
<1>7. Path(x, q, y, more)
  BY <1>3, <1>6 DEF Path
<1> QED
  BY <1>7 DEF more

-----------------------------------------------------------------------------
(***************************************************************************)
(* The units of a chunk or a frame, and the data of the file.              *)
(***************************************************************************)
\* The i-th unit behind a node.
Unit(x, i) == IF x.at = "chunk" THEN Item("data", x.pos + i)
                                ELSE Item("voice", x.pos)

LEMMA AheadType ==
  ASSUME NEW x \in Nodes, NEW k \in Nat, k <= x.left
  PROVE  /\ Ahead(x, k) \in Nodes /\ Ahead(x, k).at = x.at
         /\ Ahead(x, k).left = x.left - k
         /\ Ahead(x, k).pos = IF x.at = "chunk" THEN x.pos + k ELSE x.pos
BY DEF Ahead, Node, Nodes

LEMMA AheadTwice ==
  ASSUME NEW x \in Nodes, NEW i \in Nat, NEW j \in Nat, i + j <= x.left
  PROVE  Ahead(Ahead(x, i), j) = Ahead(x, i + j)
<1>1. x.left \in Nat /\ x.pos \in Nat /\ i <= x.left
  BY DEF Nodes
<1>2. /\ Ahead(x, i).at = x.at /\ Ahead(x, i).left = x.left - i
      /\ Ahead(x, i).pos = IF x.at = "chunk" THEN x.pos + i ELSE x.pos
  BY <1>1, AheadType
<1>3. (x.left - i) - j = x.left - (i + j) /\ (x.pos + i) + j = x.pos + (i + j)
  BY <1>1
<1> QED
  BY <1>2, <1>3 DEF Ahead

LEMMA UnitLeads ==
  ASSUME NEW x \in Nodes, x.at \in {"chunk", "voice"}, x.left > 0, NEW spoken
  PROVE  Leads(x, Unit(x, 1), Ahead(x, 1), spoken)
BY DEF Leads, FileLeads, VoiceLeads, Unit, Ahead

\* Units that are missing come one after the other.
LEMMA UnitPath ==
  ASSUME NEW x \in Nodes, x.at \in {"chunk", "voice"}, NEW q \in Seq(Items),
         Len(q) <= x.left, \A i \in 1..Len(q) : q[i] = Unit(x, i), NEW spoken
  PROVE  Path(x, q, Ahead(x, Len(q)), spoken)
<1> DEFINE L == Len(q)
           ns == [i \in 1 .. L + 1 |-> Ahead(x, i - 1)]
<1>1. L \in Nat /\ x.left \in Nat /\ x.pos \in Nat /\ L <= x.left
      /\ \A i \in 1..L : q[i] = Unit(x, i)
  BY LenProperties DEF Nodes
<1> HIDE DEF L
<1>2. \A i \in 1 .. L + 1 : i - 1 \in Nat /\ i - 1 <= x.left
  BY <1>1
<1>3. ns \in [1 .. L + 1 -> Nodes] /\ \A i \in 1 .. L + 1 : ns[i] = Ahead(x, i - 1)
  BY <1>2, AheadType
<1> HIDE DEF ns
<1>4. ASSUME NEW i \in 1..L
      PROVE  Leads(ns[i], q[i], ns[i + 1], spoken)
  <2>1. /\ i \in 1 .. L + 1 /\ i + 1 \in 1 .. L + 1 /\ (i + 1) - 1 = i
        /\ i - 1 \in Nat /\ i - 1 <= x.left /\ (i - 1) + 1 = i
        /\ (i - 1) + 1 <= x.left /\ x.left - (i - 1) > 0
        /\ (x.pos + (i - 1)) + 1 = x.pos + i
    BY <1>1
  <2>2. /\ ns[i] \in Nodes /\ ns[i].at = x.at /\ ns[i].left = x.left - (i - 1)
        /\ ns[i].pos = IF x.at = "chunk" THEN x.pos + (i - 1) ELSE x.pos
    BY <1>3, <2>1, AheadType
  <2>3. Ahead(ns[i], 1) = Ahead(x, (i - 1) + 1)
    BY <1>3, <2>1, AheadTwice
  <2>4. ns[i + 1] = Ahead(ns[i], 1)
    BY <1>3, <2>1, <2>3
  <2>5. Unit(ns[i], 1) = Unit(x, i)
    BY <2>1, <2>2 DEF Unit
  <2>6. Leads(ns[i], Unit(ns[i], 1), Ahead(ns[i], 1), spoken)
    BY <2>1, <2>2, UnitLeads
  <2> QED
    BY <1>1, <2>4, <2>5, <2>6
<1>5. ASSUME NEW i \in 1 .. L + 1, NEW j \in 1 .. L + 1, i <= j
      PROVE  Linked(q, i, ns[i], j, ns[j])
  <2>1. /\ i - 1 \in Nat /\ j - 1 \in Nat /\ j - i \in Nat
        /\ i - 1 <= x.left /\ j - 1 <= x.left
        /\ (i - 1) + (j - i) = j - 1 /\ (i - 1) + (j - i) <= x.left
    BY <1>1, <1>5
  <2>2. /\ ns[i].at = x.at /\ ns[j].at = x.at
        /\ ns[i].pos = IF x.at = "chunk" THEN x.pos + (i - 1) ELSE x.pos
        /\ ns[j].pos = IF x.at = "chunk" THEN x.pos + (j - 1) ELSE x.pos
    BY <1>3, <2>1, AheadType
  <2>3. ns[j] = Ahead(ns[i], j - i)
    <3>1. Ahead(Ahead(x, i - 1), j - i) = Ahead(x, (i - 1) + (j - i))
      BY <2>1, AheadTwice
    <3> QED
      BY <1>3, <2>1, <3>1
  <2>4. ASSUME x.at = "chunk"
        PROVE  /\ ns[i].pos <= ns[j].pos
               /\ \A n \in ns[i].pos + 1 .. ns[j].pos :
                    \E k \in i .. j - 1 : q[k] = Item("data", n)
    <3>1. ns[i].pos = x.pos + (i - 1) /\ ns[j].pos = x.pos + (j - 1)
      BY <2>2, <2>4
    <3>2. ASSUME NEW n \in ns[i].pos + 1 .. ns[j].pos
          PROVE  n - x.pos \in i .. j - 1 /\ q[n - x.pos] = Item("data", n)
      <4>1. /\ n \in Int /\ i \in Int /\ j \in Int
            /\ x.pos + i <= n /\ n <= x.pos + (j - 1) /\ 1 <= i /\ j <= L + 1
        BY <1>1, <3>1
      <4>2. n - x.pos \in i .. j - 1 /\ n - x.pos \in 1..L
            /\ x.pos + (n - x.pos) = n
        BY <1>1, <4>1, SMTT(30)
      <4>3. q[n - x.pos] = Unit(x, n - x.pos)
        BY <1>1, <4>2
      <4> QED
        BY <2>4, <4>2, <4>3 DEF Unit
    <3>3. ns[i].pos <= ns[j].pos
      BY <1>1, <1>5, <3>1
    <3> QED
      BY <3>2, <3>3
  <2>5. x.at \in FileNodes => x.at = "chunk"
    BY DEF FileNodes
  <2> QED
    BY <2>2, <2>3, <2>4, <2>5 DEF Linked, Later
<1>6. /\ 1 \in 1 .. L + 1 /\ L + 1 \in 1 .. L + 1 /\ 1 - 1 = 0
      /\ (L + 1) - 1 = L /\ x.left - 0 = x.left /\ x.pos + 0 = x.pos
  BY <1>1
<1>7. ns[1] = x /\ ns[L + 1] = Ahead(x, L)
  <2>1. x = Node(x.at, x.left, x.pos)
    BY DEF Nodes, Node
  <2>2. Ahead(x, 0) = x
    BY <1>6, <2>1 DEF Ahead
  <2> QED
    BY <1>3, <1>6, <2>2
<1>8. Way(ns, q, spoken)
  BY <1>3, <1>4, <1>5 DEF Way, L
<1> QED
  BY <1>3, <1>7, <1>8 DEF Path, L

\* A path within a chunk or a frame leads along its units.
LEMMA PathUnits ==
  ASSUME NEW x \in Nodes, x.at \in {"chunk", "voice"}, NEW y, NEW spoken,
         NEW q \in Seq(Items), Len(q) <= x.left, Path(x, q, y, spoken)
  PROVE  y = Ahead(x, Len(q)) /\ \A i \in 1..Len(q) : q[i] = Unit(x, i)
<1> DEFINE L == Len(q)
<1>1. L \in Nat /\ x.left \in Nat /\ x.pos \in Nat /\ L <= x.left
  BY LenProperties DEF Nodes
<1>2. PICK ns \in [1 .. L + 1 -> Nodes] :
        /\ ns[1] = x /\ ns[L + 1] = y
        /\ \A i \in 1..L : Leads(ns[i], q[i], ns[i + 1], spoken)
        /\ \A i, j \in 1 .. L + 1 : i <= j => Linked(q, i, ns[i], j, ns[j])
  BY PathWay
<1> HIDE DEF L
<1>3. ASSUME NEW i \in 1 .. L + 1
      PROVE  ns[i] = Ahead(x, i - 1) /\ i - 1 \in Nat /\ i - 1 <= x.left
  <2>1. 1 \in 1 .. L + 1 /\ 1 <= i /\ i - 1 \in Nat /\ i - 1 <= x.left
    BY <1>1
  <2>2. Linked(q, 1, ns[1], i, ns[i])
    BY <1>2, <2>1
  <2> QED
    BY <1>2, <2>1, <2>2 DEF Linked
<1>4. ASSUME NEW i \in 1..L
      PROVE  q[i] = Unit(x, i)
  <2>1. i \in 1 .. L + 1 /\ x.left - (i - 1) > 0 /\ (x.pos + (i - 1)) + 1 = x.pos + i
    BY <1>1
  <2>2. /\ ns[i] \in Nodes /\ ns[i].at = x.at /\ ns[i].left = x.left - (i - 1)
        /\ ns[i].pos = IF x.at = "chunk" THEN x.pos + (i - 1) ELSE x.pos
    BY <1>3, <2>1, AheadType
  <2>3. Leads(ns[i], q[i], ns[i + 1], spoken)
    BY <1>2
  <2>4. q[i] = Unit(ns[i], 1)
    BY <2>1, <2>2, <2>3
    DEF Leads, GreetingLeads, OfferLeads, FileLeads, VoiceLeads, Unit
  <2> QED
    BY <2>1, <2>2, <2>4 DEF Unit
<1>5. y = Ahead(x, L)
  <2>1. L + 1 \in 1 .. L + 1 /\ (L + 1) - 1 = L
    BY <1>1
  <2> QED
    BY <1>2, <1>3, <2>1
<1> QED
  BY <1>4, <1>5 DEF L

\* A step along data of the file.
LEMMA DataLeads ==
  ASSUME NEW x, NEW y, NEW item, NEW spoken, Leads(x, item, y, spoken),
         item.kind = "data"
  PROVE  x.at = "chunk" /\ item = Item("data", x.pos + 1)
         /\ y = Node("chunk", x.left - 1, x.pos + 1)
BY DEF Leads, GreetingLeads, OfferLeads, FileLeads, VoiceLeads, Item

\* What a path carries of the file: all that lies between its two ends, in
\* order and once.
LEMMA PathData ==
  ASSUME NEW x \in Nodes, NEW y \in Nodes, NEW spoken, NEW q \in Seq(Items),
         Path(x, q, y, spoken)
  PROVE  /\ x.at \in FileNodes =>
              /\ x.pos <= y.pos
              /\ \A n \in x.pos + 1 .. y.pos :
                   \E k \in 1..Len(q) : q[k] = Item("data", n)
         /\ x.at \notin FileNodes => \A k \in 1..Len(q) : q[k].kind # "data"
         /\ \A k \in 1..Len(q) : q[k].kind = "data" =>
              q[k].val \in x.pos + 1 .. y.pos
         /\ \A j, k \in 1..Len(q) :
              j < k /\ q[j].kind = "data" /\ q[k].kind = "data" =>
                q[j].val < q[k].val
<1> DEFINE L == Len(q)
<1>1. L \in Nat /\ x.pos \in Nat /\ y.pos \in Nat
  BY LenProperties DEF Nodes
<1>2. PICK ns \in [1 .. L + 1 -> Nodes] :
        /\ ns[1] = x /\ ns[L + 1] = y
        /\ \A i \in 1..L : Leads(ns[i], q[i], ns[i + 1], spoken)
        /\ \A i, j \in 1 .. L + 1 : i <= j => Linked(q, i, ns[i], j, ns[j])
  BY PathWay
<1> HIDE DEF L
<1>3. 1 \in 1 .. L + 1 /\ L + 1 \in 1 .. L + 1 /\ 1 <= L + 1 /\ (L + 1) - 1 = L
  BY <1>1
<1>4. Linked(q, 1, x, L + 1, y)
  BY <1>2, <1>3
<1>5. x.at \in FileNodes =>
        /\ x.pos <= y.pos
        /\ \A n \in x.pos + 1 .. y.pos : \E k \in 1..L : q[k] = Item("data", n)
  BY <1>3, <1>4 DEF Linked
<1>6. ASSUME NEW k \in 1..L, q[k].kind = "data"
      PROVE  /\ ns[k].at = "chunk" /\ x.at \in FileNodes
             /\ q[k].val = ns[k].pos + 1 /\ ns[k + 1].at = "chunk"
             /\ q[k].val = ns[k + 1].pos
             /\ k \in 1 .. L + 1 /\ k + 1 \in 1 .. L + 1
             /\ ns[k].pos \in Nat /\ ns[k + 1].pos \in Nat
             /\ x.pos <= ns[k].pos /\ ns[k + 1].pos <= y.pos
  <2>1. k \in 1 .. L + 1 /\ k + 1 \in 1 .. L + 1 /\ 1 <= k /\ k + 1 <= L + 1
    BY <1>1
  <2>2. ns[k] \in Nodes /\ ns[k + 1] \in Nodes
    BY <1>2, <2>1
  <2>3. Leads(ns[k], q[k], ns[k + 1], spoken)
    BY <1>2
  <2>4. /\ ns[k].at = "chunk" /\ q[k] = Item("data", ns[k].pos + 1)
        /\ ns[k + 1] = Node("chunk", ns[k].left - 1, ns[k].pos + 1)
    BY <1>6, <2>3, DataLeads
  <2>5. /\ ns[k].at = "chunk" /\ ns[k + 1].at = "chunk"
        /\ q[k].val = ns[k].pos + 1 /\ ns[k + 1].pos = ns[k].pos + 1
    BY <2>4 DEF Item, Node
  <2>6. ns[k].pos \in Nat /\ ns[k + 1].pos \in Nat
    BY <2>2 DEF Nodes
  <2>7. Linked(q, 1, x, k, ns[k])
    BY <1>2, <1>3, <2>1
  <2>8. Linked(q, k + 1, ns[k + 1], L + 1, y)
    BY <1>2, <1>3, <2>1
  <2>9. x.at \in FileNodes
    BY <2>5, <2>7 DEF Linked, Later, FileNodes
  <2>10. x.pos <= ns[k].pos
    BY <2>7, <2>9 DEF Linked
  <2>11. ns[k + 1].pos <= y.pos
    BY <2>5, <2>8 DEF Linked, FileNodes
  <2> QED
    BY <2>1, <2>5, <2>6, <2>9, <2>10, <2>11
<1>7. ASSUME NEW j \in 1..L, NEW k \in 1..L, j < k, q[j].kind = "data",
             q[k].kind = "data"
      PROVE  q[j].val < q[k].val
  <2>1. /\ ns[j + 1].at = "chunk" /\ q[j].val = ns[j + 1].pos
        /\ ns[j + 1].pos \in Nat /\ j + 1 \in 1 .. L + 1
    BY <1>6, <1>7
  <2>2. q[k].val = ns[k].pos + 1 /\ ns[k].pos \in Nat /\ k \in 1 .. L + 1
    BY <1>6, <1>7
  <2>3. j + 1 <= k
    BY <1>7
  <2>4. Linked(q, j + 1, ns[j + 1], k, ns[k])
    BY <1>2, <2>1, <2>2, <2>3
  <2>5. ns[j + 1].pos <= ns[k].pos
    BY <2>1, <2>4 DEF Linked, FileNodes
  <2> QED
    BY <2>1, <2>2, <2>5
<1>8. ASSUME NEW k \in 1..L, q[k].kind = "data"
      PROVE  q[k].val \in x.pos + 1 .. y.pos /\ x.at \in FileNodes
  <2>1. /\ q[k].val = ns[k].pos + 1 /\ q[k].val = ns[k + 1].pos
        /\ ns[k].pos \in Nat /\ x.pos <= ns[k].pos /\ ns[k + 1].pos <= y.pos
        /\ x.at \in FileNodes
    BY <1>6, <1>8
  <2> QED
    BY <1>1, <2>1
<1> QED
  BY <1>5, <1>7, <1>8 DEF L

-----------------------------------------------------------------------------
(***************************************************************************)
(* The packets that are written, as paths.                                 *)
(***************************************************************************)
LEMMA PathTwo ==
  ASSUME NEW x \in Nodes, NEW y \in Nodes, NEW z \in Nodes, NEW spoken,
         NEW a \in Items, NEW b \in Items,
         Leads(x, a, y, spoken), Leads(y, b, z, spoken)
  PROVE  Path(x, <<a, b>>, z, spoken)
<1>1. Path(x, <<a>>, y, spoken) /\ Path(y, <<b>>, z, spoken)
  BY PathOne
<1>2. <<a>> \in Seq(Items) /\ <<b>> \in Seq(Items)
  OBVIOUS
<1>3. Path(x, <<a>> \o <<b>>, z, spoken)
  BY <1>1, <1>2, PathJoined
<1>4. <<a>> \o <<b>> = <<a, b>>
  <2> DEFINE s == <<a>>
             t == <<b>>
             st == <<a, b>>
  <2>1. /\ s \in Seq(Items) /\ Len(s) = 1 /\ s[1] = a
        /\ t \in Seq(Items) /\ Len(t) = 1 /\ t[1] = b
        /\ st \in Seq(Items) /\ Len(st) = 2 /\ st[1] = a /\ st[2] = b
    OBVIOUS
  <2> HIDE DEF s, t, st
  <2>2. /\ s \o t \in Seq(Items) /\ Len(s \o t) = Len(s) + Len(t)
        /\ \A i \in 1 .. Len(s) + Len(t) :
             (s \o t)[i] = IF i <= Len(s) THEN s[i] ELSE t[i - Len(s)]
    BY <2>1, ConcatProperties
  <2>3. /\ s \o t \in Seq(Items) /\ Len(s \o t) = 2
        /\ \A i \in 1..2 : (s \o t)[i] = st[i]
    BY <2>1, <2>2
  <2>4. s \o t = st
    BY <2>1, <2>3, SeqEqual
  <2> QED
    BY <2>4 DEF s, t, st
<1> QED
  BY <1>3, <1>4

LEMMA FileDataPath ==
  ASSUME NEW left \in Nat, NEW from \in Nat, NEW n \in Nat, n <= left, NEW spoken
  PROVE  Path(Node("chunk", left, from), FileData(from, n),
              Node("chunk", left - n, from + n), spoken)
<1> DEFINE x == Node("chunk", left, from)
           q == FileData(from, n)
<1>1. x \in Nodes /\ x.at = "chunk" /\ x.left = left /\ x.pos = from
  BY NodeType DEF Names
<1>2. q \in Seq(Items) /\ Len(q) = n /\ \A i \in 1..n : q[i] = Item("data", from + i)
  BY FileDataItems
<1> HIDE DEF q, x
<1>3. \A i \in 1..Len(q) : q[i] = Unit(x, i)
  BY <1>1, <1>2 DEF Unit
<1>4. Path(x, q, Ahead(x, Len(q)), spoken)
  BY <1>1, <1>2, <1>3, UnitPath
<1>5. Ahead(x, Len(q)) = Node("chunk", left - n, from + n)
  BY <1>1, <1>2 DEF Ahead
<1> QED
  BY <1>4, <1>5 DEF q, x

\* A frame leads from the end of the one before to its own.
LEMMA FramePath ==
  ASSUME NEW spoken \in Seq(Nat), NEW n \in Nat
  PROVE  Path(Node("voice", 0, Len(spoken)), VoiceFrame(Len(spoken) + 1, n),
              Node("voice", 0, Len(spoken) + 1), Append(spoken, n))
<1> DEFINE k == Len(spoken)
           more == Append(spoken, n)
           head == <<Item("tiny", 3), Item("small", n)>>
           units == [i \in 1..n |-> Item("voice", k + 1)]
           x == Node("voice", 0, k)
           y == Node("size", 0, k)
           z == Node("voice", n, k + 1)
<1>1. k \in Nat /\ k + 1 \in Nat /\ Len(more) = k + 1 /\ more[k + 1] = n
  BY LenProperties, AppendProperties
<1> HIDE DEF k, more
<1>2. /\ x \in Nodes /\ x.at = "voice" /\ x.left = 0 /\ x.pos = k
      /\ y \in Nodes /\ y.at = "size" /\ y.left = 0 /\ y.pos = k
      /\ z \in Nodes /\ z.at = "voice" /\ z.left = n /\ z.pos = k + 1
  <2>1. "voice" \in Names /\ "size" \in Names /\ 0 \in Nat
    BY DEF Names
  <2>2. x \in Nodes /\ x.at = "voice" /\ x.left = 0 /\ x.pos = k
    BY <1>1, <2>1, NodeType
  <2>3. y \in Nodes /\ y.at = "size" /\ y.left = 0 /\ y.pos = k
    BY <1>1, <2>1, NodeType
  <2>4. z \in Nodes /\ z.at = "voice" /\ z.left = n /\ z.pos = k + 1
    BY <1>1, <2>1, NodeType
  <2> QED
    BY <2>2, <2>3, <2>4
<1>3. /\ Item("tiny", 3) \in Items /\ Item("small", n) \in Items
      /\ Item("voice", k + 1) \in Items /\ Item("small", n).kind = "small"
      /\ Item("small", n).val = n
  BY <1>1, ItemType
<1>4. /\ head \in Seq(Items) /\ units \in Seq(Items) /\ Len(units) = n
      /\ \A i \in 1..n : units[i] = Item("voice", k + 1)
  BY <1>3
<1>5. Leads(x, Item("tiny", 3), y, more)
  BY <1>2 DEF Leads, VoiceLeads
<1>6. Leads(y, Item("small", n), z, more)
  <2>1. k < Len(more) /\ Item("small", n).val = more[k + 1]
    BY <1>1, <1>3
  <2> QED
    BY <1>2, <1>3, <2>1 DEF Leads, VoiceLeads
<1>7. VoiceFrame(k + 1, n) = head \o units
  BY DEF VoiceFrame
<1> HIDE DEF x, y, z
<1>8. Path(x, head, z, more)
  BY <1>2, <1>3, <1>5, <1>6, PathTwo
<1> HIDE DEF head, units
<1>9. /\ \A i \in 1..Len(units) : units[i] = Unit(z, i)
      /\ Len(units) <= z.left /\ z.at \in {"chunk", "voice"}
  BY <1>2, <1>4 DEF Unit
<1>10. Path(z, units, Ahead(z, Len(units)), more)
  BY <1>2, <1>4, <1>9, UnitPath
<1>11. Ahead(z, Len(units)) = Node("voice", 0, k + 1)
       /\ Ahead(z, Len(units)) \in Nodes
  <2>1. n - n = 0
    OBVIOUS
  <2>2. Ahead(z, Len(units)) = Node("voice", 0, k + 1)
    BY <1>2, <1>4, <2>1 DEF Ahead
  <2> QED
    BY <1>1, <2>2, NodeType DEF Names
<1>12. Path(x, head \o units, Ahead(z, Len(units)), more)
  BY <1>2, <1>4, <1>8, <1>10, <1>11, PathJoined
<1> QED
  BY <1>7, <1>11, <1>12 DEF k, more, x
-----------------------------------------------------------------------------

Early == {"READING_UIN_1", "READING_UIN_2", "SENDING_ACK", "READING_TYPE"}
Dialling == {"CONNECTING", "READING_ACK", "SENDING_REQUEST"}
Offering == {"SENDING_FILE_INFO", "READING_FILE_ACK", "SENDING_VOICE_REQUEST",
             "READING_VOICE_ACK"}
Answering == {"READING_REQUEST", "READING_FILE_INFO", "SENDING_FILE_ACK"}
Sending == {"SENDING_FILE_HEADER", "SENDING_FILE"}
Getting == {"READING_FILE_HEADER", "GETTING_FILE"}
Talking == {"READING_VOICE_HEADER", "READING_VOICE_SIZE", "READING_VOICE_DATA"}

\* The type of a connection goes with its state.
TypeFits(c) ==
  LET state == h[c].state IN
  /\ state \in Early => c = "callee"
  /\ state \in Dialling => c = "caller"
  /\ h[c].type = "DCC" <=> state \in Early
  /\ state \in Sending \cup {"SENDING_FILE_INFO", "READING_FILE_ACK"} =>
       h[c].type = "SEND"
  /\ state \in Getting \cup Answering => h[c].type = "GET"
  /\ state \in Talking \cup {"SENDING_VOICE_REQUEST", "READING_VOICE_ACK",
       "SENDING_VOICE_ACK"} => h[c].type = "VOICE"

\* The states that go together.
Meets(a, b) ==
  /\ a = "CONNECTING" => b \in {"READING_UIN_1", "READING_UIN_2"}
  /\ a \in {"READING_UIN_1", "READING_UIN_2"} =>
       b \in {"CONNECTING", "READING_ACK"}
  /\ a = "SENDING_ACK" => b = "READING_ACK"
  /\ a = "READING_ACK" => b \in Early
  /\ a = "SENDING_REQUEST" => b = "READING_TYPE"
  /\ a = "READING_TYPE" =>
       b \in {"READING_ACK", "SENDING_REQUEST", "READING_REQUEST"} \cup Offering
  /\ a = "READING_REQUEST" => b \in {"READING_TYPE"} \cup Offering
  /\ a = "SENDING_FILE_INFO" =>
       b \in {"READING_TYPE", "READING_REQUEST", "READING_FILE_INFO"}
  /\ a = "READING_FILE_INFO" => b \in {"SENDING_FILE_INFO", "READING_FILE_ACK"}
  /\ a = "SENDING_FILE_ACK" => b = "READING_FILE_ACK"
  /\ a = "READING_FILE_ACK" =>
       b \in {"READING_TYPE", "READING_FILE_HEADER"} \cup Answering
  /\ a \in Sending => b \in Getting
  /\ a = "READING_FILE_HEADER" => b \in {"READING_FILE_ACK"} \cup Sending
  /\ a = "GETTING_FILE" => b \in Sending
  /\ a = "SENDING_VOICE_REQUEST" => b \in {"READING_TYPE", "READING_REQUEST"}
  /\ a = "READING_VOICE_ACK" =>
       b \in {"READING_TYPE", "READING_REQUEST", "SENDING_VOICE_ACK",
              "READING_VOICE_HEADER"}
  /\ a = "SENDING_VOICE_ACK" => b = "READING_VOICE_ACK"
  /\ a = "READING_VOICE_HEADER" => b \in {"READING_VOICE_ACK"} \cup Talking
  /\ a \in {"READING_VOICE_SIZE", "READING_VOICE_DATA"} => b \in Talking

\* The other one has read of an offer only what was written of it.
Together(c) ==
  /\ Meets(h[c].state, h[Other(c)].state)
  /\ h[c].state = "SENDING_FILE_INFO" /\ verdict[c] = "running" =>
       h[Other(c)].state # "READING_FILE_INFO"

LifeFits(c) ==
  life[c] = "none" => h[c].state = "READING_UIN_1" /\ verdict[c] = "running"

\* Only a client that was called writes less than it wanted.
CutLate == cut => h["callee"].state \in Sending \cup Talking

Roles ==
  /\ \A c \in Clients : TypeFits(c) /\ Together(c) /\ LifeFits(c)
  /\ CutLate /\ RolesAgree

-----------------------------------------------------------------------------
Left(c) == h[c].chunkSize - h[c].chunkOffset
Pos == resume + Len(got)

\* The node at which c reads.
Stands(c, x) ==
  LET state == h[c].state IN
  /\ state = "READING_UIN_1" => x = At("start")
  /\ state = "READING_UIN_2" => x = At("uin")
  /\ state \in {"SENDING_ACK", "READING_TYPE"} => x = At("greeted")
  /\ state \in {"CONNECTING", "READING_ACK"} =>
       x = At(IF h[c].type = "GET" THEN "silentOffered" ELSE "silentAnswered")
  /\ state = "SENDING_REQUEST" =>
       x = At(IF h[c].type = "GET" THEN "offers" ELSE "answers")
  /\ state = "READING_REQUEST" => x = At("offers")
  /\ state \in Offering => x = At("answers")
  /\ state \in Sending => x = Node("answered", 0, resume)
  /\ state = "READING_FILE_INFO" => x = At("info")
  /\ state = "SENDING_FILE_ACK" => x = Node("told", 0, h[c].size)
  /\ state = "READING_FILE_HEADER" =>
       \/ h[c].buf = <<>> /\ x \in {Node("told", 0, h[c].size),
                                    Node("chunk", 0, Pos)}
       \/ h[c].buf # <<>> /\ x = Node("header", 0, Pos)
  /\ state = "GETTING_FILE" => x = Node("chunk", Left(c), Pos)
  /\ state = "SENDING_VOICE_ACK" => x = At("asked")
  /\ state = "READING_VOICE_HEADER" =>
       x \in {At("asked"), Node("voice", 0, Len(heard[c]))}
  /\ state = "READING_VOICE_SIZE" => x = Node("size", 0, Len(heard[c]))
  /\ state = "READING_VOICE_DATA" =>
       x = Node("voice", Left(c), Len(heard[c]) + 1)

\* The node behind what c has written.
Wrote(c, y) ==
  LET state == h[c].state
      called == h[Other(c)].type = "GET"
  IN
  /\ state = "CONNECTING" => y = At("start")
  /\ state \in {"READING_ACK", "SENDING_REQUEST"} => y = At("greeted")
  /\ state \in {"READING_UIN_1", "READING_UIN_2", "SENDING_ACK"} =>
       y = At(IF called THEN "silentOffered" ELSE "silentAnswered")
  /\ state = "READING_TYPE" => y = At(IF called THEN "offers" ELSE "answers")
  /\ state \in Answering \cup {"SENDING_VOICE_ACK"} => y = At("answers")
  /\ state \in {"SENDING_FILE_INFO", "SENDING_VOICE_REQUEST"} =>
       y = At("offers")
  /\ state = "READING_FILE_ACK" => y = Node("told", 0, h[c].size)
  /\ state \in Getting => y = Node("answered", 0, resume)
  /\ state = "SENDING_FILE_HEADER" => y = Node("chunk", 0, h[c].offset)
  /\ state = "SENDING_FILE" =>
       y = IF h[c].chunkSize = 0 THEN Node("last", 0, h[c].offset)
                                 ELSE Node("chunk", Left(c), h[c].offset)
  /\ state = "READING_VOICE_ACK" => y = At("asked")
  /\ state \in Talking => y = Node("voice", 0, Len(said[c]))

\* The node behind what c has written of a packet it did not finish, or of a
\* file it has.
Broken(c, y) ==
  /\ verdict[c] # "running"
  /\ \/ h[c].state = "CONNECTING" /\ y = At("uin")
     \/ h[c].state = "SENDING_FILE_INFO" /\ y = At("info")
     \/ h[c].state = "SENDING_FILE_ACK" /\ y = At("ackSize")
     \/ h[c].state = "SENDING_FILE_HEADER" /\ y = Node("header", 0, h[c].offset)
     \/ /\ h[c].state = "SENDING_FILE" /\ verdict[c] = "DONE"
        /\ y.at = "chunk" /\ y.pos = h[c].offset

Stops(c, y) == Wrote(c, y) \/ Broken(c, y)

\* What is on its way to c leads from where it reads to where the other stands.
StreamLeads(c) ==
  Open(c) /\ ~cut =>
    \E x, y \in Nodes : /\ Stands(c, x) /\ Stops(Other(c), y)
                        /\ Path(x, wire[c], y, said[Other(c)])

\* While a client waits to be answered, nothing of it is on its way.
Hushed(c) ==
  h[c].state = "READING_VOICE_HEADER" /\ Open(c) =>
    (h[Other(c)].state = "READING_VOICE_ACK" => wire[c] = <<>>)

Streams ==
  /\ TypeInv /\ Roles
  /\ \A c \in Clients : StreamLeads(c) /\ Hushed(c)

-----------------------------------------------------------------------------
\* The numbers of a file fit the fields.
NumbersFit == resume < Word /\ file.stat < Word /\ file.actual < Word

\* What the two sides know of the file, and how far they are with it.
FileKnown(c) ==
  LET state == h[c].state IN
  /\ h[c].type = "SEND" /\ h[c].fileFd => h[c].size = file.stat
  /\ state \in Sending \cup {"READING_FILE_ACK"} => h[c].fileFd
  /\ h[c].type \in {"DCC", "GET"} /\ h[c].fileFd =>
       state \in Getting \cup {"SENDING_FILE_ACK"}
  /\ state \in Getting \cup {"SENDING_FILE_ACK"} /\ h[c].fileFd /\ ~cut =>
       h[c].offset = Pos
  /\ state \in Getting => h[c].fileFd
  /\ state \in Getting /\ ~cut => h[c].size = file.stat
  /\ state \in Sending /\ ~cut =>
       /\ resume <= h[c].offset
       /\ h[c].offset # resume => h[c].offset <= file.stat
       /\ h[c].offset # resume /\ h[c].offset = file.stat => verdict[c] = "DONE"
       /\ state = "SENDING_FILE" /\ h[c].chunkSize = 0 => h[c].offset = file.stat

NoFileYet == got # <<>> => \E c \in Clients : h[c].state \in Sending

GotIntact == ~cut => \A i \in DOMAIN got : got[i] = resume + i

\* Who is told DONE, and when.
DoneKnown(c) ==
  verdict[c] = "DONE" =>
    \/ h[c].state \in Getting
    \/ h[c].state = "SENDING_FILE" /\ h[c].offset >= h[c].size

DoneGot(c) ==
  ~cut /\ verdict[c] = "DONE" /\ h[c].type = "GET" =>
    /\ Pos = file.stat
    /\ resume # file.stat => verdict[Other(c)] = "DONE"

\* What a client has of a header, a frame and of a conversation.
HeaderSound(c) ==
  Open(c) /\ ~cut /\ h[c].state = "READING_FILE_HEADER" =>
    \A i \in DOMAIN h[c].buf : h[c].buf[i].kind = "bigType" /\ h[c].buf[i].val # 5

VoiceSound(c) ==
  /\ h[c].state \notin Talking => said[c] = <<>> /\ heard[c] = <<>>
  /\ Open(c) /\ ~cut /\ h[c].state = "READING_VOICE_DATA" =>
       /\ Len(h[c].buf) = h[c].chunkOffset
       /\ Len(heard[c]) < Len(said[Other(c)])
       /\ h[c].chunkSize = said[Other(c)][Len(heard[c]) + 1]
       /\ \A i \in DOMAIN h[c].buf : h[c].buf[i].val = Len(heard[c]) + 1

-----------------------------------------------------------------------------
(***************************************************************************)
(* Where a client reads, and where it stopped to write.                    *)
(***************************************************************************)
LEMMA PolledOpen ==
  ASSUME NEW c \in Clients, NEW state, Polled(c, state)
  PROVE  Open(c) /\ verdict[c] = "running" /\ h[c].state = state
         /\ life[c] = "up"
BY DEF Polled, Open

\* Nothing is cut before a file is sent or the two talk.
LEMMA NotCut ==
  ASSUME Roles, NEW c \in Clients,
         \/ h[c].state \in Early \cup Dialling \cup Offering \cup Answering
         \/ h[c].state = "SENDING_VOICE_ACK"
  PROVE  cut => /\ h[c].state = "READING_VOICE_ACK"
                /\ h[Other(c)].state = "READING_VOICE_HEADER"
<1> SUFFICES ASSUME cut
             PROVE  /\ h[c].state = "READING_VOICE_ACK"
                    /\ h[Other(c)].state = "READING_VOICE_HEADER"
  OBVIOUS
<1>1. h["callee"].state \in Sending \cup Talking
  BY DEF Roles, CutLate
<1>2. c = "caller" /\ Other(c) = "callee"
  BY <1>1 DEF Clients, Other, Early, Dialling, Offering, Answering, Sending,
    Talking
<1>3. Meets(h["caller"].state, h["callee"].state)
      /\ Meets(h["callee"].state, h["caller"].state)
  <2>1. "caller" \in Clients /\ "callee" \in Clients
        /\ Other("caller") = "callee" /\ Other("callee") = "caller"
    BY DEF Clients, Other
  <2> QED
    BY <2>1 DEF Roles, Together
<1> QED
  BY <1>1, <1>2, <1>3 DEF Meets, Early, Dialling, Offering, Answering, Sending,
    Talking, Getting

LEMMA OtherStands ==
  ASSUME NEW c \in Clients, h'[c] = h[c], heard'[c] = heard[c],
         resume' = resume, got' = got, NEW x, Stands(c, x)
  PROVE  Stands(c, x)'
BY DEF Stands, Left, Pos

LEMMA OtherStops ==
  ASSUME NEW c \in Clients, h'[c] = h[c], verdict'[c] = verdict[c],
         said'[c] = said[c], resume' = resume,
         \/ h'[Other(c)].type = "GET" <=> h[Other(c)].type = "GET"
         \/ h[c].state \notin Early,
         NEW x, Stops(c, x)
  PROVE  Stops(c, x)'
<1>1. CASE Wrote(c, x)
  <2>1. Wrote(c, x)'
    BY <1>1 DEF Wrote, Left, Early
  <2> QED
    BY <2>1 DEF Stops
<1>2. CASE Broken(c, x)
  <2>1. Broken(c, x)'
    BY <1>2 DEF Broken
  <2> QED
    BY <2>1 DEF Stops
<1> QED
  BY <1>1, <1>2 DEF Stops

-----------------------------------------------------------------------------
(***************************************************************************)
(* What a step has to keep.                                                *)
(***************************************************************************)
\* RolesAgree, from either side.
Agree(a, b) ==
  /\ a = "SEND" => b \in {"DCC", "GET"}
  /\ a = "GET" => b # "GET"
  /\ a = "VOICE" => b # "SEND"

LEMMA AgreeBoth ==
  ASSUME h \in [Clients -> Structs], NEW c \in Clients,
         \A d \in Clients : TypeFits(d)
  PROVE  RolesAgree <=> Agree(h[c].type, h[Other(c)].type)
<1>1. "caller" \in Clients /\ "callee" \in Clients
      /\ Other("caller") = "callee" /\ Other("callee") = "caller"
      /\ c \in {"caller", "callee"}
  BY DEF Clients, Other
<1>2. h["caller"].type \in Types \ {"DCC"} /\ h["callee"].type \in Types
  BY <1>1 DEF TypeFits, Structs
<1> QED
  BY <1>1, <1>2 DEF RolesAgree, Agree, Types

LEMMA RolesStep ==
  ASSUME TypeOK, TypeOK', Roles, NEW c \in Clients,
         h'[Other(c)] = h[Other(c)], verdict'[Other(c)] = verdict[Other(c)],
         \A d \in Clients : life'[d] = life[d] \/ life'[d] # "none",
         life[c] # "none", TypeFits(c)',
         Meets(h'[c].state, h[Other(c)].state),
         Meets(h[Other(c)].state, h'[c].state),
         h'[c].state = "SENDING_FILE_INFO" /\ verdict'[c] = "running" =>
           h[Other(c)].state # "READING_FILE_INFO",
         h[Other(c)].state = "SENDING_FILE_INFO"
           /\ verdict[Other(c)] = "running" => h'[c].state # "READING_FILE_INFO",
         Agree(h'[c].type, h[Other(c)].type), CutLate'
  PROVE  Roles'
<1> DEFINE o == Other(c)
<1>1. o \in Clients /\ Other(o) = c /\ \A d \in Clients : d = c \/ d = o
  BY OtherClient
<1> HIDE DEF o
<1>2. TypeFits(o)'
  BY <1>1 DEF TypeFits, Roles, o
<1>3. Together(c)' /\ Together(o)'
  BY <1>1 DEF Together, o
<1>4. LifeFits(o)'
  BY <1>1 DEF LifeFits, Roles, o
<1>5. LifeFits(c)'
  BY DEF LifeFits
<1>6. \A d \in Clients : TypeFits(d)'
  BY <1>1, <1>2
<1>7. (h \in [Clients -> Structs])'
  BY DEF TypeOK, Structs
<1>8. RolesAgree'
  <2>1. h'[o] = h[o]
    BY DEF o
  <2>2. Agree(h'[c].type, h'[o].type)
    BY <2>1 DEF o
  <2>3. "caller" \in Clients /\ "callee" \in Clients
        /\ {c, o} = {"caller", "callee"} /\ c # o
    BY <1>1 DEF Clients, Other, o
  <2>4. h'["caller"].type \in Types \ {"DCC"} /\ h'["callee"].type \in Types
    BY <1>6, <1>7, <2>3 DEF TypeFits, Structs
  <2>5. CASE c = "caller" /\ o = "callee"
    BY <2>2, <2>4, <2>5 DEF RolesAgree, Agree, Types
  <2>6. CASE c = "callee" /\ o = "caller"
    BY <2>2, <2>4, <2>6 DEF RolesAgree, Agree, Types
  <2> QED
    BY <2>3, <2>5, <2>6
<1> QED
  BY <1>1, <1>3, <1>4, <1>5, <1>6, <1>8 DEF Roles

\* A step that leaves the structures alone.
LEMMA RolesQuiet ==
  ASSUME Roles, UNCHANGED <<h, cut>>,
         \A d \in Clients : /\ life'[d] = life[d] \/ life'[d] # "none"
                            /\ verdict'[d] = verdict[d] \/ verdict'[d] # "running"
                            /\ life[d] = "none" => verdict'[d] = verdict[d]
  PROVE  Roles'
<1>1. \A d \in Clients : TypeFits(d)' /\ Together(d)' /\ LifeFits(d)'
  BY DEF Roles, TypeFits, Together, LifeFits
<1> QED
  BY <1>1 DEF Roles, CutLate, RolesAgree

\* A step of c that reads: the reader goes on to z.
LEMMA StreamsRead ==
  ASSUME NEW c \in Clients, NEW z \in Nodes, NEW y \in Nodes,
         Stands(c, z)', Stops(Other(c), y)',
         Path(z, wire'[c], y, said[Other(c)]),
         said'[Other(c)] = said[Other(c)]
  PROVE  StreamLeads(c)'
BY DEF StreamLeads

\* What it leaves of the other direction.
LEMMA StreamsKept ==
  ASSUME NEW c \in Clients, StreamLeads(c), wire'[c] = wire[c], cut' = cut,
         Open(c)' => Open(c),
         said'[Other(c)] = said[Other(c)],
         \A x \in Nodes : Stands(c, x) => Stands(c, x)',
         \A y \in Nodes : Stops(Other(c), y) => Stops(Other(c), y)'
  PROVE  StreamLeads(c)'
<1> SUFFICES ASSUME Open(c)', ~cut'
             PROVE  \E x, y \in Nodes :
                      /\ Stands(c, x)' /\ Stops(Other(c), y)'
                      /\ Path(x, wire'[c], y, said'[Other(c)])
  BY DEF StreamLeads
<1>1. PICK x \in Nodes, y \in Nodes :
        Stands(c, x) /\ Stops(Other(c), y)
        /\ Path(x, wire[c], y, said[Other(c)])
  BY DEF StreamLeads
<1> QED
  BY <1>1

\* A step of the other one that writes q.
LEMMA StreamsWritten ==
  ASSUME TypeOK, NEW c \in Clients, StreamLeads(Other(c)), NEW q \in Seq(Items),
         wire' = Sent(c, q), cut' = cut, Open(Other(c))' => Open(Other(c)),
         said'[c] = said[c],
         \A x \in Nodes : Stands(Other(c), x) => Stands(Other(c), x)',
         \A y \in Nodes : Stops(c, y) =>
           \E z \in Nodes : Path(y, q, z, said[c]) /\ Stops(c, z)'
  PROVE  StreamLeads(Other(c))'
<1> DEFINE o == Other(c)
<1>1. o \in Clients /\ Other(o) = c
  BY OtherClient
<1> SUFFICES ASSUME Open(o)', ~cut'
             PROVE  \E x, z \in Nodes :
                      /\ Stands(o, x)' /\ Stops(c, z)'
                      /\ Path(x, wire'[o], z, said'[c])
  BY <1>1 DEF StreamLeads
<1>2. PICK x \in Nodes, y \in Nodes :
        Stands(o, x) /\ Stops(c, y) /\ Path(x, wire[o], y, said[c])
  BY <1>1 DEF StreamLeads
<1>3. PICK z \in Nodes : Path(y, q, z, said[c]) /\ Stops(c, z)'
  BY <1>2
<1>4. wire'[o] = wire[o] \o q /\ wire[o] \in Seq(Items)
  <2>1. life[o] # "freed"
    BY DEF Open
  <2>2. wire \in [Clients -> Seq(Items)]
    BY DEF TypeOK
  <2> QED
    BY <1>1, <2>1, <2>2, SentType
<1>5. Path(x, wire'[o], z, said[c])
  BY <1>2, <1>3, <1>4, PathJoined
<1> QED
  BY <1>2, <1>3, <1>5

-----------------------------------------------------------------------------
(***************************************************************************)
(* Where the nodes are.                                                    *)
(***************************************************************************)
LEMMA StopsAt ==
  ASSUME NEW c \in Clients, h \in [Clients -> Structs], NEW y \in Nodes,
         Stops(c, y)
  PROVE  /\ h[c].state = "CONNECTING" => y.at \in {"start", "uin"}
         /\ h[c].state \in {"READING_ACK", "SENDING_REQUEST"} =>
              y.at = "greeted"
         /\ h[c].state \in {"READING_UIN_1", "READING_UIN_2", "SENDING_ACK"} =>
              y.at = IF h[Other(c)].type = "GET" THEN "silentOffered"
                                                 ELSE "silentAnswered"
         /\ h[c].state = "READING_TYPE" =>
              y.at = IF h[Other(c)].type = "GET" THEN "offers" ELSE "answers"
         /\ h[c].state \in {"READING_REQUEST", "READING_FILE_INFO",
              "SENDING_VOICE_ACK"} => y.at = "answers"
         /\ h[c].state = "SENDING_FILE_ACK" => y.at \in {"answers", "ackSize"}
         /\ h[c].state = "SENDING_FILE_INFO" => y.at \in {"offers", "info"}
         /\ h[c].state = "SENDING_VOICE_REQUEST" => y.at = "offers"
         /\ h[c].state = "READING_FILE_ACK" => y.at = "told"
         /\ h[c].state \in Getting => y.at = "answered"
         /\ h[c].state \in Sending => y.at \in FileNodes
         /\ h[c].state = "READING_VOICE_ACK" => y.at = "asked"
         /\ h[c].state \in Talking => y.at = "voice"
<1>1. \A at, left, pos : Node(at, left, pos).at = at /\ At(at).at = at
  BY DEF Node, At
<1>2. CASE Wrote(c, y)
  BY <1>1, <1>2 DEF Wrote, Answering, Getting, Sending, Talking, FileNodes
<1>3. CASE Broken(c, y)
  BY <1>1, <1>3 DEF Broken, Answering, Getting, Sending, Talking, FileNodes
<1> QED
  BY <1>2, <1>3 DEF Stops

LEMMA LeadsFrom ==
  ASSUME NEW x \in Nodes, NEW y \in Nodes, NEW item, NEW spoken,
         Leads(x, item, y, spoken)
  PROVE  /\ x.at = "start" => item.kind = "uin" /\ y = At("uin")
         /\ x.at = "uin" => item.kind = "uin" /\ y = At("greeted")
         /\ x.at = "silentOffered" => item.kind = "ack" /\ y = At("offers")
         /\ x.at = "silentAnswered" => item.kind = "ack" /\ y = At("answers")
         /\ x.at = "greeted" => \/ item = Item("small", 2) /\ y = At("offers")
                                \/ item = Item("small", 3) /\ y = At("answers")
         /\ x.at = "offers" => \/ item = Item("small", 1) /\ y = At("info")
                               \/ item = Item("small", 3) /\ y = At("asked")
         /\ x.at = "info" => item.kind = "info" /\ y = Node("told", 0, item.val)
         /\ x.at = "answers" => \/ item = Item("bigType", 6) /\ y = At("ackSize")
                                \/ item = Item("tiny", 1) /\ y = At("voice")
         /\ x.at = "ackSize" => item.kind = "bigSize"
                                /\ y = Node("answered", 0, item.val)
         /\ x.at = "chunk" /\ x.left = 0 =>
              item.kind = "bigType" /\ item.val # 5 /\ y = Node("header", 0, x.pos)
         /\ x.at = "header" =>
              /\ item.kind = "bigSize"
              /\ y = IF item.val = 0 THEN Node("last", 0, x.pos)
                                     ELSE Node("chunk", item.val, x.pos)
         /\ x.at = "voice" /\ x.left = 0 =>
              item = Item("tiny", 3) /\ y = Node("size", 0, x.pos)
         /\ x.at = "size" =>
              /\ item.kind = "small" /\ x.pos < Len(spoken)
              /\ item.val = spoken[x.pos + 1]
              /\ y = Node("voice", item.val, x.pos + 1)
         /\ x.at \notin {"told", "asked", "answered", "last"}
<1>1. x.at \in Names /\ x.left \in Nat
  BY DEF Nodes
<1>2. ~(x.left > 0 /\ x.left = 0)
  BY <1>1
<1>3. CASE GreetingLeads(x, item, y)
  BY <1>3 DEF GreetingLeads
<1>4. CASE OfferLeads(x, item, y)
  BY <1>4 DEF OfferLeads
<1>5. CASE FileLeads(x, item, y)
  BY <1>2, <1>5 DEF FileLeads
<1>6. CASE VoiceLeads(x, item, y, spoken)
  BY <1>2, <1>6 DEF VoiceLeads
<1> QED
  BY <1>3, <1>4, <1>5, <1>6 DEF Leads

-----------------------------------------------------------------------------
(***************************************************************************)
(* Steps that write nothing, and steps that read.                          *)
(***************************************************************************)
\* What a step of c leaves of the stream to the other one, if it writes nothing.
LEMMA OtherKept ==
  ASSUME NEW c \in Clients, StreamLeads(Other(c)), cut' = cut,
         wire'[Other(c)] = wire[Other(c)], h'[Other(c)] = h[Other(c)],
         verdict'[Other(c)] = verdict[Other(c)],
         life'[Other(c)] = life[Other(c)],
         UNCHANGED <<resume, got, said>>, heard'[Other(c)] = heard[Other(c)],
         \A y \in Nodes : Stops(c, y) => Stops(c, y)'
  PROVE  StreamLeads(Other(c))'
<1> DEFINE o == Other(c)
<1>1. o \in Clients /\ Other(o) = c
  BY OtherClient
<1>2. \A x \in Nodes : Stands(o, x) => Stands(o, x)'
  BY <1>1, OtherStands
<1>3. Open(o)' => Open(o)
  BY DEF Open
<1> HIDE DEF o
<1>4. StreamLeads(o) /\ wire'[o] = wire[o]
  BY DEF o
<1>5. StreamLeads(o)'
  BY <1>1, <1>2, <1>3, <1>4, StreamsKept
<1> QED
  BY <1>5 DEF o

\* Nothing moves but what is over, and what nobody will read.
LEMMA QuietStep ==
  ASSUME Streams, TypeInv', NEW c \in Clients, UNCHANGED <<h, data>>,
         verdict'[Other(c)] = verdict[Other(c)],
         life'[Other(c)] = life[Other(c)],
         wire'[Other(c)] = wire[Other(c)],
         \/ verdict'[c] = verdict[c]
         \/ verdict[c] = "running" /\ verdict'[c] # "running" /\ life[c] = "up",
         wire'[c] = wire[c] \/ ~Open(c)',
         Open(c)' => Open(c), life'[c] = life[c] \/ life'[c] # "none"
  PROVE  Streams'
<1> DEFINE o == Other(c)
<1>1. o \in Clients /\ Other(o) = c /\ c # o /\ \A d \in Clients : d = c \/ d = o
  BY OtherClient
<1> HIDE DEF o
<1>2. Roles /\ StreamLeads(c) /\ StreamLeads(o) /\ Hushed(c) /\ Hushed(o)
  BY <1>1 DEF Streams
<1>3. Roles'
  <2>1. \A d \in Clients : /\ life'[d] = life[d] \/ life'[d] # "none"
                           /\ verdict'[d] = verdict[d] \/ verdict'[d] # "running"
                           /\ life[d] = "none" => verdict'[d] = verdict[d]
    BY <1>1 DEF o
  <2> QED
    BY <1>2, <2>1, RolesQuiet DEF data
<1>4. \A x \in Nodes : Stands(c, x) => Stands(c, x)'
  BY OtherStands DEF data
<1>5. \A y \in Nodes : Stops(c, y) => Stops(c, y)'
  BY DEF Stops, Wrote, Broken, Left, data
<1>6. \A y \in Nodes : Stops(o, y) => Stops(o, y)'
  BY <1>1, OtherStops DEF data, o
<1>7. StreamLeads(c)'
  BY <1>2, <1>4, <1>6, StreamsKept DEF o, data, StreamLeads
<1>8. StreamLeads(o)'
  BY <1>1, <1>2, <1>5, OtherKept DEF o, data
<1>9. Hushed(c)' /\ Hushed(o)'
  BY <1>1, <1>2 DEF Hushed, Open, o
<1> QED
  BY <1>1, <1>3, <1>7, <1>8, <1>9 DEF Streams

LEMMA ReadOne ==
  ASSUME TypeOK, NEW c \in Clients, StreamLeads(c), ~cut,
         NEW state \in DOMAIN Expected \ {"READING_FILE_ACK"}, Reads(c, state)
  PROVE  \E x, y, z \in Nodes :
           /\ Stands(c, x) /\ Stops(Other(c), y)
           /\ Leads(x, wire[c][1], z, said[Other(c)])
           /\ Path(z, wire'[c], y, said[Other(c)])
           /\ Later(z.at, y.at)
<1>1. Open(c) /\ wire[c] \in Seq(Items) /\ wire[c] # <<>>
  BY PolledOpen, Typed, ReadsType DEF Reads
<1>2. PICK x \in Nodes, y \in Nodes :
        /\ Stands(c, x) /\ Stops(Other(c), y)
        /\ Path(x, wire[c], y, said[Other(c)])
  BY <1>1 DEF StreamLeads
<1>3. PICK z \in Nodes :
        /\ Leads(x, wire[c][1], z, said[Other(c)])
        /\ Path(z, SubSeq(wire[c], 2, Len(wire[c])), y, said[Other(c)])
  BY <1>1, <1>2, PathHead
<1>4. wire'[c] = SubSeq(wire[c], 2, Len(wire[c])) /\ wire'[c] \in Seq(Items)
  <2>1. Len(Expected[state]) = 1
    BY ExpectedLengths
  <2>2. wire' = Taken(c, 1) /\ 1 \in 0..Len(wire[c])
    BY <1>1, <2>1, LenProperties DEF Reads
  <2>3. Taken(c, 1)[c] = SubSeq(wire[c], 1 + 1, Len(wire[c]))
    BY <2>2, Typed, TakenType
  <2>4. wire' \in [Clients -> Seq(Items)]
    BY <2>2, Typed, TakenType
  <2> QED
    BY <2>2, <2>3, <2>4
<1>5. Path(z, wire'[c], y, said[Other(c)])
  BY <1>3, <1>4
<1>6. Later(z.at, y.at)
  BY <1>4, <1>5, PathLater
<1> QED
  BY <1>2, <1>3, <1>5, <1>6

\* What reading changes.
LEMMA ReadsAlone ==
  ASSUME TypeOK, NEW c \in Clients, NEW state \in DOMAIN Expected,
         Reads(c, state)
  PROVE  /\ wire'[Other(c)] = wire[Other(c)] /\ UNCHANGED <<life, data>>
         /\ h[c].state = state /\ Open(c) /\ verdict[c] = "running"
         /\ life[c] = "up" /\ wire[c] # <<>>
<1>1. Len(Expected[state]) \in 1..2
  BY ExpectedLengths
<1>2. wire' = Taken(c, Len(Expected[state]))
      /\ Len(Expected[state]) \in 0..Len(wire[c])
  BY <1>1, Typed, LenProperties DEF Reads
<1>3. wire'[Other(c)] = wire[Other(c)]
  BY <1>2, Typed, TakenType
<1> QED
  BY <1>3, PolledOpen, ReadsType DEF Reads

\* What a client becomes that only moves.
LEMMA Moved ==
  ASSUME TypeOK, NEW c \in Clients, NEW state \in States, NEW check \in Checks,
         Moves(c, state, check)
  PROVE  /\ h'[c].state = state /\ h'[c].type = h[c].type
         /\ h'[c].fileFd = h[c].fileFd /\ h'[c].size = h[c].size
         /\ h'[c].offset = h[c].offset /\ h'[c].chunkSize = h[c].chunkSize
         /\ h'[c].chunkOffset = h[c].chunkOffset /\ h'[c].buf = h[c].buf
         /\ h'[Other(c)] = h[Other(c)]
<1>1. Becoming(c, [h[c] EXCEPT !.state = state, !.check = check])
  BY Typed, MovesBecomes
<1>2. h'[c] = [h[c] EXCEPT !.state = state, !.check = check]
      /\ h'[Other(c)] = h[Other(c)] /\ h[c] \in Structs
  BY <1>1, Typed DEF Becoming
<1> QED
  BY <1>2 DEF Structs

LEMMA Retitled ==
  ASSUME TypeOK, NEW c \in Clients, NEW type \in Types, NEW state \in States,
         NEW check \in Checks, Becomes(c, type, state, check)
  PROVE  /\ h'[c].state = state /\ h'[c].type = type
         /\ h'[c].fileFd = h[c].fileFd /\ h'[c].size = h[c].size
         /\ h'[c].offset = h[c].offset /\ h'[c].chunkSize = h[c].chunkSize
         /\ h'[c].chunkOffset = h[c].chunkOffset /\ h'[c].buf = h[c].buf
         /\ h'[Other(c)] = h[Other(c)] /\ UNCHANGED verdict
<1>1. Becoming(c, [h[c] EXCEPT !.type = type, !.state = state,
                               !.check = check])
  BY Typed, TypeBecomes
<1>2. h'[c] = [h[c] EXCEPT !.type = type, !.state = state, !.check = check]
      /\ h'[Other(c)] = h[Other(c)] /\ h[c] \in Structs
  BY <1>1, Typed DEF Becoming
<1>3. UNCHANGED verdict
  BY DEF Becomes
<1> QED
  BY <1>2, <1>3 DEF Structs

\* A step after which the type of a client is what it was.
LEMMA RolesMove ==
  ASSUME TypeOK, TypeOK', Roles, NEW c \in Clients,
         h'[Other(c)] = h[Other(c)], verdict'[Other(c)] = verdict[Other(c)],
         UNCHANGED life, life[c] # "none", TypeFits(c)',
         h'[c].type = h[c].type,
         Meets(h'[c].state, h[Other(c)].state),
         Meets(h[Other(c)].state, h'[c].state),
         h'[c].state = "SENDING_FILE_INFO" /\ verdict'[c] = "running" =>
           h[Other(c)].state # "READING_FILE_INFO",
         h[Other(c)].state = "SENDING_FILE_INFO"
           /\ verdict[Other(c)] = "running" => h'[c].state # "READING_FILE_INFO",
         cut' = cut,
         c = "caller" \/ ~cut \/ h'[c].state \in Sending \cup Talking
  PROVE  Roles'
<1>1. Agree(h[c].type, h[Other(c)].type)
  BY Typed, AgreeBoth DEF Roles
<1>2. CutLate'
  <2>1. c = "caller" => h'["callee"] = h["callee"]
    BY DEF Other
  <2>2. c # "caller" => c = "callee"
    BY DEF Clients
  <2> QED
    BY <2>1, <2>2 DEF CutLate, Roles
<1> QED
  BY <1>1, <1>2, RolesStep

LEMMA StreamsStep ==
  ASSUME TypeInv', Roles', NEW c \in Clients, StreamLeads(c)',
         StreamLeads(Other(c))',
         h'[c].state \notin {"READING_VOICE_HEADER", "READING_VOICE_ACK"}
  PROVE  Streams'
<1> DEFINE o == Other(c)
<1>1. Other(o) = c /\ \A d \in Clients : d = c \/ d = o
  BY OtherClient
<1>2. StreamLeads(o)'
  OBVIOUS
<1>3. Hushed(c)' /\ Hushed(o)'
  BY <1>1 DEF Hushed
<1> QED
  BY <1>1, <1>2, <1>3 DEF Streams

\* A step of c that writes q.
LEMMA WritesStep ==
  ASSUME Streams, TypeInv', Roles', NEW c \in Clients, NEW q \in Seq(Items),
         wire' = Sent(c, q), UNCHANGED <<life, data>>,
         h'[Other(c)] = h[Other(c)], verdict'[Other(c)] = verdict[Other(c)],
         Open(c)' => /\ Open(c)
                     /\ \A x \in Nodes : Stands(c, x) => Stands(c, x)',
         h[Other(c)].state \notin Early \/ h'[c].type = h[c].type,
         h'[c].state \notin {"READING_VOICE_HEADER", "READING_VOICE_ACK"}
           \/ /\ h'[c].state = "READING_VOICE_ACK"
              /\ h[Other(c)].state # "READING_VOICE_HEADER",
         \A w \in Nodes : Stops(c, w) =>
           \E v \in Nodes : Path(w, q, v, said[c]) /\ Stops(c, v)'
  PROVE  Streams'
<1> DEFINE o == Other(c)
<1>1. o \in Clients /\ Other(o) = c /\ c # o /\ \A d \in Clients : d = c \/ d = o
  BY OtherClient
<1> HIDE DEF o
<1>2. TypeOK /\ StreamLeads(c) /\ StreamLeads(o)
  BY <1>1 DEF Streams, TypeInv
<1>3. StreamLeads(o)'
  <2>1. \A x \in Nodes : Stands(o, x) => Stands(o, x)'
    BY <1>1, OtherStands DEF data, o
  <2>2. Open(o)' => Open(o)
    BY DEF Open, o
  <2> QED
    BY <1>2, <2>1, <2>2, StreamsWritten DEF o, data
<1>4. StreamLeads(c)'
  <2>1. CASE ~Open(c)'
    BY <2>1 DEF StreamLeads
  <2>2. CASE Open(c)'
    <3>1. wire'[c] = wire[c]
      BY <1>2, Typed, SentType
    <3>2. \A w \in Nodes : Stops(o, w) => Stops(o, w)'
      BY <1>1, OtherStops DEF data, o
    <3>3. \A x \in Nodes : Stands(c, x) => Stands(c, x)'
      BY <2>2
    <3> QED
      BY <1>2, <2>2, <3>1, <3>2, <3>3, StreamsKept DEF data, o
  <2> QED
    BY <2>1, <2>2
<1>5. Hushed(c)' /\ Hushed(o)'
  BY <1>1 DEF Hushed, o
<1> QED
  BY <1>1, <1>3, <1>4, <1>5 DEF Streams

\* The same, when where it stands before is known.
LEMMA WriteStep ==
  ASSUME Streams, TypeInv', Roles', NEW c \in Clients, NEW q \in Seq(Items),
         wire' = Sent(c, q), UNCHANGED <<life, data>>,
         h'[Other(c)] = h[Other(c)], verdict'[Other(c)] = verdict[Other(c)],
         Open(c)' => /\ Open(c)
                     /\ \A x \in Nodes : Stands(c, x) => Stands(c, x)',
         h[Other(c)].state \notin Early \/ h'[c].type = h[c].type,
         h'[c].state \notin {"READING_VOICE_HEADER", "READING_VOICE_ACK"}
           \/ /\ h'[c].state = "READING_VOICE_ACK"
              /\ h[Other(c)].state # "READING_VOICE_HEADER",
         NEW y \in Nodes, NEW z \in Nodes,
         \A w \in Nodes : Stops(c, w) => w = y,
         Path(y, q, z, said[c]), Stops(c, z)'
  PROVE  Streams'
<1>1. \A w \in Nodes : Stops(c, w) =>
        \E v \in Nodes : Path(w, q, v, said[c]) /\ Stops(c, v)'
  OBVIOUS
<1> QED
  BY <1>1, WritesStep

\* A step of c that reads.
LEMMA ReadStep ==
  ASSUME Streams, TypeInv', Roles', NEW c \in Clients,
         wire'[Other(c)] = wire[Other(c)], UNCHANGED <<life, data>>,
         h'[Other(c)] = h[Other(c)], verdict'[Other(c)] = verdict[Other(c)],
         ~cut => \E z, y \in Nodes :
           /\ Stands(c, z)' /\ Stops(Other(c), y)
           /\ Path(z, wire'[c], y, said[Other(c)]),
         h[Other(c)].state \notin Early \/ h'[c].type = h[c].type,
         \A w \in Nodes : Stops(c, w) => Stops(c, w)',
         h'[c].state \notin {"READING_VOICE_HEADER", "READING_VOICE_ACK"}
  PROVE  Streams'
<1> DEFINE o == Other(c)
<1>1. o \in Clients /\ Other(o) = c /\ \A d \in Clients : d = c \/ d = o
  BY OtherClient
<1> HIDE DEF o
<1>2. StreamLeads(c) /\ StreamLeads(o)
  BY <1>1 DEF Streams
<1>3. StreamLeads(o)'
  BY <1>2, OtherKept DEF data, o
<1>4. StreamLeads(c)'
  <2>1. \A w \in Nodes : Stops(o, w) => Stops(o, w)'
    BY <1>1, OtherStops DEF data, o
  <2>2. CASE cut
    BY <2>2 DEF StreamLeads, data
  <2>3. CASE ~cut
    <3>1. PICK z \in Nodes, y \in Nodes :
            /\ Stands(c, z)' /\ Stops(o, y)
            /\ Path(z, wire'[c], y, said[o])
      BY <2>3 DEF o
    <3>2. Stops(o, y)'
      BY <2>1, <3>1
    <3> QED
      BY <3>1, <3>2, StreamsRead DEF data, o
  <2> QED
    BY <2>2, <2>3
<1> QED
  BY <1>3, <1>4, StreamsStep DEF o

-----------------------------------------------------------------------------
(***************************************************************************)
(* The handshake.                                                          *)
(***************************************************************************)
LEMMA WritesAlone ==
  ASSUME TypeOK, NEW c \in Clients, NEW state \in Writing, Writes(c, state)
  PROVE  /\ wire' = Sent(c, Packet(c)) /\ UNCHANGED <<life, data>>
         /\ h[c].state = state /\ Open(c) /\ verdict[c] = "running"
         /\ life[c] = "up" /\ Prepared(c) /\ Answered(c)
         /\ Packet(c) \in Seq(Items)
<1>1. Polled(c, state)
  BY DEF Writes
<1>2. h[c].state = state /\ Open(c) /\ verdict[c] = "running" /\ life[c] = "up"
  BY <1>1, PolledOpen
<1>3. Packet(c) \in Seq(Items)
  BY <1>2, Typed, PacketType
<1> QED
  BY <1>2, <1>3 DEF Writes

\* A client that is not told anything writes whole packets.
LEMMA RunningStops ==
  ASSUME NEW c \in Clients, verdict[c] = "running", NEW y, Stops(c, y)
  PROVE  Wrote(c, y)
BY DEF Stops, Broken

LEMMA ConnectingStreams ==
  ASSUME Streams, TypeInv', NEW c \in Clients, WatchConnecting(c)
  PROVE  Streams'
<1> DEFINE o == Other(c)
<1>1. o \in Clients /\ Other(o) = c
  BY OtherClient
<1>2. TypeOK /\ TypeOK' /\ Roles /\ TypeFits(c) /\ TypeFits(o) /\ Together(c)
      /\ Together(o)
  BY <1>1 DEF Streams, TypeInv, Roles
<1>3. /\ wire' = Sent(c, Packet(c)) /\ UNCHANGED <<life, verdict, data>>
      /\ h[c].state = "CONNECTING" /\ Open(c) /\ verdict[c] = "running"
      /\ life[c] = "up" /\ Packet(c) \in Seq(Items)
  BY <1>2, WritesAlone DEF WatchConnecting, Writing
<1>4. /\ h'[c].state = "READING_ACK" /\ h'[c].type = h[c].type
      /\ h'[o] = h[o]
  BY <1>2, Moved DEF WatchConnecting, States, Checks
<1>5. c = "caller" /\ h[o].state \in {"READING_UIN_1", "READING_UIN_2"}
  BY <1>2, <1>3 DEF TypeFits, Together, Meets, Dialling
<1> HIDE DEF o
<1>6. Roles'
  <2>1. TypeFits(c)'
    BY <1>2, <1>3, <1>4 DEF TypeFits, Early, Dialling, Sending, Getting,
      Answering, Talking
  <2>2. Meets(h'[c].state, h[o].state) /\ Meets(h[o].state, h'[c].state)
    BY <1>4, <1>5 DEF Meets, Early, Sending, Talking, Offering, Answering
  <2> QED
    BY <1>2, <1>3, <1>4, <1>5, <2>1, <2>2, RolesMove DEF o, data
<1>7. Path(At("start"), Packet(c), At("greeted"), said[c])
  <2>1. Packet(c) = <<Item("uin", 1), Item("uin", 2)>>
    BY <1>3 DEF Packet
  <2>2. At("start") \in Nodes /\ At("uin") \in Nodes /\ At("greeted") \in Nodes
        /\ At("start").at = "start" /\ At("uin").at = "uin"
    BY NodeType DEF Names
  <2>3. /\ Item("uin", 1) \in Items /\ Item("uin", 2) \in Items
        /\ Item("uin", 1).kind = "uin" /\ Item("uin", 2).kind = "uin"
    BY ItemType
  <2>4. /\ Leads(At("start"), Item("uin", 1), At("uin"), said[c])
        /\ Leads(At("uin"), Item("uin", 2), At("greeted"), said[c])
    BY <2>2, <2>3 DEF Leads, GreetingLeads
  <2> QED
    BY <2>1, <2>2, <2>3, <2>4, PathTwo
<1>8. At("start") \in Nodes /\ At("greeted") \in Nodes
  BY NodeType DEF Names
<1>9. \A w \in Nodes : Stops(c, w) => w = At("start")
  BY <1>3, RunningStops DEF Wrote
<1>10. Stops(c, At("greeted"))'
  BY <1>4 DEF Stops, Wrote, Answering, Getting, Talking
<1>11. \A x \in Nodes : Stands(c, x) => Stands(c, x)'
  BY <1>3, <1>4 DEF Stands, Offering, Sending
<1>12. h'[c].state \notin {"READING_VOICE_HEADER", "READING_VOICE_ACK"}
  BY <1>4
<1>13. Streams'
  BY <1>3, <1>4, <1>6, <1>7, <1>8, <1>9, <1>10, <1>11, <1>12, WriteStep DEF o
<1> QED
  BY <1>13

LEMMA Sides ==
  ASSUME Streams, NEW c \in Clients
  PROVE  /\ TypeInv /\ TypeOK /\ Roles /\ h[c] \in Structs
         /\ h[Other(c)] \in Structs
         /\ TypeFits(c) /\ TypeFits(Other(c)) /\ Together(c) /\ Together(Other(c))
         /\ Other(c) \in Clients /\ Other(Other(c)) = c /\ Other(c) # c
         /\ StreamLeads(c) /\ StreamLeads(Other(c))
         /\ Meets(h[c].state, h[Other(c)].state)
         /\ Meets(h[Other(c)].state, h[c].state)
<1> DEFINE o == Other(c)
<1>1. o \in Clients /\ Other(o) = c /\ o # c
  BY OtherClient
<1>2. TypeOK /\ TypeInv /\ Roles /\ StreamLeads(c) /\ StreamLeads(o)
  BY <1>1 DEF Streams, TypeInv
<1>3. h[c] \in Structs /\ h[o] \in Structs
  BY <1>1, <1>2, Typed
<1>4. TypeFits(c) /\ TypeFits(o) /\ Together(c) /\ Together(o)
  BY <1>1, <1>2 DEF Roles
<1>5. Meets(h[c].state, h[o].state) /\ Meets(h[o].state, h[c].state)
  BY <1>1, <1>4 DEF Together
<1> QED
  BY <1>1, <1>2, <1>3, <1>4, <1>5

LEMMA SendingAckStreams ==
  ASSUME Streams, TypeInv', NEW c \in Clients, WatchSendingAck(c)
  PROVE  Streams'
<1> DEFINE o == Other(c)
           offered == h[o].type = "GET"
<1>1. TypeOK'
  BY DEF TypeInv
<1>2. /\ wire' = Sent(c, Packet(c)) /\ UNCHANGED <<life, verdict, data>>
      /\ h[c].state = "SENDING_ACK" /\ Open(c) /\ verdict[c] = "running"
      /\ life[c] = "up" /\ Packet(c) \in Seq(Items)
  BY Sides, WritesAlone DEF WatchSendingAck, Writing
<1>3. /\ h'[c].state = "READING_TYPE" /\ h'[c].type = h[c].type
      /\ h'[o] = h[o]
  BY Sides, Moved DEF WatchSendingAck, States, Checks
<1>4. c = "callee" /\ h[o].state = "READING_ACK"
  BY Sides, <1>2 DEF TypeFits, Meets, Early
<1>5. ~cut
  BY Sides, <1>2, NotCut DEF Early
<1>6. Roles'
  <2>1. TypeFits(c)'
    BY Sides, <1>2, <1>3 DEF TypeFits, Early, Dialling, Sending, Getting,
      Answering, Talking
  <2>2. Meets(h'[c].state, h[o].state) /\ Meets(h[o].state, h'[c].state)
    BY <1>3, <1>4 DEF Meets, Early, Sending, Talking, Offering, Answering
  <2>3. h'[c].state # "READING_FILE_INFO" /\ h'[c].state # "SENDING_FILE_INFO"
    BY <1>3
  <2> QED
    BY Sides, <1>1, <1>2, <1>3, <1>5, <2>1, <2>2, <2>3, RolesMove DEF data
<1>0. PICK y \in Nodes :
        y = At(IF offered THEN "silentOffered" ELSE "silentAnswered")
  BY NodeType DEF Names
<1>7. PICK z \in Nodes : z = At(IF offered THEN "offers" ELSE "answers")
  BY NodeType DEF Names
<1>8. Path(y, Packet(c), z, said[c])
  <2>1. Packet(c) = <<Item("ack", 0)>>
    BY <1>2 DEF Packet
  <2>2. Item("ack", 0) \in Items /\ Item("ack", 0).kind = "ack"
    BY ItemType
  <2>3. y.at = IF offered THEN "silentOffered" ELSE "silentAnswered"
    BY <1>0 DEF At, Node
  <2>4. Leads(y, Item("ack", 0), z, said[c])
    BY <1>7, <2>2, <2>3 DEF Leads, GreetingLeads
  <2> QED
    BY <1>0, <2>1, <2>2, <2>4, PathOne
<1>9. \A w \in Nodes : Stops(c, w) => w = y
  BY <1>0, <1>2, RunningStops DEF Wrote
<1>10. Stops(c, z)'
  BY <1>3, <1>7 DEF Stops, Wrote, Answering, Getting, Talking
<1>11. \A x \in Nodes : Stands(c, x) => Stands(c, x)'
  BY <1>2, <1>3 DEF Stands, Offering, Sending
<1>12. h'[c].state \notin {"READING_VOICE_HEADER", "READING_VOICE_ACK"}
  BY <1>3
<1> HIDE DEF o
<1>13. Streams'
  BY <1>0, <1>2, <1>3, <1>6, <1>8, <1>9, <1>10, <1>11, <1>12, WriteStep DEF o
<1> QED
  BY <1>13

LEMMA SendingRequestStreams ==
  ASSUME Streams, TypeInv', NEW c \in Clients, WatchSendingRequest(c)
  PROVE  Streams'
<1> DEFINE o == Other(c)
           calls == h[c].type = "GET"
           next == CASE h[c].type = "GET" -> "READING_REQUEST"
                     [] h[c].type = "SEND" -> "SENDING_FILE_INFO"
                     [] h[c].type = "VOICE" -> "SENDING_VOICE_REQUEST"
<1>1. TypeOK'
  BY DEF TypeInv
<1>2. /\ wire' = Sent(c, Packet(c)) /\ UNCHANGED <<life, verdict, data>>
      /\ h[c].state = "SENDING_REQUEST" /\ Open(c) /\ verdict[c] = "running"
      /\ life[c] = "up" /\ Packet(c) \in Seq(Items)
  BY Sides, WritesAlone DEF WatchSendingRequest, Writing
<1>3. c = "caller" /\ h[o].state = "READING_TYPE"
      /\ h[c].type \in {"GET", "SEND", "VOICE"}
  BY Sides, <1>2 DEF TypeFits, Meets, Early, Dialling, Structs, Types
<1>4. /\ h'[c].state = next /\ h'[c].type = h[c].type /\ h'[o] = h[o]
  BY Sides, <1>3, Moved DEF WatchSendingRequest, States, Checks
<1>5. next \in {"READING_REQUEST", "SENDING_FILE_INFO", "SENDING_VOICE_REQUEST"}
      /\ (next = "READING_REQUEST" <=> calls)
      /\ (next = "SENDING_FILE_INFO" <=> h[c].type = "SEND")
      /\ (next = "SENDING_VOICE_REQUEST" <=> h[c].type = "VOICE")
  BY <1>3
<1> HIDE DEF next
<1>6. Roles'
  <2>1. TypeFits(c)'
    BY Sides, <1>2, <1>3, <1>4, <1>5 DEF TypeFits, Early, Dialling, Sending, Getting,
      Answering, Talking
  <2>2. Meets(h'[c].state, h[o].state) /\ Meets(h[o].state, h'[c].state)
    BY <1>3, <1>4, <1>5
    DEF Meets, Early, Sending, Talking, Offering, Answering
  <2>3. h'[c].state # "READING_FILE_INFO" /\ h[o].state # "READING_FILE_INFO"
    BY <1>3, <1>4, <1>5
  <2> QED
    BY Sides, <1>1, <1>2, <1>3, <1>4, <2>1, <2>2, <2>3, RolesMove DEF data
<1>0. At("greeted") \in Nodes
  BY NodeType DEF Names
<1>7. PICK z \in Nodes : z = At(IF calls THEN "answers" ELSE "offers")
  BY NodeType DEF Names
<1>8. Path(At("greeted"), Packet(c), z, said[c])
  <2>1. Packet(c) = <<Item("small", IF calls THEN 3 ELSE 2)>>
    BY <1>2 DEF Packet
  <2>2. Item("small", IF calls THEN 3 ELSE 2) \in Items
    BY ItemType
  <2>3. At("greeted").at = "greeted"
    BY DEF At, Node
  <2>4. Leads(At("greeted"), Item("small", IF calls THEN 3 ELSE 2), z, said[c])
    BY <1>7, <2>2, <2>3 DEF Leads, GreetingLeads
  <2> QED
    BY <1>0, <2>1, <2>2, <2>4, PathOne
<1>9. \A w \in Nodes : Stops(c, w) => w = At("greeted")
  BY <1>0, <1>2, RunningStops DEF Wrote
<1>10. Stops(c, z)'
  BY <1>4, <1>5, <1>7 DEF Stops, Wrote, Answering, Getting, Talking
<1>11. \A x \in Nodes : Stands(c, x) => Stands(c, x)'
  BY <1>2, <1>4, <1>5 DEF Stands, Offering, Sending
<1>12. h'[c].state \notin {"READING_VOICE_HEADER", "READING_VOICE_ACK"}
  BY <1>4, <1>5
<1> HIDE DEF o
<1>13. Streams'
  BY <1>0, <1>2, <1>4, <1>6, <1>8, <1>9, <1>10, <1>11, <1>12, WriteStep DEF o
<1> QED
  BY <1>13

\* A step of c that reads, and is told that it is over.
LEMMA ReadsEnd ==
  ASSUME Streams, TypeInv', NEW c \in Clients, NEW state \in DOMAIN Expected,
         Reads(c, state), NEW event \in Verdicts \ {"running"}, Ends(c, event),
         UNCHANGED h
  PROVE  Streams'
<1>1. /\ wire'[Other(c)] = wire[Other(c)] /\ UNCHANGED <<life, data>>
      /\ Open(c) /\ verdict[c] = "running" /\ life[c] = "up"
  BY Sides, ReadsAlone
<1>2. /\ verdict'[c] # "running" /\ verdict'[Other(c)] = verdict[Other(c)]
  BY Sides, Typed, EndsVerdict
<1>3. ~Open(c)'
  BY <1>2 DEF Open
<1> QED
  BY <1>1, <1>2, <1>3, QuietStep

\* A step of c that does no more than tell it that it is over.
LEMMA OnlyEnds ==
  ASSUME Streams, TypeInv', NEW c \in Clients, NEW state, Polled(c, state),
         NEW event \in Verdicts \ {"running"}, Ends(c, event),
         UNCHANGED <<h, life, wire, data>>
  PROVE  Streams'
<1>1. Open(c) /\ verdict[c] = "running" /\ life[c] = "up"
  BY PolledOpen
<1>2. /\ verdict'[c] # "running" /\ verdict'[Other(c)] = verdict[Other(c)]
  BY Sides, Typed, EndsVerdict
<1>3. ~Open(c)'
  BY <1>2 DEF Open
<1> QED
  BY <1>1, <1>2, <1>3, QuietStep

LEMMA ListenStreams ==
  ASSUME Streams, TypeInv', Listen
  PROVE  Streams'
<1>1. "callee" \in Clients /\ Other("callee") = "caller"
  BY DEF Clients, Other
<1>2. TypeOK
  BY DEF Streams, TypeInv
<1>3. CASE Accept
  <2>1. life["callee"] = "none" /\ life'["callee"] = "up"
        /\ life'["caller"] = life["caller"]
    BY <1>1, <1>2, <1>3, Typed DEF Accept
  <2>2. Open("callee")' => Open("callee")
    BY <1>3, <2>1 DEF Accept, Open
  <2>3. UNCHANGED <<h, data>> /\ UNCHANGED verdict /\ UNCHANGED wire
    BY <1>3 DEF Accept
  <2> QED
    BY <1>1, <2>1, <2>2, <2>3, QuietStep
<1>4. CASE AcceptFails
  <2>1. life["callee"] = "none" /\ life'["callee"] = "freed"
        /\ life'["caller"] = life["caller"]
        /\ wire'["caller"] = wire["caller"]
    BY <1>1, <1>2, <1>4, Typed DEF AcceptFails
  <2>2. ~Open("callee")'
    BY <2>1 DEF Open
  <2>3. UNCHANGED <<h, data>> /\ UNCHANGED verdict
    BY <1>4 DEF AcceptFails
  <2> QED
    BY <1>1, <2>1, <2>2, <2>3, QuietStep
<1> QED
  BY <1>3, <1>4 DEF Listen

LEMMA FreeStreams ==
  ASSUME Streams, TypeInv', NEW c \in Clients, FreeDcc(c)
  PROVE  Streams'
<1>1. TypeOK /\ Other(c) # c /\ Other(c) \in Clients
  BY Sides
<1>2. life'[c] = "freed" /\ life'[Other(c)] = life[Other(c)]
      /\ wire'[Other(c)] = wire[Other(c)]
  BY <1>1, Typed DEF FreeDcc
<1>3. ~Open(c)'
  BY <1>2 DEF Open
<1>4. UNCHANGED <<h, data>>
  BY DEF FreeDcc
<1>5. verdict'[c] = verdict[c] /\ verdict'[Other(c)] = verdict[Other(c)]
  BY DEF FreeDcc
<1>6. life'[c] # "none"
  BY <1>2
<1> QED
  BY <1>2, <1>3, <1>4, <1>5, <1>6, QuietStep

LEMMA ReadingUinStreams ==
  ASSUME Streams, TypeInv', NEW c \in Clients, WatchReadingUin(c)
  PROVE  Streams'
<1> DEFINE o == Other(c)
           next == IF h[c].state = "READING_UIN_1" THEN "READING_UIN_2"
                                                   ELSE "SENDING_ACK"
<1>1. TypeOK'
  BY DEF TypeInv
<1>2. PICK state \in {"READING_UIN_1", "READING_UIN_2"} :
        /\ Reads(c, state) /\ UNCHANGED verdict
        /\ Moves(c, IF state = "READING_UIN_1" THEN "READING_UIN_2"
                                               ELSE "SENDING_ACK",
                 IF state = "READING_UIN_1" THEN "READ" ELSE "WRITE")
  BY DEF WatchReadingUin
<1>3. state \in DOMAIN Expected \ {"READING_FILE_ACK"}
  BY DEF Expected
<1>4. /\ wire'[o] = wire[o] /\ UNCHANGED <<life, data>>
      /\ h[c].state = state /\ Open(c) /\ verdict[c] = "running"
      /\ life[c] = "up"
  BY <1>2, <1>3, Sides, ReadsAlone
<1>5. /\ h'[c].state = next /\ h'[c].type = h[c].type /\ h'[o] = h[o]
  BY <1>2, <1>4, Sides, Moved DEF States, Checks
<1>6. c = "callee" /\ h[o].state \in {"CONNECTING", "READING_ACK"}
  BY <1>4, Sides DEF TypeFits, Meets, Early
<1>7. ~cut
  BY <1>4, Sides, NotCut DEF Early
<1>8. PICK x \in Nodes, y \in Nodes, z \in Nodes :
        /\ Stands(c, x) /\ Stops(o, y)
        /\ Leads(x, wire[c][1], z, said[o])
        /\ Path(z, wire'[c], y, said[o])
        /\ Later(z.at, y.at)
  BY <1>2, <1>3, <1>7, Sides, ReadOne
<1>9. x = At(IF state = "READING_UIN_1" THEN "start" ELSE "uin")
  BY <1>4, <1>8 DEF Stands
<1>10. z = At(IF state = "READING_UIN_1" THEN "uin" ELSE "greeted")
  <2>1. x.at = IF state = "READING_UIN_1" THEN "start" ELSE "uin"
    BY <1>9 DEF At, Node
  <2> QED
    BY <1>8, <2>1, LeadsFrom
<1>11. state = "READING_UIN_2" => h[o].state = "READING_ACK"
  <2>1. h[o].state = "CONNECTING" => y.at \in {"start", "uin"}
    BY <1>8, Sides, Typed, StopsAt
  <2>2. z.at = IF state = "READING_UIN_1" THEN "uin" ELSE "greeted"
    BY <1>10 DEF At, Node
  <2> QED
    BY <1>6, <1>8, <2>1, <2>2 DEF Later
<1>12. Roles'
  <2>1. TypeFits(c)'
    BY <1>4, <1>5, Sides DEF TypeFits, Early, Dialling, Sending, Getting,
      Answering, Talking
  <2>2. Meets(h'[c].state, h[o].state) /\ Meets(h[o].state, h'[c].state)
    BY <1>4, <1>5, <1>6, <1>11
    DEF Meets, Early, Sending, Talking, Offering, Answering
  <2>3. h'[c].state # "READING_FILE_INFO" /\ h'[c].state # "SENDING_FILE_INFO"
    BY <1>5
  <2> QED
    BY Sides, <1>1, <1>2, <1>4, <1>5, <1>7, <2>1, <2>2, <2>3, RolesMove DEF data
<1>13. Stands(c, z)'
  BY <1>4, <1>5, <1>10 DEF Stands, Offering, Sending
<1>14. \A w \in Nodes : Stops(c, w) => Stops(c, w)'
  <2>1. \A w \in Nodes : Stops(c, w) => Wrote(c, w)
    BY <1>4, RunningStops
  <2>2. h'[Other(c)] = h[Other(c)]
    BY <1>5
  <2> QED
    BY <1>4, <1>5, <2>1, <2>2 DEF Stops, Wrote, Answering, Getting, Talking
<1>15. h'[c].state \notin {"READING_VOICE_HEADER", "READING_VOICE_ACK"}
  BY <1>5
<1>16. h[o].state \notin Early \/ h'[c].type = h[c].type
  BY <1>5
<1> HIDE DEF o, next
<1>17. Streams'
  BY <1>2, <1>4, <1>5, <1>8, <1>12, <1>13, <1>14, <1>15, <1>16, ReadStep DEF o
<1> QED
  BY <1>17

LEMMA ReadingAckStreams ==
  ASSUME Streams, TypeInv', NEW c \in Clients, WatchReadingAck(c)
  PROVE  Streams'
<1> DEFINE o == Other(c)
           calls == h[c].type = "GET"
<1>1. TypeOK' /\ Reads(c, "READING_ACK")
      /\ "READING_ACK" \in DOMAIN Expected \ {"READING_FILE_ACK"}
  BY DEF TypeInv, WatchReadingAck, Expected
<1>2. CASE Ends(c, "HANDSHAKE") /\ UNCHANGED h
  BY <1>1, <1>2, ReadsEnd DEF Verdicts, Errors
<1>3. CASE Moves(c, "SENDING_REQUEST", "WRITE") /\ UNCHANGED verdict
  <2>1. /\ wire'[o] = wire[o] /\ UNCHANGED <<life, data>>
        /\ h[c].state = "READING_ACK" /\ Open(c) /\ verdict[c] = "running"
        /\ life[c] = "up"
    BY <1>1, Sides, ReadsAlone
  <2>2. /\ h'[c].state = "SENDING_REQUEST" /\ h'[c].type = h[c].type
        /\ h'[o] = h[o]
    BY <1>3, Sides, Moved DEF States, Checks
  <2>3. c = "caller" /\ h[o].state \in Early
    BY <2>1, Sides DEF TypeFits, Meets, Dialling
  <2>4. ~cut
    BY <2>1, Sides, NotCut DEF Dialling
  <2>5. PICK x \in Nodes, y \in Nodes, z \in Nodes :
          /\ Stands(c, x) /\ Stops(o, y)
          /\ Leads(x, wire[c][1], z, said[o])
          /\ Path(z, wire'[c], y, said[o])
          /\ Later(z.at, y.at)
    BY <1>1, <2>4, Sides, ReadOne
  <2>6. x = At(IF calls THEN "silentOffered" ELSE "silentAnswered")
    BY <2>1, <2>5 DEF Stands
  <2>7. z = At(IF calls THEN "offers" ELSE "answers")
    <3>1. x.at = IF calls THEN "silentOffered" ELSE "silentAnswered"
      BY <2>6 DEF At, Node
    <3> QED
      BY <2>5, <3>1, LeadsFrom
  <2>8. h[o].state = "READING_TYPE"
    <3>1. h[o].state \in {"READING_UIN_1", "READING_UIN_2", "SENDING_ACK"} =>
            y.at \in {"silentOffered", "silentAnswered"}
      BY <2>5, Sides, Typed, StopsAt
    <3>2. z.at \in {"offers", "answers"}
      BY <2>7 DEF At, Node
    <3> QED
      BY <2>3, <2>5, <3>1, <3>2 DEF Later, Early
  <2>9. Roles'
    <3>1. TypeFits(c)'
      BY <2>1, <2>2, Sides DEF TypeFits, Early, Dialling, Sending, Getting,
        Answering, Talking
    <3>2. Meets(h'[c].state, h[o].state) /\ Meets(h[o].state, h'[c].state)
      BY <2>2, <2>8
      DEF Meets, Early, Sending, Talking, Offering, Answering
    <3>3. h'[c].state # "READING_FILE_INFO" /\ h'[c].state # "SENDING_FILE_INFO"
      BY <2>2
    <3> QED
      BY Sides, <1>1, <1>3, <2>1, <2>2, <2>4, <3>1, <3>2, <3>3, RolesMove DEF data
  <2>10. Stands(c, z)'
    BY <2>2, <2>7 DEF Stands, Offering, Sending
  <2>11. \A w \in Nodes : Stops(c, w) => Stops(c, w)'
    <3>1. \A w \in Nodes : Stops(c, w) => Wrote(c, w)
      BY <2>1, RunningStops
    <3> QED
      BY <2>1, <2>2, <3>1 DEF Stops, Wrote, Answering, Getting, Talking
  <2>12. h'[c].state \notin {"READING_VOICE_HEADER", "READING_VOICE_ACK"}
    BY <2>2
  <2>13. h[o].state \notin Early \/ h'[c].type = h[c].type
    BY <2>2
  <2> HIDE DEF o
  <2>14. Streams'
    BY <1>3, <2>1, <2>2, <2>5, <2>9, <2>10, <2>11, <2>12, <2>13, ReadStep DEF o
  <2> QED
    BY <2>14
<1> QED
  BY <1>2, <1>3 DEF WatchReadingAck

\* The caller has said which of the two offers something, and the callee
\* offers or is offered accordingly.
LEMMA ReadingTypeStreams ==
  ASSUME Streams, TypeInv', NEW c \in Clients, WatchReadingType(c)
  PROVE  Streams'
<1> DEFINE o == Other(c)
           called == h[o].type = "GET"
<1>1. TypeOK' /\ Reads(c, "READING_TYPE")
      /\ "READING_TYPE" \in DOMAIN Expected \ {"READING_FILE_ACK"}
  BY DEF TypeInv, WatchReadingType, Expected
<1>2. /\ wire'[o] = wire[o] /\ UNCHANGED <<life, data>>
      /\ h[c].state = "READING_TYPE" /\ Open(c) /\ verdict[c] = "running"
      /\ life[c] = "up"
  BY <1>1, Sides, ReadsAlone
<1>3. c = "callee" /\ h[o].state \in
        {"READING_ACK", "SENDING_REQUEST", "READING_REQUEST"} \cup Offering
  BY <1>2, Sides DEF TypeFits, Meets, Early
<1>4. ~cut
  BY <1>2, Sides, NotCut DEF Early
<1>5. PICK x \in Nodes, y \in Nodes, z \in Nodes :
        /\ Stands(c, x) /\ Stops(o, y)
        /\ Leads(x, wire[c][1], z, said[o])
        /\ Path(z, wire'[c], y, said[o])
        /\ Later(z.at, y.at)
  BY <1>1, <1>4, Sides, ReadOne
<1>6. \/ wire[c][1] = Item("small", 2) /\ z = At("offers")
      \/ wire[c][1] = Item("small", 3) /\ z = At("answers")
  <2>1. x = At("greeted")
    BY <1>2, <1>5 DEF Stands
  <2>2. x.at = "greeted"
    BY <2>1 DEF At, Node
  <2> QED
    BY <1>5, <2>2, LeadsFrom
<1>7. /\ h[o].state \in {"READING_ACK", "SENDING_REQUEST"} => y.at = "greeted"
      /\ h[o].state = "READING_REQUEST" => y.at = "answers"
      /\ h[o].state = "SENDING_FILE_INFO" => y.at \in {"offers", "info"}
      /\ h[o].state = "SENDING_VOICE_REQUEST" => y.at = "offers"
      /\ h[o].state = "READING_FILE_ACK" => y.at = "told"
      /\ h[o].state = "READING_VOICE_ACK" => y.at = "asked"
  BY <1>5, Sides, Typed, StopsAt
<1>8. Item("small", 2) # Item("small", 3)
  BY DEF Item
<1>9. \A w \in Nodes : Stops(c, w) =>
        w = At(IF called THEN "offers" ELSE "answers")
  BY <1>2, RunningStops DEF Wrote
<1>10. CASE wire[c][1] = Item("small", 3) /\ z = At("answers")
  <2>1. h[o].state = "READING_REQUEST" /\ called
    <3>1. z.at = "answers"
      BY <1>10 DEF At, Node
    <3>2. h[o].state = "READING_REQUEST"
      BY <1>3, <1>5, <1>7, <3>1 DEF Later, Offering
    <3> QED
      BY <3>2, Sides DEF TypeFits, Answering
  <2>2. Becomes(c, "SEND", "SENDING_FILE_INFO", "WRITE")
    BY <1>8, <1>10 DEF WatchReadingType
  <2>3. /\ h'[c].state = "SENDING_FILE_INFO" /\ h'[c].type = "SEND"
        /\ h'[o] = h[o] /\ UNCHANGED verdict
    BY <2>2, Sides, Retitled DEF Types, States, Checks
  <2>4. Roles'
    <3>1. TypeFits(c)'
      BY <2>3 DEF TypeFits, Early, Dialling, Sending, Getting, Answering,
        Talking
    <3>2. Meets(h'[c].state, h[o].state) /\ Meets(h[o].state, h'[c].state)
      BY <2>1, <2>3 DEF Meets, Early, Sending, Talking, Offering, Answering
    <3>3. Agree(h'[c].type, h[o].type)
      BY <2>1, <2>3 DEF Agree
    <3>4. h[o].state # "READING_FILE_INFO" /\ h'[c].state # "READING_FILE_INFO"
      BY <2>1, <2>3
    <3>5. CutLate' /\ life[c] # "none"
      BY <1>2, <1>4 DEF CutLate, data
    <3> QED
      BY Sides, <1>1, <1>2, <2>3, <3>1, <3>2, <3>3, <3>4, <3>5, RolesStep
  <2>5. Stands(c, z)'
    BY <1>10, <2>3 DEF Stands, Offering, Sending
  <2>6. \A w \in Nodes : Stops(c, w) => Stops(c, w)'
    BY <1>9, <2>1, <2>3 DEF Stops, Wrote, Answering, Getting, Talking
  <2>7. h'[c].state \notin {"READING_VOICE_HEADER", "READING_VOICE_ACK"}
        /\ h[o].state \notin Early
    BY <2>1, <2>3 DEF Early
  <2> HIDE DEF o
  <2> QED
    BY <1>2, <1>5, <2>3, <2>4, <2>5, <2>6, <2>7, ReadStep DEF o
<1>11. CASE wire[c][1] = Item("small", 2) /\ z = At("offers")
  <2>1. h[o].state \in Offering /\ h[o].type \in {"SEND", "VOICE"} /\ ~called
    <3>1. z.at = "offers"
      BY <1>11 DEF At, Node
    <3>2. h[o].state \in Offering
      BY <1>3, <1>5, <1>7, <3>1 DEF Later, Offering
    <3> QED
      BY <3>2, Sides DEF TypeFits, Offering, Talking, Sending
  <2>2. Becomes(c, "GET", "READING_REQUEST", "READ")
    BY <1>8, <1>11 DEF WatchReadingType
  <2>3. /\ h'[c].state = "READING_REQUEST" /\ h'[c].type = "GET"
        /\ h'[o] = h[o] /\ UNCHANGED verdict
    BY <2>2, Sides, Retitled DEF Types, States, Checks
  <2>4. Roles'
    <3>1. TypeFits(c)'
      BY <2>3 DEF TypeFits, Early, Dialling, Sending, Getting, Answering,
        Talking
    <3>2. Meets(h'[c].state, h[o].state) /\ Meets(h[o].state, h'[c].state)
      BY <2>1, <2>3 DEF Meets, Early, Sending, Talking, Offering, Answering
    <3>3. Agree(h'[c].type, h[o].type)
      BY <2>1, <2>3 DEF Agree
    <3>4. h[o].state # "READING_FILE_INFO" /\ h'[c].state # "READING_FILE_INFO"
      BY <2>1, <2>3 DEF Offering
    <3>5. CutLate' /\ life[c] # "none"
      BY <1>2, <1>4 DEF CutLate, data
    <3> QED
      BY Sides, <1>1, <1>2, <2>3, <3>1, <3>2, <3>3, <3>4, <3>5, RolesStep
  <2>5. Stands(c, z)'
    BY <1>11, <2>3 DEF Stands, Offering, Sending
  <2>6. \A w \in Nodes : Stops(c, w) => Stops(c, w)'
    BY <1>9, <2>1, <2>3 DEF Stops, Wrote, Answering, Getting, Talking
  <2>7. h'[c].state \notin {"READING_VOICE_HEADER", "READING_VOICE_ACK"}
        /\ h[o].state \notin Early
    BY <2>1, <2>3 DEF Early, Offering
  <2> HIDE DEF o
  <2> QED
    BY <1>2, <1>5, <2>3, <2>4, <2>5, <2>6, <2>7, ReadStep DEF o
<1> QED
  BY <1>6, <1>10, <1>11

LEMMA ReadingRequestStreams ==
  ASSUME Streams, TypeInv', NEW c \in Clients, WatchReadingRequest(c)
  PROVE  Streams'
<1> DEFINE o == Other(c)
<1>1. TypeOK' /\ Reads(c, "READING_REQUEST")
      /\ "READING_REQUEST" \in DOMAIN Expected \ {"READING_FILE_ACK"}
  BY DEF TypeInv, WatchReadingRequest, Expected
<1>2. /\ wire'[o] = wire[o] /\ UNCHANGED <<life, data>>
      /\ h[c].state = "READING_REQUEST" /\ Open(c) /\ verdict[c] = "running"
      /\ life[c] = "up"
  BY <1>1, Sides, ReadsAlone
<1>3. h[c].type = "GET" /\ h[o].state \in {"READING_TYPE"} \cup Offering
  BY <1>2, Sides DEF TypeFits, Meets, Answering
<1>4. ~cut
  BY <1>2, Sides, NotCut DEF Answering
<1>5. PICK x \in Nodes, y \in Nodes, z \in Nodes :
        /\ Stands(c, x) /\ Stops(o, y)
        /\ Leads(x, wire[c][1], z, said[o])
        /\ Path(z, wire'[c], y, said[o])
        /\ Later(z.at, y.at)
  BY <1>1, <1>4, Sides, ReadOne
<1>6. \/ wire[c][1] = Item("small", 1) /\ z = At("info")
      \/ wire[c][1] = Item("small", 3) /\ z = At("asked")
  <2>1. x = At("offers")
    BY <1>2, <1>5 DEF Stands
  <2>2. x.at = "offers"
    BY <2>1 DEF At, Node
  <2> QED
    BY <1>5, <2>2, LeadsFrom
<1>7. /\ h[o].state = "READING_TYPE" => y.at = "offers"
      /\ h[o].state = "SENDING_FILE_INFO" => y.at \in {"offers", "info"}
      /\ h[o].state = "SENDING_VOICE_REQUEST" => y.at = "offers"
      /\ h[o].state = "READING_FILE_ACK" => y.at = "told"
      /\ h[o].state = "READING_VOICE_ACK" => y.at = "asked"
  BY <1>3, <1>5, Sides, Typed, StopsAt
<1>8. Item("small", 1) # Item("small", 3)
  BY DEF Item
<1>9. \A w \in Nodes : Stops(c, w) => w = At("answers")
  BY <1>2, RunningStops DEF Wrote, Answering
<1>10. CASE wire[c][1] = Item("small", 1) /\ z = At("info")
  <2>1. z.at = "info"
    BY <1>10 DEF At, Node
  <2>2. h[o].state \in {"SENDING_FILE_INFO", "READING_FILE_ACK"}
    BY <1>3, <1>5, <1>7, <2>1 DEF Later, Offering
  <2>3. Becomes(c, h[c].type, "READING_FILE_INFO", "READ")
    BY <1>8, <1>10 DEF WatchReadingRequest
  <2>4. /\ h'[c].state = "READING_FILE_INFO" /\ h'[c].type = h[c].type
        /\ h'[o] = h[o] /\ UNCHANGED verdict
    BY <1>3, <2>3, Sides, Retitled DEF Types, States, Checks
  <2>5. h[o].state = "SENDING_FILE_INFO" => verdict[o] # "running"
    <3>1. SUFFICES ASSUME h[o].state = "SENDING_FILE_INFO",
                          verdict[o] = "running"
                   PROVE  FALSE
      OBVIOUS
    <3>2. y = At("offers")
      BY <1>5, <3>1, Sides, RunningStops DEF Wrote
    <3>3. y.at = "offers"
      BY <3>2 DEF At, Node
    <3> QED
      BY <1>5, <2>1, <3>3 DEF Later
  <2>6. Roles'
    <3>1. TypeFits(c)'
      BY <1>3, <2>4 DEF TypeFits, Early, Dialling, Sending, Getting, Answering,
        Talking
    <3>2. Meets(h'[c].state, h[o].state) /\ Meets(h[o].state, h'[c].state)
      BY <2>2, <2>4 DEF Meets, Early, Sending, Talking, Offering, Answering
    <3>3. h'[c].state # "SENDING_FILE_INFO"
      BY <2>4
    <3> QED
      BY Sides, <1>1, <1>2, <1>4, <2>4, <2>5, <3>1, <3>2, <3>3, RolesMove
      DEF data
  <2>7. Stands(c, z)'
    BY <1>10, <2>4 DEF Stands, Offering, Sending
  <2>8. \A w \in Nodes : Stops(c, w) => Stops(c, w)'
    BY <1>9, <2>4 DEF Stops, Wrote, Answering, Getting, Talking
  <2>9. h'[c].state \notin {"READING_VOICE_HEADER", "READING_VOICE_ACK"}
        /\ h[o].state \notin Early
    BY <2>2, <2>4 DEF Early
  <2> HIDE DEF o
  <2> QED
    BY <1>2, <1>5, <2>4, <2>6, <2>7, <2>8, <2>9, ReadStep DEF o
<1>11. CASE wire[c][1] = Item("small", 3) /\ z = At("asked")
  <2>1. z.at = "asked"
    BY <1>11 DEF At, Node
  <2>2. h[o].state = "READING_VOICE_ACK" /\ h[o].type = "VOICE"
    <3>1. h[o].state = "READING_VOICE_ACK"
      BY <1>3, <1>5, <1>7, <2>1 DEF Later, Offering
    <3> QED
      BY <3>1, Sides DEF TypeFits
  <2>3. Becomes(c, "VOICE", "SENDING_VOICE_ACK", "WRITE")
    BY <1>8, <1>11 DEF WatchReadingRequest
  <2>4. /\ h'[c].state = "SENDING_VOICE_ACK" /\ h'[c].type = "VOICE"
        /\ h'[o] = h[o] /\ UNCHANGED verdict
    BY <2>3, Sides, Retitled DEF Types, States, Checks
  <2>5. Roles'
    <3>1. TypeFits(c)'
      BY <2>4 DEF TypeFits, Early, Dialling, Sending, Getting, Answering,
        Talking
    <3>2. Meets(h'[c].state, h[o].state) /\ Meets(h[o].state, h'[c].state)
      BY <2>2, <2>4 DEF Meets, Early, Sending, Talking, Offering, Answering
    <3>3. Agree(h'[c].type, h[o].type)
      BY <2>2, <2>4 DEF Agree
    <3>4. h'[c].state \notin {"READING_FILE_INFO", "SENDING_FILE_INFO"}
      BY <2>4
    <3>5. CutLate' /\ life[c] # "none"
      BY <1>2, <1>4 DEF CutLate, data
    <3> QED
      BY Sides, <1>1, <1>2, <2>4, <3>1, <3>2, <3>3, <3>4, <3>5, RolesStep
  <2>6. Stands(c, z)'
    BY <1>11, <2>4 DEF Stands, Offering, Sending
  <2>7. \A w \in Nodes : Stops(c, w) => Stops(c, w)'
    BY <1>9, <2>4 DEF Stops, Wrote, Answering, Getting, Talking
  <2>8. h'[c].state \notin {"READING_VOICE_HEADER", "READING_VOICE_ACK"}
        /\ h[o].state \notin Early
    BY <2>2, <2>4 DEF Early
  <2> HIDE DEF o
  <2> QED
    BY <1>2, <1>5, <2>4, <2>5, <2>6, <2>7, <2>8, ReadStep DEF o
<1> QED
  BY <1>6, <1>10, <1>11

LEMMA SetVoiceStreams ==
  ASSUME Streams, TypeInv', NEW c \in Clients, SetVoice(c)
  PROVE  Streams'
<1> DEFINE o == Other(c)
<1>1. TypeOK'
  BY DEF TypeInv
<1>2. /\ UNCHANGED <<life, verdict, wire, data>> /\ c = "callee"
      /\ h[c].state = "SENDING_FILE_INFO" /\ Open(c) /\ verdict[c] = "running"
      /\ life[c] = "up"
  BY DEF SetVoice, Open
<1>3. /\ h'[c].state = "SENDING_VOICE_REQUEST" /\ h'[c].type = "VOICE"
      /\ h'[o] = h[o]
  <2>1. Becoming(c, [h[c] EXCEPT !.type = "VOICE",
                                 !.state = "SENDING_VOICE_REQUEST"])
    BY Sides, Typed, SetVoiceBecomes
  <2>2. h'[c] = [h[c] EXCEPT !.type = "VOICE",
                             !.state = "SENDING_VOICE_REQUEST"]
        /\ h'[o] = h[o] /\ h[c] \in Structs
    BY <2>1, Sides DEF Becoming
  <2> QED
    BY <2>2 DEF Structs
<1>4. ~cut
  BY <1>2, Sides, NotCut DEF Offering
<1>5. h[o].state = "READING_REQUEST" /\ h[o].type = "GET"
  <2>1. h[o].state \in {"READING_TYPE", "READING_REQUEST"} /\ o # "callee"
    BY <1>2, Sides DEF Meets, Together
  <2> QED
    BY <2>1, Sides DEF TypeFits, Early, Answering
<1>6. Roles'
  <2>1. TypeFits(c)'
    BY <1>3 DEF TypeFits, Early, Dialling, Sending, Getting, Answering, Talking
  <2>2. Meets(h'[c].state, h[o].state) /\ Meets(h[o].state, h'[c].state)
    BY <1>3, <1>5 DEF Meets, Early, Sending, Talking, Offering, Answering
  <2>3. Agree(h'[c].type, h[o].type)
    BY <1>3, <1>5 DEF Agree
  <2>4. h'[c].state \notin {"READING_FILE_INFO", "SENDING_FILE_INFO"}
    BY <1>3
  <2>5. CutLate' /\ life[c] # "none"
    BY <1>2, <1>4 DEF CutLate, data
  <2> QED
    BY Sides, <1>1, <1>2, <1>3, <2>1, <2>2, <2>3, <2>4, <2>5, RolesStep
<1>7. \A x \in Nodes : Stands(c, x) => Stands(c, x)'
  BY <1>2, <1>3 DEF Stands, Offering, Sending
<1>8. \A w \in Nodes : Stops(c, w) => Stops(c, w)'
  <2>1. \A w \in Nodes : Stops(c, w) => Wrote(c, w)
    BY <1>2, RunningStops
  <2> QED
    BY <1>2, <1>3, <2>1 DEF Stops, Wrote, Answering, Getting, Talking
<1>9. \A w \in Nodes : Stops(o, w) => Stops(o, w)'
  <2>1. h[o].state \notin Early
    BY <1>5 DEF Early
  <2> QED
    BY <1>2, <1>3, <2>1, Sides, OtherStops DEF data
<1>10. StreamLeads(c)'
  BY <1>2, <1>7, <1>9, Sides, StreamsKept DEF Open, data
<1>11. StreamLeads(o)'
  BY <1>2, <1>3, <1>8, Sides, OtherKept DEF data
<1>12. h'[c].state \notin {"READING_VOICE_HEADER", "READING_VOICE_ACK"}
  BY <1>3
<1> QED
  BY <1>6, <1>10, <1>11, <1>12, StreamsStep

\* The items a packet has, and what the first of two leads to.
LEMMA PacketParts ==
  ASSUME TypeOK, NEW c \in Clients, h[c].state \in Writing
  PROVE  /\ Packet(c) \in Seq(Items) /\ Len(Packet(c)) \in 1..2
         /\ Len(Packet(c)) = 2 =>
              h[c].state \in {"CONNECTING", "SENDING_FILE_INFO",
                              "SENDING_FILE_ACK", "SENDING_FILE_HEADER"}
         /\ h[c].state = "CONNECTING" => Packet(c)[1] = Item("uin", 1)
         /\ h[c].state = "SENDING_FILE_INFO" => Packet(c)[1] = Item("small", 1)
         /\ h[c].state = "SENDING_FILE_ACK" => Packet(c)[1] = Item("bigType", 6)
         /\ h[c].state = "SENDING_FILE_HEADER" =>
              \E n \in {2, 3} : Packet(c)[1] = Item("bigType", n)
<1>1. Packet(c) \in Seq(Items)
  BY Typed, PacketType
<1>2. CASE h[c].state = "CONNECTING"
  <2>1. Packet(c) = <<Item("uin", 1), Item("uin", 2)>>
    BY <1>2 DEF Packet
  <2> QED
    BY <1>1, <1>2, <2>1
<1>3. CASE h[c].state = "SENDING_FILE_INFO"
  <2>1. Packet(c) = <<Item("small", 1), Item("info", h[c].size)>>
    BY <1>3 DEF Packet
  <2> QED
    BY <1>1, <1>3, <2>1
<1>4. CASE h[c].state = "SENDING_FILE_ACK"
  <2>1. Packet(c) = <<Item("bigType", 6), Item("bigSize", h[c].offset)>>
    BY <1>4 DEF Packet, Big
  <2> QED
    BY <1>1, <1>4, <2>1
<1>5. CASE h[c].state = "SENDING_FILE_HEADER"
  <2>1. PICK n \in {2, 3} :
          Packet(c) = <<Item("bigType", n), Item("bigSize", ChunkToSend(c))>>
    BY <1>5 DEF Packet, Big
  <2> QED
    BY <1>1, <1>5, <2>1
<1>6. CASE h[c].state \in {"SENDING_ACK", "SENDING_REQUEST",
             "SENDING_VOICE_REQUEST", "SENDING_VOICE_ACK"}
  <2>1. \E item : Packet(c) = <<item>>
    BY <1>6 DEF Packet
  <2> QED
    BY <1>1, <1>6, <2>1
<1> QED
  BY <1>2, <1>3, <1>4, <1>5, <1>6 DEF Writing

\* A packet that is not written as a whole leaves the stream where no packet
\* begins, and the writer out of the game.
LEMMA HandshakeFailsStreams ==
  ASSUME Streams, TypeInv', NEW c \in Clients, HandshakeFails(c)
  PROVE  Streams'
<1> DEFINE o == Other(c)
<1>1. /\ Ends(c, "HANDSHAKE") /\ UNCHANGED <<h, life, data>>
      /\ "HANDSHAKE" \in Verdicts \ {"running"}
  BY DEF HandshakeFails, Verdicts, Errors
<1>2. CASE /\ \E state \in DOMAIN Expected : Polled(c, state)
           /\ UNCHANGED wire
  BY <1>1, <1>2, OnlyEnds
<1>3. CASE /\ \E state \in Writing : Polled(c, state)
           /\ \E n \in 0..(Len(Packet(c)) - 1) :
                wire' = Sent(c, SubSeq(Packet(c), 1, n))
  <2>1. PICK n \in 0..(Len(Packet(c)) - 1) :
          wire' = Sent(c, SubSeq(Packet(c), 1, n))
    BY <1>3
  <2>2. h[c].state \in Writing /\ verdict[c] = "running" /\ life[c] = "up"
    BY <1>3, PolledOpen
  <2>3. verdict'[c] # "running" /\ verdict'[o] = verdict[o]
    BY <1>1, Sides, Typed, EndsVerdict
  <2>4. Packet(c) \in Seq(Items) /\ Len(Packet(c)) \in 1..2
    BY <2>2, Sides, PacketParts
  <2>5. SubSeq(Packet(c), 1, n) \in Seq(Items)
        /\ (n = 0 \/ (n = 1 /\ Len(Packet(c)) = 2))
    <3>1. n \in 0..Len(Packet(c)) /\ (n = 0 \/ (n = 1 /\ Len(Packet(c)) = 2))
      <4> DEFINE l == Len(Packet(c))
      <4>1. l \in 1..2 /\ n \in 0..(l - 1)
        BY <2>4
      <4> HIDE DEF l
      <4>2. n \in 0..l /\ (n = 0 \/ (n = 1 /\ l = 2))
        BY <4>1
      <4> QED
        BY <4>2 DEF l
    <3>2. SubSeq(Packet(c), 1, n) \in Seq(Items)
      BY <2>4, <3>1, SubSeqProperties
    <3> QED
      BY <3>1, <3>2
  <2>6. n = 0 => SubSeq(Packet(c), 1, n) = <<>>
    BY <2>4, SubSeqProperties, EmptySeq
  <2>7. n = 1 => SubSeq(Packet(c), 1, n) = <<Packet(c)[1]>>
                 /\ Packet(c)[1] \in Items
    <3>1. SUFFICES ASSUME n = 1 PROVE /\ SubSeq(Packet(c), 1, 1) = <<Packet(c)[1]>>
                                      /\ Packet(c)[1] \in Items
      OBVIOUS
    <3> DEFINE p == Packet(c)
    <3>2. p \in Seq(Items) /\ Len(p) >= 1
      BY <2>4
    <3> HIDE DEF p
    <3>3. p[1] \in Items
      BY <3>2, ElementOfSeq
    <3>4. SubSeq(p, 1, 1) \in Seq(Items) /\ Len(SubSeq(p, 1, 1)) = 1
          /\ SubSeq(p, 1, 1)[1] = p[1]
      BY <3>2, SubSeqProperties
    <3>5. SubSeq(p, 1, 1) = <<p[1]>>
      <4> DEFINE s == SubSeq(p, 1, 1)
                 t == <<p[1]>>
      <4>1. s \in Seq(Items) /\ Len(s) = 1 /\ s[1] = p[1]
        BY <3>4
      <4>2. t \in Seq(Items) /\ Len(t) = 1 /\ t[1] = p[1]
        BY <3>3
      <4> HIDE DEF s, t
      <4>3. \A i \in 1..Len(s) : s[i] = t[i]
        BY <4>1, <4>2
      <4>4. s = t
        BY <4>1, <4>2, <4>3, SeqEqual
      <4> QED
        BY <4>4 DEF s, t
    <3> QED
      BY <3>3, <3>5 DEF p
  <2>8. Roles'
    <3>1. \A d \in Clients : /\ life'[d] = life[d] \/ life'[d] # "none"
                             /\ verdict'[d] = verdict[d] \/ verdict'[d] # "running"
                             /\ life[d] = "none" => verdict'[d] = verdict[d]
      BY <1>1, <2>2, <2>3, OtherClient
    <3> QED
      BY <1>1, <3>1, Sides, RolesQuiet DEF data
  <2>9. ASSUME NEW w \in Nodes, Stops(c, w)
        PROVE  \E v \in Nodes :
                 /\ Path(w, SubSeq(Packet(c), 1, n), v, said[c])
                 /\ Stops(c, v)'
    <3>1. Wrote(c, w)
      BY <2>2, <2>9, RunningStops
    <3>2. CASE n = 0
      <4>1. Path(w, SubSeq(Packet(c), 1, n), w, said[c])
        BY <2>6, <3>2, PathEmpty
      <4>2. Stops(c, w)'
        BY <1>1, <3>1 DEF Stops, Wrote, Left, data
      <4> QED
        BY <4>1, <4>2
    <3>3. CASE n = 1 /\ Len(Packet(c)) = 2
      <4>1. SUFFICES ASSUME NEW v \in Nodes,
                            Leads(w, Packet(c)[1], v, said[c]), Broken(c, v)'
                     PROVE  \E u \in Nodes :
                              /\ Path(w, SubSeq(Packet(c), 1, n), u, said[c])
                              /\ Stops(c, u)'
        <5>1. \E v \in Nodes : Leads(w, Packet(c)[1], v, said[c]) /\ Broken(c, v)'
          <6>1. CASE h[c].state = "CONNECTING"
            <7>1. w = At("start") /\ w.at = "start"
              BY <3>1, <6>1 DEF Wrote, At, Node
            <7>2. At("uin") \in Nodes
              BY NodeType DEF Names
            <7>3. Packet(c)[1].kind = "uin"
              BY <2>2, <6>1, Sides, PacketParts DEF Item
            <7>4. Leads(w, Packet(c)[1], At("uin"), said[c])
              BY <7>1, <7>3 DEF Leads, GreetingLeads
            <7>5. Broken(c, At("uin"))'
              BY <1>1, <2>3, <6>1 DEF Broken
            <7> QED
              BY <7>2, <7>4, <7>5
          <6>2. CASE h[c].state = "SENDING_FILE_INFO"
            <7>1. w = At("offers") /\ w.at = "offers"
              BY <3>1, <6>2 DEF Wrote, At, Node
            <7>2. At("info") \in Nodes
              BY NodeType DEF Names
            <7>3. Packet(c)[1] = Item("small", 1)
              BY <2>2, <6>2, Sides, PacketParts
            <7>4. Leads(w, Packet(c)[1], At("info"), said[c])
              BY <7>1, <7>3 DEF Leads, OfferLeads
            <7>5. Broken(c, At("info"))'
              BY <1>1, <2>3, <6>2 DEF Broken
            <7> QED
              BY <7>2, <7>4, <7>5
          <6>3. CASE h[c].state = "SENDING_FILE_ACK"
            <7>1. w = At("answers") /\ w.at = "answers"
              BY <3>1, <6>3 DEF Wrote, At, Node, Answering
            <7>2. At("ackSize") \in Nodes
              BY NodeType DEF Names
            <7>3. Packet(c)[1] = Item("bigType", 6)
              BY <2>2, <6>3, Sides, PacketParts
            <7>4. Leads(w, Packet(c)[1], At("ackSize"), said[c])
              BY <7>1, <7>3 DEF Leads, OfferLeads
            <7>5. Broken(c, At("ackSize"))'
              BY <1>1, <2>3, <6>3 DEF Broken
            <7> QED
              BY <7>2, <7>4, <7>5
          <6>4. CASE h[c].state = "SENDING_FILE_HEADER"
            <7>1. h[c].offset \in Nat
              BY Sides DEF Structs
            <7>2. w = Node("chunk", 0, h[c].offset) /\ w.at = "chunk"
                  /\ w.left = 0 /\ w.pos = h[c].offset
              BY <3>1, <6>4 DEF Wrote, Node
            <7>3. PICK v \in Nodes : v = Node("header", 0, h[c].offset)
              BY <7>1, NodeType DEF Names
            <7>4. Packet(c)[1].kind = "bigType" /\ Packet(c)[1].val # 5
              <8>1. PICK k \in {2, 3} : Packet(c)[1] = Item("bigType", k)
                BY <2>2, <6>4, Sides, PacketParts
              <8> QED
                BY <8>1 DEF Item
            <7>5. Leads(w, Packet(c)[1], v, said[c])
              BY <7>2, <7>3, <7>4 DEF Leads, FileLeads
            <7>6. Broken(c, v)'
              BY <1>1, <2>3, <6>4, <7>3 DEF Broken
            <7> QED
              BY <7>5, <7>6
          <6> QED
            BY <2>2, <3>3, <6>1, <6>2, <6>3, <6>4, Sides, PacketParts
        <5> QED
          BY <4>1, <5>1
      <4>2. Path(w, SubSeq(Packet(c), 1, n), v, said[c])
        BY <2>7, <3>3, <4>1, PathOne
      <4>3. Stops(c, v)'
        BY <4>1 DEF Stops
      <4> QED
        BY <4>2, <4>3
    <3> QED
      BY <2>5, <3>2, <3>3
  <2>10. ~Open(c)'
    BY <2>3 DEF Open
  <2>11. h'[c].state \notin {"READING_VOICE_HEADER", "READING_VOICE_ACK"}
    BY <1>1, <2>2 DEF Writing
  <2>12. h'[o] = h[o] /\ h'[c].type = h[c].type
    BY <1>1
  <2> HIDE DEF o
  <2> QED
    BY <1>1, <2>1, <2>3, <2>5, <2>8, <2>9, <2>10, <2>11, <2>12, WritesStep DEF o
<1> QED
  BY <1>2, <1>3 DEF HandshakeFails

=============================================================================
