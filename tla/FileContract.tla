---------------------------- MODULE FileContract -----------------------------
(***************************************************************************)
(* What a direct connection promises the two clients of a file, without    *)
(* handshake, packets, chunks and buffers: the file is fixed before the    *)
(* offset is agreed on, the copy grows by what comes next in the file and  *)
(* never runs ahead of what was handed over, and each side is told DONE at *)
(* the moment nothing is missing.  A connection that has lost data keeps   *)
(* only what it has written already.                                       *)
(***************************************************************************)
EXTENDS Integers, Sequences

VARIABLES
  phase,   \* "idle", "offered" or "agreed"
  source,  \* the length of the file
  start,   \* the offset from which on it is copied
  sent,    \* how far into the file it was handed over
  copy,    \* the positions written behind that offset
  told,    \* the sides that were told DONE: "SEND", "GET"
  torn     \* data were lost

fileVars == <<phase, source, start, sent, copy, told, torn>>

FInit ==
  /\ phase = "idle" /\ source = 0 /\ start = 0 /\ sent = 0
  /\ copy = <<>> /\ told = {} /\ torn = FALSE

\* The position behind what was copied.
Reached == start + Len(copy)

Offer ==
  /\ phase = "idle" /\ phase' = "offered"
  /\ source' \in Nat
  /\ UNCHANGED <<start, sent, copy, told, torn>>

Agree ==
  /\ phase = "offered" /\ phase' = "agreed"
  /\ start' \in Nat /\ sent' = start'
  /\ UNCHANGED <<source, copy, told, torn>>

\* The sender is told DONE with the last of the file, and not before.
HandOver ==
  /\ phase = "agreed" /\ "SEND" \notin told
  /\ \E n \in 1..(source - sent) : sent' = sent + n
  /\ told' = told \cup {side \in {"SEND"} : sent' = source}
  /\ UNCHANGED <<phase, source, start, copy, torn>>

\* So is the receiver.
Receive ==
  /\ phase = "agreed" /\ "GET" \notin told
  /\ \E n \in 1..(sent - Reached) :
       copy' = copy \o [i \in 1..n |-> Reached + i]
  /\ told' = told \cup {side \in {"GET"} : Reached' = source}
  /\ UNCHANGED <<phase, source, start, sent, torn>>

\* The copy that is there already goes as far as the file, or beyond it.
NothingLeft ==
  /\ phase = "agreed"
  /\ \/ "SEND" \notin told /\ sent >= source /\ told' = told \cup {"SEND"}
     \/ "GET" \notin told /\ Reached = source /\ told' = told \cup {"GET"}
  /\ UNCHANGED <<phase, source, start, sent, copy, torn>>

Lose ==
  /\ torn' /\ told \subseteq told' /\ sent <= sent'
  /\ Len(copy) <= Len(copy') /\ SubSeq(copy', 1, Len(copy)) = copy
  /\ UNCHANGED <<phase, source, start>>

FNext == Offer \/ Agree \/ HandOver \/ Receive \/ NothingLeft \/ Lose

FSpec == FInit /\ [][FNext]_fileVars
=============================================================================
