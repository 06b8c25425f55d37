--------------------------- MODULE ThreadSockets ---------------------------
(***************************************************************************)
(* The table of sockets and threads on Windows: gg_connect() records the   *)
(* socket of the calling thread, close() is a macro for                    *)
(* gg_thread_socket(-1, socket) there (compat.h:51), and another thread    *)
(* breaks a connection off with gg_thread_socket(thread, -1).              *)
(* The list gg_threads is a set of entries here, since their order matters *)
(* to nothing.  Of what two threads do to it at once, only the entry that  *)
(* is lost is modelled: TableSound claims nothing about that case.         *)
(***************************************************************************)
EXTENDS Integers

CONSTANTS
    Threads,        \* the identifiers of the threads
    Handles         \* the numbers sockets have

ASSUME ThreadsAssumption == Threads \subseteq Nat \ {0}

ASSUME HandlesAssumption == Handles \subseteq Nat \ {0}

VARIABLES
    pc,         \* where each thread is in gg_thread_socket(): see Places
    call,       \* what it was called with: [id, socket]
    cs,         \* gg_thread_socket_cs: a section's number, 0 if there is none
    made,       \* how many sections were created
    held,       \* the section each thread is in, 0 if none
    table,      \* gg_threads: a set of [id, socket]
    found,      \* what gg_thread_find() found, a set of at most one entry
    seen,       \* the table when it looked
    result,     \* what gg_thread_socket() returns
    openedBy,   \* the thread that opened each socket, 0 for a closed one
    mine,       \* the sockets a thread believes it has
    last,       \* the socket recorded last for each thread, 0 when closed
    raced,      \* whether a thread met another one that creates the section
    reused      \* whether a number was given out that a thread still used

tableVars == <<cs, made, table, openedBy, mine, last, raced, reused>>
vars == <<tableVars, pc, call, held, found, seen, result>>

Places == {"outside", "test", "create", "initialise", "enter", "find", "act", "leave"}

Entries == [id : Threads, socket : Handles]

Calls == [id : Threads \cup {-1}, socket : Handles \cup {-1, 0}]

NoCall == [id |-> -1, socket |-> -1]

Init ==
    /\ pc = [t \in Threads |-> "outside"] /\ call = [t \in Threads |-> NoCall]
    /\ cs = 0 /\ made = 0 /\ held = [t \in Threads |-> 0]
    /\ table = {} /\ found = [t \in Threads |-> {}] /\ seen = [t \in Threads |-> {}]
    /\ result = [t \in Threads |-> 0]
    /\ openedBy = [h \in Handles |-> 0] /\ mine = [t \in Threads |-> {}]
    /\ last = [t \in Threads |-> 0] /\ raced = FALSE /\ reused = FALSE

Goes(t, place) == pc' = [pc EXCEPT ![t] = place]

Calling(t, id, socket) ==
    /\ pc[t] = "outside"
    /\ call' = [call EXCEPT ![t] = [id |-> id, socket |-> socket]]
    /\ Goes(t, "test")

-----------------------------------------------------------------------------
(* gg_connect(): socket() gives out a number that is free.                 *)
Connect(t) ==
    \E h \in Handles :
        /\ openedBy[h] = 0
        /\ openedBy' = [openedBy EXCEPT ![h] = t]
        /\ mine' = [mine EXCEPT ![t] = @ \cup {h}]
        /\ reused' = (reused \/ \E u \in Threads : h \in mine[u])
        /\ Calling(t, t, h)
        /\ UNCHANGED <<cs, made, table, last, raced, held, found, seen, result>>

(* close() of a socket the thread has, whatever became of it.              *)
Close(t) ==
    \E h \in mine[t] :
        Calling(t, -1, h) /\ UNCHANGED <<tableVars, held, found, seen, result>>

(* Another thread breaks a thread's connection off, or asks for its socket.*)
Cancel(t) ==
    \E u \in Threads \ {t} :
        Calling(t, u, -1) /\ UNCHANGED <<tableVars, held, found, seen, result>>

Ask(t) ==
    \E u \in Threads :
        Calling(t, u, 0) /\ UNCHANGED <<tableVars, held, found, seen, result>>

-----------------------------------------------------------------------------
(* gg_thread_socket_lock(): the first to come creates the section, and     *)
(* nothing keeps a second one from doing the same, nor from entering one   *)
(* that InitializeCriticalSection() has not been called for yet.           *)
Creating(t) == pc[t] \in {"create", "initialise"}

LockTest(t) ==
    /\ pc[t] = "test"
    /\ Goes(t, IF cs = 0 THEN "create" ELSE "enter")
    /\ raced' = (raced \/ \E u \in Threads : Creating(u))
    /\ UNCHANGED <<cs, made, table, openedBy, mine, last, reused>>
    /\ UNCHANGED <<call, held, found, seen, result>>

LockCreate(t) ==
    /\ pc[t] = "create"
    /\ Goes(t, "initialise")
    /\ made' = made + 1
    /\ cs' = made + 1
    /\ UNCHANGED <<table, openedBy, mine, last, raced, reused>>
    /\ UNCHANGED <<call, held, found, seen, result>>

LockInitialise(t) ==
    /\ pc[t] = "initialise"
    /\ Goes(t, "enter")
    /\ UNCHANGED <<tableVars, call, held, found, seen, result>>

(* Fault: EnterCriticalSection() lets anyone in.                           *)
EnterAnyway(t) ==
    /\ pc[t] = "enter"
    /\ Goes(t, "find")
    /\ held' = [held EXCEPT ![t] = cs]
    /\ UNCHANGED <<tableVars, call, found, seen, result>>

Enter(t) ==
    /\ pc[t] = "enter"
    /\ \A u \in Threads : held[u] # cs
    /\ Goes(t, "find")
    /\ held' = [held EXCEPT ![t] = cs]
    /\ UNCHANGED <<tableVars, call, found, seen, result>>

-----------------------------------------------------------------------------
(* gg_thread_find(): by the socket for -1, or by the thread.               *)
Matches(e, c) == (c.id = -1 /\ e.socket = c.socket) \/ e.id = c.id

Find(t) ==
    /\ pc[t] = "find"
    /\ \/ \E e \in table :
             Matches(e, call[t]) /\ found' = [found EXCEPT ![t] = {e}]
       \/ /\ \A e \in table : ~Matches(e, call[t])
          /\ found' = [found EXCEPT ![t] = {}]
    /\ seen' = [seen EXCEPT ![t] = table]
    /\ Goes(t, "act")
    /\ UNCHANGED <<tableVars, call, held, result>>

Acting(t) == pc[t] = "act" /\ Goes(t, "leave")

Closing(t) == call[t].id = -1 \/ call[t].socket = -1

Returning(t, n) == result' = [result EXCEPT ![t] = n]

(* closesocket(); a thread that closed a socket has it no more.            *)
CloseSocket(h) ==
    /\ openedBy' = [openedBy EXCEPT ![h] = 0]
    /\ last' = [u \in Threads |-> IF last[u] = h THEN 0 ELSE last[u]]

Given(t) ==
    mine' = IF call[t].id = -1 THEN [mine EXCEPT ![t] = @ \ {call[t].socket}] ELSE mine

(* Fault: the entry stays when its socket is closed.                       *)
CloseEntryKept(t) ==
    /\ Acting(t) /\ Closing(t)
    /\ \E e \in found[t] : CloseSocket(e.socket)
    /\ Given(t) /\ Returning(t, 1)
    /\ UNCHANGED <<cs, made, table, raced, reused, call, held, found, seen>>

(* An entry was found: it goes with its socket, or it is read, or it gets  *)
(* a new socket and forgets the one it had.                                *)
CloseEntry(t) ==
    /\ Acting(t) /\ Closing(t)
    /\ \E e \in found[t] : CloseSocket(e.socket)
    /\ table' = table \ found[t]
    /\ Given(t) /\ Returning(t, 1)
    /\ UNCHANGED <<cs, made, raced, reused, call, held, found, seen>>

ReadEntry(t) ==
    /\ Acting(t) /\ ~Closing(t) /\ call[t].socket = 0
    /\ \E e \in found[t] : Returning(t, e.socket)
    /\ UNCHANGED <<tableVars, call, held, found, seen>>

Recorded(t) ==
    /\ last' = [last EXCEPT ![call[t].id] = call[t].socket]
    /\ Returning(t, call[t].socket)
    /\ UNCHANGED <<cs, made, openedBy, mine, raced, reused, call, held, found, seen>>

ReplaceEntry(t) ==
    /\ Acting(t) /\ ~Closing(t) /\ call[t].socket # 0
    /\ found[t] # {}
    /\ table' = (table \ found[t]) \cup {call[t]}
    /\ Recorded(t)

(* No entry was found: the socket is closed all the same, or there is      *)
(* nothing to do, or an entry is hung on the last one there was.           *)
CloseBare(t) ==
    /\ Acting(t) /\ found[t] = {} /\ Closing(t)
    /\ IF call[t].socket # -1 THEN CloseSocket(call[t].socket) ELSE UNCHANGED <<openedBy, last>>
    /\ Given(t) /\ Returning(t, call[t].socket)
    /\ UNCHANGED <<cs, made, table, raced, reused, call, held, found, seen>>

ReadNothing(t) ==
    /\ Acting(t) /\ found[t] = {} /\ ~Closing(t) /\ call[t].socket = 0
    /\ Returning(t, 0)
    /\ UNCHANGED <<tableVars, call, held, found, seen>>

AppendEntry(t) ==
    /\ Acting(t) /\ found[t] = {} /\ ~Closing(t) /\ call[t].socket # 0
    /\ table' = (table \cap seen[t]) \cup {call[t]}
    /\ Recorded(t)

(* gg_thread_socket_unlock() leaves the section that the pointer names by  *)
(* then; one that was entered under another name is never left.            *)
Leave(t) ==
    /\ pc[t] = "leave"
    /\ Goes(t, "outside")
    /\ held' = IF held[t] = cs THEN [held EXCEPT ![t] = 0] ELSE held
    /\ call' = [call EXCEPT ![t] = NoCall]
    /\ found' = [found EXCEPT ![t] = {}]
    /\ seen' = [seen EXCEPT ![t] = {}]
    /\ Returning(t, 0)
    /\ UNCHANGED tableVars

Act(t) ==
    CloseEntry(t) \/ ReadEntry(t) \/ ReplaceEntry(t)
    \/ CloseBare(t) \/ ReadNothing(t) \/ AppendEntry(t)

Body(t) ==
    LockTest(t) \/ LockCreate(t) \/ LockInitialise(t) \/ Enter(t)
    \/ Find(t) \/ Act(t) \/ Leave(t)

Step(t) == Connect(t) \/ Close(t) \/ Cancel(t) \/ Ask(t) \/ Body(t)

Next == \E t \in Threads : Step(t)

Spec == Init /\ [][Next]_vars

-----------------------------------------------------------------------------
(* The variables keep their types.                                         *)
TypeOK ==
    /\ pc \in [Threads -> Places] /\ call \in [Threads -> Calls]
    /\ cs \in Nat /\ made \in Nat /\ held \in [Threads -> Nat]
    /\ table \subseteq Entries
    /\ found \in [Threads -> SUBSET Entries] /\ seen \in [Threads -> SUBSET Entries]
    /\ result \in [Threads -> Handles \cup {-1, 0, 1}]
    /\ openedBy \in [Handles -> Threads \cup {0}]
    /\ mine \in [Threads -> SUBSET Handles]
    /\ last \in [Threads -> Handles \cup {0}]
    /\ raced \in BOOLEAN /\ reused \in BOOLEAN

(* What the comment of gg_thread_socket() promises (common.c:572): the     *)
(* table names, for each thread, the socket made last for it while that is *)
(* open, and nothing else; every socket in it is open and was opened by    *)
(* the thread it stands under; and one who asks is told that socket.  It   *)
(* is so through any mixture of connections, closes and cancellations,     *)
(* unless the section was being created when a second thread came          *)
(* (common.c:544) or a number came back while a thread still used it after *)
(* a cancellation (common.c:597).                                          *)
TableSound ==
    ~raced /\ ~reused =>
        /\ table = {[id |-> t, socket |-> last[t]] : t \in {t \in Threads : last[t] # 0}}
        /\ \A e \in table : openedBy[e.socket] = e.id
        /\ \A t \in Threads :
              pc[t] = "leave" /\ call[t].socket = 0 => result[t] = last[call[t].id]

(* A socket that is open is closed by the thread that opened it, or by one *)
(* that breaks off that thread's connection; with the same two exceptions. *)
OnlyItsOwn ==
    [][\A h \in Handles :
         ~raced /\ ~reused /\ openedBy[h] # 0 /\ openedBy'[h] # openedBy[h] =>
             \E t \in Threads : pc[t] = "act" /\ openedBy[h] \in {t, call[t].id}]_vars
=============================================================================
