------------------------ MODULE ThreadSockets_proofs ------------------------
(***************************************************************************)
(* Proofs about ThreadSockets, for every set of threads and of numbers.    *)
(* LockInv says who may be where while the section is created and used,    *)
(* TableInv how the table, the sockets and the calls under way are         *)
(* related.  Together with the types they are inductive.                   *)
(***************************************************************************)
EXTENDS ThreadSockets, TLAPS

Inside(t) == pc[t] \in {"find", "act", "leave"}

(* While one thread creates the section the others have not passed the     *)
(* test, and one thread at most is in it.                                  *)
LockInv ==
    ~raced =>
        \A t \in Threads :
            /\ Creating(t) => \A u \in Threads \ {t} : pc[u] \in {"outside", "test"}
            /\ pc[t] \in {"initialise", "enter"} => cs # 0
            /\ pc[t] = "create" => cs = 0
            /\ Inside(t) => cs # 0 /\ held[t] = cs /\ \A u \in Threads \ {t} : ~Inside(u)
            /\ ~Inside(t) => held[t] = 0

Recording(t) == call[t].id \in Threads /\ call[t].socket \in Handles

Pending(t) == pc[t] \notin {"outside", "leave"}

(* The table is what was recorded last, its sockets are open, and a number *)
(* is had by one thread only.                                              *)
EntriesRight ==
    /\ \A t \in Threads, h \in Handles :
          [id |-> t, socket |-> h] \in table <=> last[t] = h
    /\ \A e \in table : openedBy[e.socket] = e.id
    /\ \A t \in Threads, h \in Handles : openedBy[h] = t => h \in mine[t]
    /\ \A t \in Threads : \A h \in mine[t] : openedBy[h] \in {0, t}
    /\ \A t, u \in Threads : \A h \in Handles : h \in mine[t] /\ h \in mine[u] => t = u

(* What is known of a call under way.                                      *)
CallRight(t) ==
    /\ Pending(t) /\ call[t].id = -1 => call[t].socket \in mine[t]
    /\ Pending(t) /\ Recording(t) =>
          /\ call[t].id = t
          /\ openedBy[call[t].socket] = t
          /\ \A u \in Threads : last[u] # call[t].socket
    /\ pc[t] = "act" =>
          /\ seen[t] = table
          /\ \A e \in found[t] : e \in table /\ Matches(e, call[t])
          /\ found[t] = {} => \A e \in table : ~Matches(e, call[t])
          /\ \A e, f \in found[t] : e = f
    /\ pc[t] = "leave" /\ call[t].socket = 0 => result[t] = last[call[t].id]

(* A call is one of those that Connect, Close, Cancel and Ask make.        *)
CallShape(t) ==
    /\ call[t].id = -1 => call[t].socket \in Handles \cup {-1}
    /\ pc[t] # "outside" /\ call[t].id = -1 => call[t].socket # -1

TableInv ==
    ~raced /\ ~reused => EntriesRight /\ \A t \in Threads : CallRight(t)

ShapeInv == \A t \in Threads : CallShape(t)

IInv == TypeOK /\ ShapeInv /\ LockInv /\ TableInv

-----------------------------------------------------------------------------
(* The initial states have the invariant.                                  *)
LEMMA InitIInv == Init => IInv
<1> SUFFICES ASSUME Init PROVE IInv
  OBVIOUS
<1> USE ThreadsAssumption, HandlesAssumption DEF Init
<1>1. TypeOK
  BY DEF TypeOK, Calls, NoCall, Entries, Places
<1>2. ShapeInv
  BY DEF ShapeInv, CallShape, NoCall
<1>3. LockInv
  BY DEF LockInv, Creating, Inside
<1>4. EntriesRight
  BY DEF EntriesRight
<1>5. \A t \in Threads : CallRight(t)
  BY DEF CallRight, Pending
<1>. QED
  BY <1>1, <1>2, <1>3, <1>4, <1>5 DEF IInv, TableInv

(* The types are kept by every step.                                       *)
LEMMA TypeNext == TypeOK /\ ShapeInv /\ [Next]_vars => TypeOK'
<1> SUFFICES ASSUME TypeOK, ShapeInv, [Next]_vars PROVE TypeOK'
  OBVIOUS
<1> USE ThreadsAssumption, HandlesAssumption DEF TypeOK
<1>1. ASSUME UNCHANGED vars PROVE TypeOK'
  BY <1>1 DEF vars, tableVars
<1>2. ASSUME NEW t \in Threads, Connect(t) PROVE TypeOK'
  <2>1. PICK h \in Handles :
          /\ openedBy' = [openedBy EXCEPT ![h] = t]
          /\ mine' = [mine EXCEPT ![t] = @ \cup {h}]
          /\ reused' = (reused \/ \E u \in Threads : h \in mine[u])
          /\ Calling(t, t, h)
    BY <1>2 DEF Connect
  <2>2. mine' \in [Threads -> SUBSET Handles] /\ openedBy' \in [Handles -> Threads \cup {0}]
    BY <2>1
  <2>3. reused' \in BOOLEAN
    BY <2>1
  <2>4. pc' \in [Threads -> Places] /\ call' \in [Threads -> Calls]
    BY <2>1 DEF Calling, Goes, Places, Calls
  <2>. QED
    BY <1>2, <2>2, <2>3, <2>4 DEF Connect
<1>3. ASSUME NEW t \in Threads, Close(t) \/ Cancel(t) \/ Ask(t) PROVE TypeOK'
  <2>1. \E c \in Calls : call' = [call EXCEPT ![t] = c]
    <3>1. CASE Close(t)
      <4>1. PICK h \in mine[t] : Calling(t, -1, h)
        BY <3>1 DEF Close
      <4>. QED
        BY <4>1 DEF Calling, Calls
    <3>2. CASE Cancel(t) \/ Ask(t)
      BY <3>2 DEF Cancel, Ask, Calling, Calls
    <3>. QED
      BY <1>3, <3>1, <3>2
  <2>2. pc' = [pc EXCEPT ![t] = "test"] /\ UNCHANGED <<tableVars, held, found, seen, result>>
    BY <1>3 DEF Close, Cancel, Ask, Calling, Goes, tableVars
  <2>. QED
    BY <2>1, <2>2 DEF tableVars, Places
<1>4. ASSUME NEW t \in Threads, LockTest(t) \/ LockCreate(t) \/ LockInitialise(t) \/ Enter(t)
      PROVE TypeOK'
  <2>1. CASE LockTest(t)
    <3>1. raced' \in BOOLEAN
      BY <2>1 DEF LockTest
    <3>2. pc' \in [Threads -> Places]
      BY <2>1 DEF LockTest, Goes, Places
    <3>. QED
      BY <2>1, <3>1, <3>2 DEF LockTest
  <2>2. CASE LockCreate(t) \/ LockInitialise(t) \/ Enter(t)
    BY <2>2 DEF LockCreate, LockInitialise, Enter, Goes, Places, tableVars
  <2>. QED
    BY <1>4, <2>1, <2>2
<1>5. ASSUME NEW t \in Threads, Find(t) PROVE TypeOK'
  BY <1>5 DEF Find, Goes, Places, tableVars
<1>6. ASSUME NEW t \in Threads, CloseEntry(t) PROVE TypeOK'
  BY <1>6 DEF CloseEntry, Acting, Goes, CloseSocket, Given, Returning, Places, Entries
<1>7. ASSUME NEW t \in Threads, ReadEntry(t) \/ ReadNothing(t) PROVE TypeOK'
  BY <1>7 DEF ReadEntry, ReadNothing, Acting, Goes, Returning, Places, Entries, tableVars
<1>8. ASSUME NEW t \in Threads, ReplaceEntry(t) \/ AppendEntry(t) PROVE TypeOK'
  <2>1. call[t] \in Entries
    BY <1>8 DEF ReplaceEntry, AppendEntry, Closing, Calls, Entries
  <2>2. table' \subseteq Entries
    BY <1>8, <2>1 DEF ReplaceEntry, AppendEntry
  <2>. QED
    BY <1>8, <2>1, <2>2
    DEF ReplaceEntry, AppendEntry, Recorded, Acting, Goes, Returning, Places, Entries
<1>9. ASSUME NEW t \in Threads, CloseBare(t) PROVE TypeOK'
  BY <1>9 DEF CloseBare, Acting, Goes, CloseSocket, Given, Returning, Places, Calls,
              ShapeInv, CallShape, Closing
<1>10. ASSUME NEW t \in Threads, Leave(t) PROVE TypeOK'
  BY <1>10 DEF Leave, Goes, Returning, Places, Calls, NoCall, tableVars
<1>. QED
  BY <1>1, <1>2, <1>3, <1>4, <1>5, <1>6, <1>7, <1>8, <1>9, <1>10 DEF Next, Step, Body, Act

(* A call under way has the shape its caller gave it.                      *)
LEMMA ShapeNext == TypeOK /\ ShapeInv /\ [Next]_vars => ShapeInv'
<1> SUFFICES ASSUME TypeOK, ShapeInv, [Next]_vars, NEW v \in Threads PROVE CallShape(v)'
  BY DEF ShapeInv
<1> USE ThreadsAssumption, HandlesAssumption DEF TypeOK, ShapeInv, CallShape
<1>1. CASE UNCHANGED vars
  BY <1>1 DEF vars, tableVars
<1>2. ASSUME NEW t \in Threads, Connect(t) PROVE CallShape(v)'
  BY <1>2 DEF Connect, Calling, Goes
<1>3. ASSUME NEW t \in Threads, Close(t) PROVE CallShape(v)'
  <2>1. PICK h \in mine[t] : Calling(t, -1, h)
    BY <1>3 DEF Close
  <2>. QED
    BY <2>1 DEF Calling, Goes
<1>4. ASSUME NEW t \in Threads, Cancel(t) \/ Ask(t) PROVE CallShape(v)'
  BY <1>4 DEF Cancel, Ask, Calling, Goes
<1>5. ASSUME NEW t \in Threads, Body(t) /\ ~Leave(t) PROVE CallShape(v)'
  <2>1. /\ call' = call /\ pc[t] # "outside"
        /\ \E place \in Places : pc' = [pc EXCEPT ![t] = place]
    BY <1>5 DEF Body, Act, LockTest, LockCreate, LockInitialise, Enter, Find, CloseEntry, ReadEntry,
                ReplaceEntry, AppendEntry, Recorded, CloseBare, ReadNothing, Acting, Goes,
                Places, tableVars
  <2>. QED
    BY <2>1
<1>6. ASSUME NEW t \in Threads, Leave(t) PROVE CallShape(v)'
  BY <1>6 DEF Leave, Goes, NoCall
<1>. QED
  BY <1>1, <1>2, <1>3, <1>4, <1>5, <1>6 DEF Next, Step, Body

-----------------------------------------------------------------------------
(* The lock: a thread that passes the test while nobody creates the        *)
(* section finds it there, or is alone in creating it.                     *)
LEMMA LockNext == TypeOK /\ LockInv /\ [Next]_vars => LockInv'
<1> SUFFICES ASSUME TypeOK, LockInv, [Next]_vars, ~raced' PROVE LockInv'
  BY DEF LockInv
<1> USE DEF TypeOK, LockInv, Creating, Inside
<1>1. CASE UNCHANGED vars
  BY <1>1 DEF vars, tableVars
<1>2. ASSUME NEW t \in Threads, Connect(t) \/ Close(t) \/ Cancel(t) \/ Ask(t) PROVE LockInv'
  <2>1. /\ pc[t] = "outside" /\ pc' = [pc EXCEPT ![t] = "test"]
        /\ UNCHANGED <<cs, held, raced>>
    BY <1>2 DEF Connect, Close, Cancel, Ask, Calling, Goes, tableVars
  <2>. QED
    BY <2>1
<1>3. ASSUME NEW t \in Threads, LockTest(t) PROVE LockInv'
  <2>1. ~raced /\ \A u \in Threads : ~Creating(u)
    BY <1>3 DEF LockTest
  <2>2. /\ pc[t] = "test" /\ pc' = [pc EXCEPT ![t] = IF cs = 0 THEN "create" ELSE "enter"]
        /\ cs' = cs /\ held' = held
    BY <1>3 DEF LockTest, Goes
  <2>3. CASE cs = 0
    <3>1. \A u \in Threads : pc[u] \in {"outside", "test"}
      BY <2>1, <2>3 DEF Places
    <3>. QED
      BY <2>1, <2>2, <2>3, <3>1
  <2>4. CASE cs # 0
    BY <2>1, <2>2, <2>4
  <2>. QED
    BY <2>3, <2>4
<1>4. ASSUME NEW t \in Threads, LockCreate(t) PROVE LockInv'
  BY <1>4 DEF LockCreate, Goes
<1>5. ASSUME NEW t \in Threads, LockInitialise(t) PROVE LockInv'
  BY <1>5 DEF LockInitialise, Goes, tableVars
<1>6. ASSUME NEW t \in Threads, Enter(t) PROVE LockInv'
  BY <1>6 DEF Enter, Goes, tableVars
<1>7. ASSUME NEW t \in Threads, Find(t) \/ Act(t) PROVE LockInv'
  <2>1. /\ pc[t] \in {"find", "act"}
        /\ \E place \in {"act", "leave"} : pc' = [pc EXCEPT ![t] = place]
        /\ UNCHANGED <<cs, held, raced>>
    BY <1>7 DEF Find, Act, CloseEntry, ReadEntry, ReplaceEntry, AppendEntry, Recorded, CloseBare,
                ReadNothing, Acting, Goes, tableVars
  <2>. QED
    BY <2>1
<1>8. ASSUME NEW t \in Threads, Leave(t) PROVE LockInv'
  BY <1>8 DEF Leave, Goes, tableVars
<1>. QED
  BY <1>1, <1>2, <1>3, <1>4, <1>5, <1>6, <1>7, <1>8 DEF Next, Step, Body

-----------------------------------------------------------------------------
(* What was not raced for and not reused was neither before.               *)
LEMMA Lasting == [Next]_vars /\ ~raced' /\ ~reused' => ~raced /\ ~reused
<1> SUFFICES ASSUME [Next]_vars, raced \/ reused PROVE raced' \/ reused'
  OBVIOUS
<1>1. CASE UNCHANGED vars
  BY <1>1 DEF vars, tableVars
<1>2. ASSUME NEW t \in Threads, Connect(t) PROVE raced' \/ reused'
  <2>1. PICK h \in Handles : reused' = (reused \/ \E u \in Threads : h \in mine[u])
    BY <1>2 DEF Connect
  <2>2. raced' = raced
    BY <1>2 DEF Connect
  <2>. QED
    BY <2>1, <2>2
<1>3. ASSUME NEW t \in Threads, LockTest(t) PROVE raced' \/ reused'
  BY <1>3 DEF LockTest
<1>4. ASSUME NEW t \in Threads, Close(t) \/ Cancel(t) \/ Ask(t) PROVE raced' \/ reused'
  BY <1>4 DEF Close, Cancel, Ask, tableVars
<1>5. ASSUME NEW t \in Threads,
             LockCreate(t) \/ LockInitialise(t) \/ Enter(t) \/ Find(t) \/ Leave(t)
      PROVE raced' \/ reused'
  BY <1>5 DEF LockCreate, LockInitialise, Enter, Find, Leave, tableVars
<1>6. ASSUME NEW t \in Threads, Act(t) PROVE raced' \/ reused'
  BY <1>6 DEF Act, CloseEntry, ReadEntry, ReplaceEntry, AppendEntry, Recorded, CloseBare,
              ReadNothing, tableVars
<1>. QED
  BY <1>1, <1>2, <1>3, <1>4, <1>5, <1>6 DEF Next, Step, Body

(* The assumptions under which a step is looked at.                        *)
Undisturbed ==
    TypeOK /\ ShapeInv /\ ~raced /\ ~reused /\ LockInv /\ EntriesRight
    /\ \A t \in Threads : CallRight(t)

Kept == EntriesRight /\ \A t \in Threads : CallRight(t)

(* The two directions of what the table is, as they are used.              *)
LEMMA InTable ==
  ASSUME EntriesRight, NEW t \in Threads, NEW h \in Handles, last[t] = h
  PROVE  [id |-> t, socket |-> h] \in table
  BY DEF EntriesRight

LEMMA OfTable ==
  ASSUME TypeOK, EntriesRight, NEW e \in table
  PROVE  /\ e.id \in Threads /\ e.socket \in Handles
         /\ e = [id |-> e.id, socket |-> e.socket]
         /\ openedBy[e.socket] = e.id /\ last[e.id] = e.socket
<1>1. e.id \in Threads /\ e.socket \in Handles /\ e = [id |-> e.id, socket |-> e.socket]
  BY DEF TypeOK, Entries
<1>2. [id |-> e.id, socket |-> e.socket] \in table => last[e.id] = e.socket
  BY <1>1 DEF EntriesRight
<1>. QED
  BY <1>1, <1>2 DEF EntriesRight

(* A new connection: its number was nobody's.                              *)
LEMMA KeptConnect ==
  ASSUME Undisturbed, NEW t \in Threads, Connect(t), ~reused'
  PROVE  Kept'
<1> USE ThreadsAssumption, HandlesAssumption DEF Undisturbed
<1>1. PICK h \in Handles :
        /\ openedBy[h] = 0 /\ openedBy' = [openedBy EXCEPT ![h] = t]
        /\ mine' = [mine EXCEPT ![t] = @ \cup {h}]
        /\ reused' = (reused \/ \E u \in Threads : h \in mine[u])
        /\ Calling(t, t, h)
  BY DEF Connect
<1>2. \A u \in Threads : h \notin mine[u]
  BY <1>1
<1>3. UNCHANGED <<table, last, found, seen, result>>
  BY DEF Connect
<1>4. \A e \in table : e.socket # h /\ e.socket \in Handles
  BY <1>1 DEF TypeOK, EntriesRight, Entries
<1>5. ASSUME NEW u \in Threads, last[u] = h PROVE FALSE
  <2>1. [id |-> u, socket |-> h] \in table
    BY <1>5 DEF EntriesRight
  <2>. QED
    BY <2>1, <1>4
<1>6. pc[t] = "outside" /\ pc' = [pc EXCEPT ![t] = "test"]
      /\ call' = [call EXCEPT ![t] = [id |-> t, socket |-> h]]
  BY <1>1 DEF Calling, Goes
<1>7. openedBy' \in [Handles -> Threads \cup {0}] /\ mine' \in [Threads -> SUBSET Handles]
  BY <1>1 DEF TypeOK
<1>8. EntriesRight'
  <2>1. \A u \in Threads, g \in Handles : [id |-> u, socket |-> g] \in table' <=> last'[u] = g
    BY <1>3 DEF EntriesRight
  <2>2. \A e \in table' : openedBy'[e.socket] = e.id
    BY <1>1, <1>3, <1>4 DEF EntriesRight, TypeOK
  <2>3. \A u \in Threads, g \in Handles : openedBy'[g] = u => g \in mine'[u]
    BY <1>1 DEF EntriesRight, TypeOK
  <2>4. \A u \in Threads : \A g \in mine'[u] : openedBy'[g] \in {0, u}
    BY <1>1, <1>2 DEF EntriesRight, TypeOK
  <2>5. \A u, v \in Threads : \A g \in Handles : g \in mine'[u] /\ g \in mine'[v] => u = v
    BY <1>1, <1>2 DEF EntriesRight, TypeOK
  <2>. QED
    BY <2>1, <2>2, <2>3, <2>4, <2>5 DEF EntriesRight
<1>9. ASSUME NEW v \in Threads PROVE CallRight(v)'
  <2>1. CASE v = t
    BY <2>1, <1>1, <1>3, <1>5, <1>6 DEF CallRight, Pending, Recording, TypeOK
  <2>2. CASE v # t
    <3>1. pc'[v] = pc[v] /\ call'[v] = call[v] /\ mine'[v] = mine[v]
      BY <2>2, <1>1, <1>6 DEF TypeOK
    <3>2. openedBy[call[v].socket] = v => openedBy'[call[v].socket] = v
      BY <1>1 DEF TypeOK
    <3>. QED
      BY <3>1, <3>2, <1>3 DEF CallRight, Pending, Recording, Matches
  <2>. QED
    BY <2>1, <2>2
<1>. QED
  BY <1>8, <1>9 DEF Kept

(* The other calls begin with what they need.                              *)
LEMMA KeptCalls ==
  ASSUME Undisturbed, NEW t \in Threads, Close(t) \/ Cancel(t) \/ Ask(t)
  PROVE  Kept'
<1> USE ThreadsAssumption, HandlesAssumption DEF Undisturbed
<1>1. UNCHANGED <<table, openedBy, mine, last, found, seen, result>>
  BY DEF Close, Cancel, Ask, tableVars
<1>2. PICK c \in Calls : /\ pc' = [pc EXCEPT ![t] = "test"] /\ call' = [call EXCEPT ![t] = c]
                         /\ c.id = -1 => c.socket \in mine[t]
                         /\ c.id # -1 => c.socket \in {-1, 0}
  <2>1. CASE Close(t)
    <3>1. PICK h \in mine[t] : Calling(t, -1, h)
      BY <2>1 DEF Close
    <3>2. [id |-> -1, socket |-> h] \in Calls
      BY DEF Calls, TypeOK
    <3>. QED
      BY <3>1, <3>2 DEF Calling, Goes
  <2>2. CASE Cancel(t)
    <3>1. PICK u \in Threads : Calling(t, u, -1)
      BY <2>2 DEF Cancel
    <3>2. [id |-> u, socket |-> -1] \in Calls /\ u # -1
      BY DEF Calls
    <3>. QED
      BY <3>1, <3>2 DEF Calling, Goes
  <2>3. CASE Ask(t)
    <3>1. PICK u \in Threads : Calling(t, u, 0)
      BY <2>3 DEF Ask
    <3>2. [id |-> u, socket |-> 0] \in Calls /\ u # -1
      BY DEF Calls
    <3>. QED
      BY <3>1, <3>2 DEF Calling, Goes
  <2>. QED
    BY <2>1, <2>2, <2>3
<1>3. EntriesRight'
  BY <1>1 DEF EntriesRight
<1>4. ASSUME NEW v \in Threads PROVE CallRight(v)'
  <2>1. CASE v = t
    BY <2>1, <1>1, <1>2 DEF CallRight, Pending, Recording, TypeOK
  <2>2. CASE v # t
    BY <2>2, <1>1, <1>2 DEF CallRight, Pending, Recording, Matches, TypeOK
  <2>. QED
    BY <2>1, <2>2
<1>. QED
  BY <1>3, <1>4 DEF Kept

(* The lock and the search change neither the table nor the sockets, and   *)
(* what was found is still so when the thread acts: nobody else is inside. *)
LEMMA KeptLock ==
  ASSUME Undisturbed, NEW t \in Threads,
         LockTest(t) \/ LockCreate(t) \/ LockInitialise(t) \/ Enter(t)
  PROVE  Kept'
<1> USE DEF Undisturbed
<1>1. UNCHANGED <<table, openedBy, mine, last, found, seen, result, call>>
  BY DEF LockTest, LockCreate, LockInitialise, Enter, tableVars
<1>2. /\ pc[t] \in {"test", "create", "initialise", "enter"}
      /\ \E place \in {"create", "initialise", "enter", "find"} : pc' = [pc EXCEPT ![t] = place]
  BY DEF LockTest, LockCreate, LockInitialise, Enter, Goes
<1>3. EntriesRight'
  BY <1>1 DEF EntriesRight
<1>4. \A v \in Threads : CallRight(v)'
  BY <1>1, <1>2 DEF CallRight, Pending, Recording, Matches, TypeOK
<1>. QED
  BY <1>3, <1>4 DEF Kept

LEMMA KeptFind ==
  ASSUME Undisturbed, NEW t \in Threads, Find(t)
  PROVE  Kept'
<1> USE DEF Undisturbed
<1>1. UNCHANGED <<table, openedBy, mine, last, result, call>>
  BY DEF Find, tableVars
<1>2. /\ pc[t] = "find" /\ pc' = [pc EXCEPT ![t] = "act"]
      /\ seen' = [seen EXCEPT ![t] = table]
  BY DEF Find, Goes
<1>3. \/ \E e \in table : Matches(e, call[t]) /\ found' = [found EXCEPT ![t] = {e}]
      \/ (\A e \in table : ~Matches(e, call[t])) /\ found' = [found EXCEPT ![t] = {}]
  BY DEF Find
<1>4. EntriesRight'
  BY <1>1 DEF EntriesRight
<1>5. ASSUME NEW v \in Threads PROVE CallRight(v)'
  <2>1. CASE v = t
    <3>1. /\ \A e \in found'[t] : e \in table /\ Matches(e, call[t])
          /\ found'[t] = {} => \A e \in table : ~Matches(e, call[t])
          /\ \A e, f \in found'[t] : e = f
      BY <1>3 DEF TypeOK
    <3>. QED
      BY <2>1, <3>1, <1>1, <1>2 DEF CallRight, Pending, Recording, Matches, TypeOK
  <2>2. CASE v # t
    <3>1. pc'[v] = pc[v] /\ found'[v] = found[v] /\ seen'[v] = seen[v]
      BY <2>2, <1>2, <1>3 DEF TypeOK
    <3>. QED
      BY <3>1, <1>1 DEF CallRight, Pending, Recording, Matches
  <2>. QED
    BY <2>1, <2>2
<1>. QED
  BY <1>4, <1>5 DEF Kept

LEMMA KeptLeave ==
  ASSUME Undisturbed, NEW t \in Threads, Leave(t)
  PROVE  Kept'
<1> USE DEF Undisturbed
<1>1. UNCHANGED <<table, openedBy, mine, last>>
  BY DEF Leave, tableVars
<1>2. pc' = [pc EXCEPT ![t] = "outside"]
  BY DEF Leave, Goes
<1>3. EntriesRight'
  BY <1>1 DEF EntriesRight
<1>4. ASSUME NEW v \in Threads PROVE CallRight(v)'
  <2>1. CASE v = t
    BY <2>1, <1>2 DEF CallRight, Pending, TypeOK
  <2>2. CASE v # t
    <3>1. /\ pc'[v] = pc[v] /\ found'[v] = found[v] /\ seen'[v] = seen[v]
          /\ call'[v] = call[v] /\ result'[v] = result[v]
      BY <2>2 DEF TypeOK, Leave, Goes, Returning
    <3>. QED
      BY <3>1, <1>1 DEF CallRight, Pending, Recording, Matches
  <2>. QED
    BY <2>1, <2>2
<1>. QED
  BY <1>3, <1>4 DEF Kept

-----------------------------------------------------------------------------
(* What the thread that acts knows: it is alone inside, and a call that is *)
(* under way elsewhere keeps what it needs if the sockets it is about do.  *)
LEMMA OthersKept ==
  ASSUME Undisturbed, NEW t \in Threads, pc[t] = "act", pc' = [pc EXCEPT ![t] = "leave"],
         UNCHANGED <<call, found, seen>>,
         NEW v \in Threads \ {t},
         mine'[v] = mine[v],
         Pending(v) /\ Recording(v) =>
             openedBy'[call[v].socket] = v /\ \A u \in Threads : last'[u] # call[v].socket
  PROVE  CallRight(v)'
<1>1. pc[v] \notin {"act", "leave"} /\ pc'[v] = pc[v]
  BY DEF Undisturbed, LockInv, Inside, TypeOK
<1>. QED
  BY <1>1 DEF Undisturbed, CallRight, Pending, Recording

(* Reading changes nothing, and reports the last socket.                   *)
LEMMA KeptRead ==
  ASSUME Undisturbed, NEW t \in Threads, ReadEntry(t) \/ ReadNothing(t)
  PROVE  Kept'
<1> USE ThreadsAssumption, HandlesAssumption DEF Undisturbed
<1>1. UNCHANGED <<table, openedBy, mine, last, call, found, seen>>
  BY DEF ReadEntry, ReadNothing, tableVars
<1>2. /\ pc[t] = "act" /\ pc' = [pc EXCEPT ![t] = "leave"]
      /\ call[t].id \in Threads /\ call[t].socket = 0
  BY DEF ReadEntry, ReadNothing, Acting, Goes, Closing, TypeOK, Calls
<1>3. EntriesRight'
  BY <1>1 DEF EntriesRight
<1>4. result'[t] = last[call[t].id]
  <2>1. CASE ReadEntry(t)
    <3>1. PICK e \in found[t] : result' = [result EXCEPT ![t] = e.socket]
      BY <2>1 DEF ReadEntry, Returning
    <3>2. e \in table /\ e.id = call[t].id
      BY <1>2 DEF CallRight, Matches
    <3>3. e = [id |-> e.id, socket |-> e.socket] /\ e.socket \in Handles
      BY <3>2 DEF TypeOK, Entries
    <3>4. last[e.id] = e.socket
      BY <1>2, <3>2, <3>3 DEF EntriesRight
    <3>. QED
      BY <3>1, <3>2, <3>4 DEF TypeOK
  <2>2. CASE ReadNothing(t)
    <3>1. \A e \in table : e.id # call[t].id
      BY <2>2, <1>2 DEF CallRight, Matches, ReadNothing
    <3>2. ASSUME NEW g \in Handles, last[call[t].id] = g PROVE FALSE
      <4>1. [id |-> call[t].id, socket |-> g] \in table
        <5>1. call[t].id \in Threads
          BY <1>2
        <5>. QED
          BY <5>1, <3>2, InTable
      <4>. QED
        BY <4>1, <3>1
    <3>3. last[call[t].id] = 0
      BY <1>2, <3>2 DEF TypeOK
    <3>. QED
      BY <2>2, <3>3 DEF ReadNothing, Returning, TypeOK
  <2>. QED
    BY <2>1, <2>2
<1>5. ASSUME NEW v \in Threads PROVE CallRight(v)'
  <2>1. CASE v = t
    BY <2>1, <1>1, <1>2, <1>4 DEF CallRight, Pending, TypeOK
  <2>2. CASE v # t
    <3>1. Pending(v) /\ Recording(v) =>
             openedBy'[call[v].socket] = v /\ \A u \in Threads : last'[u] # call[v].socket
      BY <1>1 DEF CallRight
    <3>. QED
      BY <2>2, <3>1, <1>1, <1>2, OthersKept
  <2>. QED
    BY <2>1, <2>2
<1>. QED
  BY <1>3, <1>5 DEF Kept

(* A new socket takes its thread's place in the table.                     *)
LEMMA KeptRecord ==
  ASSUME Undisturbed, NEW t \in Threads, ReplaceEntry(t) \/ AppendEntry(t)
  PROVE  Kept'
<1> USE ThreadsAssumption, HandlesAssumption DEF Undisturbed
<1> DEFINE h == call[t].socket
<1>1. UNCHANGED <<openedBy, mine, call, found, seen>>
  BY DEF ReplaceEntry, AppendEntry, Recorded
<1>2. /\ pc[t] = "act" /\ pc' = [pc EXCEPT ![t] = "leave"]
      /\ call[t].id \in Threads /\ h \in Handles /\ call[t] \in Calls
  BY DEF ReplaceEntry, AppendEntry, Acting, Goes, Closing, TypeOK, Calls
<1>3. /\ call[t].id = t /\ openedBy[h] = t
      /\ \A u \in Threads : last[u] # h
  BY <1>2 DEF CallRight, Pending, Recording
<1>4. call[t] = [id |-> t, socket |-> h]
  BY <1>2, <1>3 DEF Calls
<1>5. last' = [last EXCEPT ![t] = h]
  BY <1>3 DEF ReplaceEntry, AppendEntry, Recorded
<1>6. table' = {e \in table : e.id # t} \cup {[id |-> t, socket |-> h]}
  <2>1. CASE ReplaceEntry(t)
    <3>1. found[t] = {e \in table : e.id = t}
      <4>1. PICK e \in found[t] : TRUE
        BY <2>1 DEF ReplaceEntry
      <4>2. \A f \in found[t] : f \in table /\ f.id = t
        BY <1>2, <1>3 DEF CallRight, Matches
      <4>3. ASSUME NEW f \in table, f.id = t PROVE f = e
        <5>1. /\ f = [id |-> t, socket |-> f.socket] /\ f.socket \in Handles
              /\ e = [id |-> t, socket |-> e.socket] /\ e.socket \in Handles
          BY <4>1, <4>2, <4>3 DEF TypeOK, Entries
        <5>2. last[t] = f.socket /\ last[t] = e.socket
          BY <5>1, <4>1, <4>2, <4>3 DEF EntriesRight
        <5>. QED
          BY <5>1, <5>2
      <4>4. found[t] \subseteq {f \in table : f.id = t}
        BY <4>2
      <4>5. {f \in table : f.id = t} \subseteq found[t]
        BY <4>1, <4>3
      <4>. QED
        BY <4>4, <4>5
    <3>. QED
      BY <2>1, <3>1, <1>4 DEF ReplaceEntry
  <2>2. CASE AppendEntry(t)
    <3>1. seen[t] = table /\ \A e \in table : e.id # t
      BY <2>2, <1>2, <1>3 DEF CallRight, Matches, AppendEntry
    <3>. QED
      BY <2>2, <3>1, <1>4 DEF AppendEntry
  <2>. QED
    BY <2>1, <2>2
<1>7. EntriesRight'
  <2>1. \A u \in Threads, g \in Handles : [id |-> u, socket |-> g] \in table' <=> last'[u] = g
    <3> SUFFICES ASSUME NEW u \in Threads, NEW g \in Handles
                 PROVE  [id |-> u, socket |-> g] \in table' <=> last'[u] = g
      OBVIOUS
    <3>1. CASE u = t
      BY <3>1, <1>5, <1>6 DEF TypeOK
    <3>2. CASE u # t
      BY <3>2, <1>5, <1>6 DEF TypeOK, EntriesRight
    <3>. QED
      BY <3>1, <3>2
  <2>2. \A e \in table' : openedBy'[e.socket] = e.id
    BY <1>1, <1>3, <1>6 DEF EntriesRight
  <2>. QED
    BY <2>1, <2>2, <1>1 DEF EntriesRight
<1>8. ASSUME NEW v \in Threads PROVE CallRight(v)'
  <2>1. CASE v = t
    BY <2>1, <1>1, <1>2 DEF CallRight, Pending, TypeOK
  <2>2. CASE v # t
    <3>1. ASSUME Pending(v), Recording(v)
          PROVE  openedBy'[call[v].socket] = v /\ \A u \in Threads : last'[u] # call[v].socket
      BY <3>1, <2>2, <1>1, <1>3, <1>5 DEF CallRight, TypeOK
    <3>. QED
      BY <2>2, <3>1, <1>1, <1>2, OthersKept
  <2>. QED
    BY <2>1, <2>2
<1>. QED
  BY <1>7, <1>8 DEF Kept

(* Which sockets a thread that closes may reach: one of its own, whose     *)
(* entry was found or does not exist, or that of the thread it names.      *)
LEMMA KeptCloseEntry ==
  ASSUME Undisturbed, NEW t \in Threads, CloseEntry(t)
  PROVE  /\ Kept'
         /\ \A h \in Handles : openedBy[h] # 0 /\ openedBy'[h] # openedBy[h] =>
                openedBy[h] \in {t, call[t].id}
<1> USE ThreadsAssumption, HandlesAssumption DEF Undisturbed
<1>1. PICK e \in found[t] : CloseSocket(e.socket)
  BY DEF CloseEntry
<1>2. /\ pc[t] = "act" /\ pc' = [pc EXCEPT ![t] = "leave"]
      /\ UNCHANGED <<call, found, seen>> /\ table' = table \ found[t]
  BY DEF CloseEntry, Acting, Goes
<1>3. /\ e \in table /\ Matches(e, call[t]) /\ found[t] = {e}
  BY <1>1, <1>2 DEF CallRight
<1>4. /\ e.id \in Threads /\ e.socket \in Handles /\ e = [id |-> e.id, socket |-> e.socket]
      /\ openedBy[e.socket] = e.id /\ last[e.id] = e.socket
  BY <1>3, OfTable
<1>5. /\ openedBy' = [openedBy EXCEPT ![e.socket] = 0]
      /\ last' = [u \in Threads |-> IF last[u] = e.socket THEN 0 ELSE last[u]]
  BY <1>1 DEF CloseSocket
<1>6. ASSUME NEW u \in Threads, u # e.id, last[u] = e.socket PROVE FALSE
  <2>1. [id |-> u, socket |-> e.socket] \in table
    BY <1>4, <1>6, InTable
  <2>2. openedBy[e.socket] = u
    BY <2>1, OfTable
  <2>. QED
    BY <2>2, <1>4, <1>6
<1>7. mine' \in [Threads -> SUBSET Handles] /\ \A u \in Threads : u # t => mine'[u] = mine[u]
  BY DEF CloseEntry, Given, TypeOK
<1>8. \A u \in Threads, h \in Handles : h \in mine[u] /\ h \notin mine'[u] => h = e.socket
  <2>1. CASE call[t].id = -1
    <3>1. e.socket = call[t].socket
      BY <2>1, <1>3, <1>4 DEF Matches
    <3>. QED
      BY <2>1, <3>1 DEF CloseEntry, Given, TypeOK
  <2>2. CASE call[t].id # -1
    BY <2>2 DEF CloseEntry, Given
  <2>. QED
    BY <2>1, <2>2
<1>9. \A u \in Threads : mine'[u] \subseteq mine[u]
  BY DEF CloseEntry, Given, TypeOK
<1>10. EntriesRight'
  <2>1. \A u \in Threads, g \in Handles : [id |-> u, socket |-> g] \in table' <=> last'[u] = g
    <3> SUFFICES ASSUME NEW u \in Threads, NEW g \in Handles
                 PROVE  [id |-> u, socket |-> g] \in table' <=> last'[u] = g
      OBVIOUS
    <3>0. [id |-> u, socket |-> g] = e <=> u = e.id /\ g = e.socket
      BY <1>4
    <3>1. [id |-> u, socket |-> g] \in table <=> last[u] = g
      BY DEF EntriesRight
    <3>2. [id |-> u, socket |-> g] \in table' <=>
            last[u] = g /\ ~(u = e.id /\ g = e.socket)
      BY <3>0, <3>1, <1>2, <1>3
    <3>3. CASE u = e.id
      BY <3>2, <3>3, <1>4, <1>5
    <3>4. CASE u # e.id
      BY <3>2, <3>4, <1>4, <1>5, <1>6
    <3>. QED
      BY <3>3, <3>4
  <2>2. \A f \in table' : openedBy'[f.socket] = f.id
    <3> SUFFICES ASSUME NEW f \in table, f # e PROVE openedBy'[f.socket] = f.id
      BY <1>2, <1>3
    <3>1. /\ f = [id |-> f.id, socket |-> f.socket] /\ f.id \in Threads /\ f.socket \in Handles
          /\ openedBy[f.socket] = f.id /\ last[f.id] = f.socket
      BY OfTable
    <3>2. f.socket # e.socket
      BY <3>1, <1>4
    <3>. QED
      BY <3>1, <3>2, <1>5 DEF TypeOK
  <2>3. \A u \in Threads, g \in Handles : openedBy'[g] = u => g \in mine'[u]
    BY <1>4, <1>5, <1>8 DEF EntriesRight, TypeOK
  <2>4. \A u \in Threads : \A g \in mine'[u] : openedBy'[g] \in {0, u}
    BY <1>5, <1>9 DEF EntriesRight, TypeOK
  <2>5. \A u, v \in Threads : \A g \in Handles : g \in mine'[u] /\ g \in mine'[v] => u = v
    BY <1>9 DEF EntriesRight
  <2>. QED
    BY <2>1, <2>2, <2>3, <2>4, <2>5 DEF EntriesRight
<1>11. ASSUME NEW v \in Threads PROVE CallRight(v)'
  <2>1. CASE v = t
    BY <2>1, <1>2 DEF CallRight, Pending, CloseEntry, Closing, TypeOK, ShapeInv, CallShape
  <2>2. CASE v # t
    <3>1. ASSUME Pending(v), Recording(v)
          PROVE  openedBy'[call[v].socket] = v /\ \A u \in Threads : last'[u] # call[v].socket
      <4>1. /\ openedBy[call[v].socket] = v /\ call[v].socket \in Handles
            /\ \A u \in Threads : last[u] # call[v].socket
        BY <3>1 DEF CallRight, Recording
      <4>2. call[v].socket # e.socket
        BY <4>1, <1>4
      <4>. QED
        BY <4>1, <4>2, <1>5 DEF TypeOK
    <3>. QED
      BY <2>2, <3>1, <1>2, <1>7, OthersKept
  <2>. QED
    BY <2>1, <2>2
<1>12. ASSUME NEW h \in Handles, openedBy[h] # 0, openedBy'[h] # openedBy[h]
       PROVE  openedBy[h] \in {t, call[t].id}
  <2>1. h = e.socket
    BY <1>12, <1>5 DEF TypeOK
  <2>2. CASE call[t].id = -1
    <3>1. e.socket \in mine[t]
      BY <2>2, <1>2, <1>3, <1>4 DEF CallRight, Pending, Matches
    <3>. QED
      BY <2>1, <3>1, <1>12 DEF EntriesRight
  <2>3. CASE call[t].id # -1
    BY <2>1, <2>3, <1>3, <1>4 DEF Matches
  <2>. QED
    BY <2>2, <2>3
<1>. QED
  BY <1>10, <1>11, <1>12 DEF Kept

(* A socket that stands under no thread: only its owner can have it.       *)
LEMMA KeptCloseBare ==
  ASSUME Undisturbed, NEW t \in Threads, CloseBare(t)
  PROVE  /\ Kept'
         /\ \A h \in Handles : openedBy[h] # 0 /\ openedBy'[h] # openedBy[h] =>
                openedBy[h] \in {t, call[t].id}
<1> USE ThreadsAssumption, HandlesAssumption DEF Undisturbed
<1> DEFINE h == call[t].socket
<1>1. /\ pc[t] = "act" /\ pc' = [pc EXCEPT ![t] = "leave"] /\ UNCHANGED <<call, found, seen, table>>
      /\ found[t] = {} /\ (call[t].id = -1 \/ h = -1)
  BY DEF CloseBare, Acting, Goes, Closing
<1>2. CASE h = -1
  <2>1. UNCHANGED <<openedBy, last>> /\ call[t].id # -1
    BY <1>1, <1>2 DEF CloseBare, ShapeInv, CallShape
  <2>2. mine' = mine
    BY <2>1 DEF CloseBare, Given
  <2>3. EntriesRight'
    BY <1>1, <2>1, <2>2 DEF EntriesRight
  <2>4. ASSUME NEW v \in Threads PROVE CallRight(v)'
    <3>1. CASE v = t
      BY <3>1, <1>1, <1>2, <2>1 DEF CallRight, Pending, TypeOK
    <3>2. CASE v # t
      <4>1. ASSUME Pending(v), Recording(v)
            PROVE  openedBy'[call[v].socket] = v /\ \A u \in Threads : last'[u] # call[v].socket
        BY <4>1, <2>1 DEF CallRight
      <4>. QED
        BY <3>2, <4>1, <1>1, <2>2, OthersKept
    <3>. QED
      BY <3>1, <3>2
  <2>. QED
    BY <2>1, <2>3, <2>4 DEF Kept
<1>3. CASE h # -1
  <2>1. /\ call[t].id = -1 /\ h \in Handles /\ h \in mine[t]
    BY <1>1, <1>3 DEF ShapeInv, CallShape, CallRight, Pending
  <2>2. \A e \in table : e.socket # h
    BY <1>1, <2>1 DEF CallRight, Matches
  <2>3. ASSUME NEW u \in Threads, last[u] = h PROVE FALSE
    BY <2>1, <2>2, <2>3, InTable
  <2>4. openedBy' = [openedBy EXCEPT ![h] = 0] /\ last' = last
    <3>1. CloseSocket(h)
      BY <1>3 DEF CloseBare
    <3>. QED
      BY <3>1, <2>3 DEF CloseSocket, TypeOK
  <2>5. mine' = [mine EXCEPT ![t] = @ \ {h}]
    BY <2>1 DEF CloseBare, Given
  <2>6. EntriesRight'
    <3>1. \A u \in Threads, g \in Handles : [id |-> u, socket |-> g] \in table' <=> last'[u] = g
      BY <1>1, <2>4 DEF EntriesRight
    <3>2. ASSUME NEW e \in table PROVE openedBy'[e.socket] = e.id
      <4>1. e.socket \in Handles /\ openedBy[e.socket] = e.id /\ e.socket # h
        BY <2>2, OfTable
      <4>. QED
        BY <4>1, <2>4 DEF TypeOK
    <3>3. \A u \in Threads, g \in Handles : openedBy'[g] = u => g \in mine'[u]
      BY <2>1, <2>4, <2>5 DEF EntriesRight, TypeOK
    <3>4. \A u \in Threads : \A g \in mine'[u] : openedBy'[g] \in {0, u}
      BY <2>4, <2>5 DEF EntriesRight, TypeOK
    <3>5. \A u, v \in Threads : \A g \in Handles : g \in mine'[u] /\ g \in mine'[v] => u = v
      BY <2>5 DEF EntriesRight, TypeOK
    <3>. QED
      BY <3>1, <3>2, <3>3, <3>4, <3>5, <1>1 DEF EntriesRight
  <2>7. ASSUME NEW v \in Threads PROVE CallRight(v)'
    <3>1. CASE v = t
      BY <3>1, <1>1, <2>1 DEF CallRight, Pending, TypeOK
    <3>2. CASE v # t
      <4>1. ASSUME Pending(v), Recording(v)
            PROVE  openedBy'[call[v].socket] = v /\ \A u \in Threads : last'[u] # call[v].socket
        <5>1. openedBy[call[v].socket] = v /\ call[v].socket \in Handles
              /\ \A u \in Threads : last[u] # call[v].socket
          BY <4>1 DEF CallRight, Recording
        <5>2. call[v].socket # h
          BY <5>1, <2>1, <3>2 DEF EntriesRight
        <5>. QED
          BY <5>1, <5>2, <2>4 DEF TypeOK
      <4>2. mine'[v] = mine[v]
        BY <3>2, <2>5 DEF TypeOK
      <4>. QED
        BY <3>2, <4>1, <4>2, <1>1, OthersKept
    <3>. QED
      BY <3>1, <3>2
  <2>8. ASSUME NEW g \in Handles, openedBy[g] # 0, openedBy'[g] # openedBy[g]
        PROVE  openedBy[g] \in {t, call[t].id}
    BY <2>8, <2>1, <2>4 DEF EntriesRight, TypeOK
  <2>. QED
    BY <2>6, <2>7, <2>8 DEF Kept
<1>. QED
  BY <1>2, <1>3

-----------------------------------------------------------------------------
(* Every step keeps what is known of the table and of the calls.           *)
LEMMA TableNext == IInv /\ [Next]_vars => TableInv'
<1> SUFFICES ASSUME IInv, [Next]_vars, ~raced', ~reused' PROVE Kept'
  BY DEF TableInv, Kept
<1>1. Undisturbed
  BY Lasting DEF IInv, TableInv, Undisturbed
<1>2. CASE UNCHANGED vars
  <2>1. EntriesRight'
    BY <1>1, <1>2 DEF Undisturbed, EntriesRight, vars, tableVars
  <2>2. \A t \in Threads : CallRight(t)'
    BY <1>1, <1>2 DEF Undisturbed, CallRight, Pending, Recording, Matches, vars, tableVars
  <2>. QED
    BY <2>1, <2>2 DEF Kept
<1>3. ASSUME NEW t \in Threads, Step(t) PROVE Kept'
  <2>1. CASE Connect(t)
    BY <2>1, <1>1, KeptConnect
  <2>2. CASE Close(t) \/ Cancel(t) \/ Ask(t)
    BY <2>2, <1>1, KeptCalls
  <2>3. CASE LockTest(t) \/ LockCreate(t) \/ LockInitialise(t) \/ Enter(t)
    BY <2>3, <1>1, KeptLock
  <2>4. CASE Find(t)
    BY <2>4, <1>1, KeptFind
  <2>5. CASE ReadEntry(t) \/ ReadNothing(t)
    BY <2>5, <1>1, KeptRead
  <2>6. CASE ReplaceEntry(t) \/ AppendEntry(t)
    BY <2>6, <1>1, KeptRecord
  <2>7. CASE CloseEntry(t)
    BY <2>7, <1>1, KeptCloseEntry
  <2>8. CASE CloseBare(t)
    BY <2>8, <1>1, KeptCloseBare
  <2>9. CASE Leave(t)
    BY <2>9, <1>1, KeptLeave
  <2>. QED
    BY <1>3, <2>1, <2>2, <2>3, <2>4, <2>5, <2>6, <2>7, <2>8, <2>9 DEF Step, Body, Act
<1>. QED
  BY <1>2, <1>3 DEF Next

(* The invariant is inductive.                                             *)
LEMMA IInvNext == IInv /\ [Next]_vars => IInv'
  BY TypeNext, ShapeNext, LockNext, TableNext DEF IInv

LEMMA IInvAlways == Spec => []IInv
<1>1. Init => IInv
  BY InitIInv
<1>2. IInv /\ [Next]_vars => IInv'
  BY IInvNext
<1>. QED
  BY <1>1, <1>2, PTL DEF Spec

-----------------------------------------------------------------------------
(* The variables of gg_thread_socket() and of its callers keep their       *)
(* types, for any number of threads and sockets (common.c:587).            *)
THEOREM TypeCorrect == Spec => []TypeOK
<1>1. IInv => TypeOK
  BY DEF IInv
<1>. QED
  BY <1>1, IInvAlways, PTL

(* One thread at most is in the section.                                   *)
MutualExclusion == \A t, u \in Threads : ~raced /\ Inside(t) /\ Inside(u) => t = u

(* As long as no thread met another that creates the section, one thread   *)
(* at most is between gg_thread_socket_lock() and gg_thread_socket_unlock()*)
(* (common.c:543).                                                         *)
THEOREM OneInside == Spec => []MutualExclusion
<1>1. IInv => MutualExclusion
  BY DEF IInv, LockInv, MutualExclusion
<1>. QED
  BY <1>1, IInvAlways, PTL

(* The table names the socket made last for every thread, and a thread     *)
(* that asks is told so (common.c:572).                                    *)
THEOREM TableIsSound == Spec => []TableSound
<1>1. ASSUME IInv PROVE TableSound
  <2> SUFFICES ASSUME ~raced, ~reused
               PROVE  /\ table = {[id |-> t, socket |-> last[t]] : t \in {t \in Threads : last[t] # 0}}
                      /\ \A e \in table : openedBy[e.socket] = e.id
                      /\ \A t \in Threads :
                            pc[t] = "leave" /\ call[t].socket = 0 => result[t] = last[call[t].id]
    BY DEF TableSound
  <2>1. TypeOK /\ EntriesRight /\ \A t \in Threads : CallRight(t)
    BY <1>1 DEF IInv, TableInv
  <2>2. ASSUME NEW e \in table
        PROVE  e \in {[id |-> t, socket |-> last[t]] : t \in {t \in Threads : last[t] # 0}}
    <3>1. /\ e.id \in Threads /\ e.socket \in Handles
          /\ e = [id |-> e.id, socket |-> last[e.id]] /\ last[e.id] = e.socket
      BY <2>1, OfTable
    <3>2. last[e.id] # 0
      BY <3>1, HandlesAssumption
    <3>. QED
      BY <3>1, <3>2
  <2>3. ASSUME NEW t \in Threads, last[t] # 0
        PROVE  [id |-> t, socket |-> last[t]] \in table
    <3>1. PICK h \in Handles : last[t] = h
      BY <2>1, <2>3 DEF TypeOK
    <3>. QED
      BY <2>1, <3>1, InTable
  <2>4. table = {[id |-> t, socket |-> last[t]] : t \in {t \in Threads : last[t] # 0}}
    BY <2>2, <2>3
  <2>5. \A e \in table : openedBy[e.socket] = e.id
    BY <2>1 DEF EntriesRight
  <2>6. \A t \in Threads :
           pc[t] = "leave" /\ call[t].socket = 0 => result[t] = last[call[t].id]
    BY <2>1 DEF CallRight
  <2>. QED
    BY <2>4, <2>5, <2>6
<1>. QED
  BY <1>1, IInvAlways, PTL

(* What OnlyItsOwn says of one step.                                       *)
OnlyItsOwnStep ==
    \A h \in Handles :
        ~raced /\ ~reused /\ openedBy[h] # 0 /\ openedBy'[h] # openedBy[h] =>
            \E t \in Threads : pc[t] = "act" /\ openedBy[h] \in {t, call[t].id}

(* Nobody closes another thread's socket unless it breaks that thread's    *)
(* connection off (common.c:597, common.c:609).                            *)
THEOREM ClosesOnlyItsOwn == Spec => OnlyItsOwn
<1>1. IInv /\ [Next]_vars => OnlyItsOwnStep
  <2> SUFFICES ASSUME IInv, [Next]_vars, NEW h \in Handles, ~raced, ~reused,
                      openedBy[h] # 0, openedBy'[h] # openedBy[h]
               PROVE  \E t \in Threads : pc[t] = "act" /\ openedBy[h] \in {t, call[t].id}
    BY DEF OnlyItsOwnStep
  <2>1. Undisturbed
    BY DEF IInv, TableInv, Undisturbed
  <2>2. ASSUME NEW t \in Threads, Connect(t) PROVE FALSE
    <3>1. PICK g \in Handles : openedBy[g] = 0 /\ openedBy' = [openedBy EXCEPT ![g] = t]
      BY <2>2 DEF Connect
    <3>. QED
      BY <3>1, <2>1 DEF Undisturbed, TypeOK
  <2>3. ASSUME NEW t \in Threads, CloseEntry(t) \/ CloseBare(t)
        PROVE  pc[t] = "act" /\ openedBy[h] \in {t, call[t].id}
    BY <2>1, <2>3, KeptCloseEntry, KeptCloseBare DEF CloseEntry, CloseBare, Acting
  <2>4. ASSUME NEW t \in Threads, Step(t), ~Connect(t), ~CloseEntry(t), ~CloseBare(t) PROVE FALSE
    BY <2>4 DEF Step, Body, Act, Close, Cancel, Ask, LockTest, LockCreate, LockInitialise, Enter,
                Find, ReadEntry, ReplaceEntry, AppendEntry, Recorded, ReadNothing, Leave, tableVars
  <2>5. ~UNCHANGED vars
    BY DEF vars, tableVars
  <2>. QED
    BY <2>2, <2>3, <2>4, <2>5 DEF Next
<1>2. IInv /\ [Next]_vars => [OnlyItsOwnStep]_vars
  BY <1>1
<1>. QED
  BY <1>2, IInvAlways, PTL DEF Spec, OnlyItsOwn, OnlyItsOwnStep
=============================================================================
