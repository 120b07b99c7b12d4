--------------------------- MODULE SessionsProofs ---------------------------
(***************************************************************************)
(* Proofs about Sessions, for any number of connections, threads and       *)
(* objects, and whatever objects exec() is called with.                    *)
(***************************************************************************)
EXTENDS Sessions, TLAPS

\* Where a thread is tells which of its variables are set: a registered connection
\* drives an object, a line has a user, a call stack has an oldest frame, and who
\* is about to remove or call a handler has one in its copy.
PlaceInv ==
  /\ \A c \in Conns :
       /\ pc[c] # "idle" => obj[c] # None
       /\ pc[c] \notin {"idle", "waiting", "next"} => user[c] # None
       /\ pc[c] \in {"removing", "call"} => todo[c] # <<>>
       /\ pc[c] = "removing" => set[c] # None
  /\ \A t \in Threads : pc[t] \in InLpc => top[t] # None
  /\ \A t \in Others : pc[t] \in {"idle", "call_out"}

\* What exec() has to copy and to take away, with what connect() may rely on.
LinkInv ==
  /\ Linked
  /\ OwnHandlers
  /\ \A o \in Objects : link[o] # None => link[o] \in had[o] /\ listens[o]

-----------------------------------------------------------------------------
(* Lookups *)

\* InputHandlerSet.remove leaves a list of handlers.
LEMMA WithoutType ==
  ASSUME NEW S, NEW s \in Seq(S), NEW h
  PROVE  Without(s, h) \in Seq(S)
<1>1. ASSUME NEW p \in 1..Len(s)
      PROVE  RemoveAt(s, p) \in Seq(S)
  BY <1>1 DEF RemoveAt
<1> QED
  BY <1>1 DEF Without

\* getInputHandlers returns the handlers of a connection or throws.
LEMMA HandlerSetType ==
  ASSUME TypeOK, NEW o \in Objects
  PROVE  /\ User(o) \in Objects \cup {None}
         /\ HandlerSet(o) \in Conns \cup {None}
BY SessionsAssumption DEF TypeOK, User, HandlerSet

-----------------------------------------------------------------------------
(* Types *)

\* Every variable keeps its type, and no lookup is ever made for a null user, an
\* empty call stack or a connection without an object.
THEOREM TypeCorrect == Spec => [](TypeOK /\ PlaceInv)
<1> USE SessionsAssumption
<1>1. Init => TypeOK /\ PlaceInv
  BY DEF Init, TypeOK, PlaceInv, Threads, InLpc
<1>2. TypeOK /\ PlaceInv /\ [Next]_vars => TypeOK'
  <2> SUFFICES ASSUME TypeOK, PlaceInv, [Next]_vars PROVE TypeOK'
    OBVIOUS
  <2>1. ASSUME NEW c \in Conns, NEW o \in Objects, Connect(c, o) PROVE TypeOK'
    BY <2>1 DEF Connect, TypeOK, PlaceInv, Threads, InLpc, attributes, bodies, context, callbacks
  <2>2. ASSUME NEW c \in Conns, Refuse(c) PROVE TypeOK'
    BY <2>2 DEF Refuse, TypeOK, PlaceInv, Threads, InLpc, attributes, bodies, context, callbacks
  <2>3. ASSUME NEW c \in Conns, Logon(c) PROVE TypeOK'
    BY <2>3 DEF Logon, Enter, TypeOK, PlaceInv, Threads, InLpc, attributes, bodies, context, callbacks
  <2>4. ASSUME NEW c \in Conns, LogonEnds(c) PROVE TypeOK'
    BY <2>4 DEF LogonEnds, Leave, TypeOK, PlaceInv, Threads, InLpc, attributes, bodies, context, callbacks
  <2>5. ASSUME NEW c \in Conns, Input(c) PROVE TypeOK'
    BY <2>5 DEF Input, TypeOK, PlaceInv, Threads, InLpc, attributes, bodies, context, callbacks
  <2>5r. ASSUME NEW c \in Conns, ReadFails(c) PROVE TypeOK'
    BY <2>5r DEF ReadFails, TypeOK, PlaceInv, Threads, InLpc, attributes, bodies, context, callbacks
  <2>6. ASSUME NEW c \in Conns, Line(c) PROVE TypeOK'
    BY <2>6 DEF Line, TypeOK, PlaceInv, Threads, InLpc, attributes, bodies, context, callbacks
  <2>7. ASSUME NEW c \in Conns, NoMoreLines(c) PROVE TypeOK'
    BY <2>7 DEF NoMoreLines, TypeOK, PlaceInv, Threads, InLpc, attributes, bodies, context, callbacks
  <2>8. ASSUME NEW c \in Conns, NoHandlers(c) PROVE TypeOK'
    BY <2>8 DEF NoHandlers, TypeOK, PlaceInv, Threads, InLpc, attributes, bodies, context, callbacks
  <2>9. ASSUME NEW c \in Conns, StartClone(c) PROVE TypeOK'
    <3>1. user[c] \in Objects
      BY <2>9 DEF StartClone, TypeOK, PlaceInv, Threads
    <3>2. HandlerSet(user[c]) \in Conns
      BY <3>1, <2>9, HandlerSetType DEF StartClone
    <3> QED
      BY <3>2, <2>9 DEF StartClone, TypeOK, Threads, InLpc, attributes, bodies, callbacks
  <2>10. ASSUME NEW c \in Conns, EndClone(c) PROVE TypeOK'
    BY <2>10 DEF EndClone, TypeOK, PlaceInv, Threads, InLpc, attributes, bodies, context, callbacks
  <2>11. ASSUME NEW c \in Conns, PassOn(c) PROVE TypeOK'
    <3>1. Tail(todo[c]) \in Seq(1..MaxCallbacks)
      BY <2>11 DEF PassOn, TypeOK, Threads
    <3> QED
      BY <3>1, <2>11 DEF PassOn, TypeOK, attributes, bodies, callbacks
  <2>12. ASSUME NEW c \in Conns, StartRemove(c) PROVE TypeOK'
    <3>1. user[c] \in Objects
      BY <2>12 DEF StartRemove, TypeOK, PlaceInv, Threads
    <3>2. HandlerSet(user[c]) \in Conns
      BY <3>1, <2>12, HandlerSetType DEF StartRemove
    <3> QED
      BY <3>2, <2>12 DEF StartRemove, TypeOK, Threads, InLpc, attributes, bodies, callbacks
  <2>13. ASSUME NEW c \in Conns, EndRemove(c) PROVE TypeOK'
    <3>1. set[c] \in Conns /\ todo[c] # <<>>
      BY <2>13 DEF EndRemove, TypeOK, PlaceInv, Threads
    <3>2. Without(input[set[c]], Head(todo[c])) \in Seq(1..MaxCallbacks)
      BY <3>1, WithoutType DEF TypeOK
    <3> QED
      BY <3>1, <3>2, <2>13 DEF EndRemove, TypeOK, Threads, InLpc, attributes, bodies
  <2>14. ASSUME NEW c \in Conns, Callback(c) PROVE TypeOK'
    <3>1. todo[c] \in Seq(1..MaxCallbacks) /\ todo[c] # <<>> /\ user[c] \in Objects
      BY <2>14 DEF Callback, Enter, TypeOK, PlaceInv, Threads
    <3> DEFINE s == todo[c]
    <3>2. Tail(s) \in Seq(1..MaxCallbacks) /\ Head(s) \in 1..MaxCallbacks
      <4>1. s \in Seq(1..MaxCallbacks) /\ s # <<>>
        BY <3>1
      <4> HIDE DEF s
      <4> QED
        BY <4>1
    <3>3. todo' \in [Threads -> Seq(1..MaxCallbacks)]
      BY <3>2, <2>14 DEF Callback, TypeOK
    <3>4. ran' \in [1..MaxCallbacks -> 0..2]
      BY <3>2, <2>14 DEF Callback, TypeOK
    <3> QED
      BY <3>1, <3>3, <3>4, <2>14 DEF Callback, Enter, TypeOK, Threads, InLpc, attributes, bodies
  <2>15. ASSUME NEW c \in Conns, CallbackEnds(c) PROVE TypeOK'
    BY <2>15 DEF CallbackEnds, Leave, TypeOK, PlaceInv, Threads, InLpc, attributes, bodies, context, callbacks
  <2>16. ASSUME NEW c \in Conns, CallbackFails(c) PROVE TypeOK'
    BY <2>16 DEF CallbackFails, Leave, TypeOK, PlaceInv, Threads, InLpc, attributes, bodies, context, callbacks
  <2>17. ASSUME NEW c \in Conns, Process(c) PROVE TypeOK'
    BY <2>17 DEF Process, Enter, TypeOK, PlaceInv, Threads, InLpc, attributes, bodies, context, callbacks
  <2>18. ASSUME NEW c \in Conns, ProcessNothing(c) PROVE TypeOK'
    BY <2>18 DEF ProcessNothing, TypeOK, PlaceInv, Threads, InLpc, attributes, bodies, context, callbacks
  <2>19. ASSUME NEW c \in Conns, ProcessEnds(c) PROVE TypeOK'
    BY <2>19 DEF ProcessEnds, Leave, TypeOK, PlaceInv, Threads, InLpc, attributes, bodies, context, callbacks
  <2>20. ASSUME NEW t \in Others, NEW o \in Objects, CallOut(t, o) PROVE TypeOK'
    BY <2>20 DEF CallOut, Enter, TypeOK, PlaceInv, Threads, InLpc, attributes, bodies, context, callbacks
  <2>21. ASSUME NEW t \in Others, CallOutEnds(t) PROVE TypeOK'
    BY <2>21 DEF CallOutEnds, Leave, TypeOK, PlaceInv, Threads, InLpc, attributes, bodies, context, callbacks
  <2>22. ASSUME NEW t \in Threads, AskPlayer(t) PROVE TypeOK'
    BY <2>22 DEF AskPlayer, Remember, TypeOK, PlaceInv, Threads, InLpc, attributes, bodies, context, callbacks
  <2>23. ASSUME NEW t \in Threads, InputTo(t) PROVE TypeOK'
    <3> DEFINE s == HandlerSet(ThisPlayer(t))
    <3>1. top[t] \in Objects /\ player[t] \in Objects \cup {None}
      BY <2>23 DEF InputTo, TypeOK, PlaceInv
    <3>2. ThisPlayer(t) \in Objects
      BY <3>1, <2>23, HandlerSetType DEF InputTo, ThisPlayer
    <3>3. s \in Conns
      BY <3>2, <2>23, HandlerSetType DEF InputTo
    <3>4. Len(home) + 1 \in 1..MaxCallbacks
      BY <2>23 DEF InputTo, TypeOK
    <3>5. <<Len(home) + 1>> \o input[s] \in Seq(1..MaxCallbacks)
      BY <3>3, <3>4 DEF TypeOK
    <3>6. input' \in [Conns -> Seq(1..MaxCallbacks)]
      BY <3>3, <3>5, <2>23 DEF InputTo, TypeOK
    <3>7. home' \in Seq(Conns) /\ Len(home') <= MaxCallbacks
      BY <3>3, <3>4, <2>23 DEF InputTo, TypeOK
    <3>8. raced' \subseteq Conns
      BY <3>3, <2>23 DEF InputTo, TypeOK
    <3>9. player' \in [Threads -> Objects \cup {None}]
      BY <3>1, <2>23 DEF InputTo, Remember, TypeOK
    <3> QED
      BY <3>6, <3>7, <3>8, <3>9, <2>23 DEF InputTo, TypeOK, attributes, bodies
  <2>24. ASSUME NEW t \in Threads, NEW o \in Objects, Destruct(t, o) PROVE TypeOK'
    BY <2>24 DEF Destruct, TypeOK, PlaceInv, Threads, InLpc, attributes, bodies, context, callbacks
  <2>25. ASSUME NEW t \in Threads, NEW o \in Objects, NEW c \in Conns, Exec(t, c, o) PROVE TypeOK'
    <3>1. obj[c] \in Objects
      BY <2>25 DEF Exec, TypeOK
    <3>2. listens' \in [Objects -> BOOLEAN]
      BY <3>1, <2>25 DEF Exec, CopyListener, TypeOK
    <3>3. handlers' \in [Objects -> Conns \cup {None}]
      BY <3>1, <2>25 DEF Exec, CopyHandlers, TypeOK
    <3>4. switch' \in [Objects -> Objects \cup {None}]
      <4>1. switch \in [Objects -> Objects \cup {None}]
        BY DEF TypeOK
      <4>2. switch' = CopySwitch(obj[c], o)
        BY <2>25 DEF Exec
      <4> QED
        BY <3>1, <4>1, <4>2 DEF CopySwitch
    <3>5. link' \in [Objects -> Conns \cup {None}]
      <4>1. link \in [Objects -> Conns \cup {None}]
        BY DEF TypeOK
      <4>2. link' = MoveLink(obj[c], o)
        BY <2>25 DEF Exec
      <4> QED
        BY <3>1, <4>1, <4>2 DEF MoveLink
    <3>6. obj' \in [Conns -> Objects \cup {None}] /\ had' \in [Objects -> SUBSET Conns]
      BY <2>25 DEF Exec, TypeOK
    <3> QED
      BY <3>2, <3>3, <3>4, <3>5, <3>6, <2>25 DEF Exec, TypeOK, context, callbacks
  <2>26. CASE UNCHANGED vars
    BY <2>26 DEF TypeOK, PlaceInv, Threads, InLpc, vars, attributes, bodies, context, callbacks
  <2> QED
    BY <2>1, <2>2, <2>3, <2>4, <2>5, <2>5r, <2>6, <2>7, <2>8, <2>9, <2>10, <2>11, <2>12, <2>13, <2>14, <2>15, <2>16, <2>17, <2>18, <2>19, <2>20, <2>21, <2>22, <2>23, <2>24, <2>25, <2>26 DEF Next, ConnNext, LpcNext
<1>3. TypeOK /\ PlaceInv /\ [Next]_vars => PlaceInv'
  <2> SUFFICES ASSUME TypeOK, PlaceInv, [Next]_vars PROVE PlaceInv'
    OBVIOUS
  <2>1. ASSUME NEW c \in Conns, NEW o \in Objects, Connect(c, o) PROVE PlaceInv'
    BY <2>1 DEF Connect, TypeOK, PlaceInv, Threads, InLpc, attributes, bodies, context, callbacks
  <2>2. ASSUME NEW c \in Conns, Refuse(c) PROVE PlaceInv'
    BY <2>2 DEF Refuse, TypeOK, PlaceInv, Threads, InLpc, attributes, bodies, context, callbacks
  <2>3. ASSUME NEW c \in Conns, Logon(c) PROVE PlaceInv'
    BY <2>3 DEF Logon, Enter, TypeOK, PlaceInv, Threads, InLpc, attributes, bodies, context, callbacks
  <2>4. ASSUME NEW c \in Conns, LogonEnds(c) PROVE PlaceInv'
    BY <2>4 DEF LogonEnds, Leave, TypeOK, PlaceInv, Threads, InLpc, attributes, bodies, context, callbacks
  <2>5. ASSUME NEW c \in Conns, Input(c) PROVE PlaceInv'
    BY <2>5 DEF Input, TypeOK, PlaceInv, Threads, InLpc, attributes, bodies, context, callbacks
  <2>5r. ASSUME NEW c \in Conns, ReadFails(c) PROVE PlaceInv'
    BY <2>5r DEF ReadFails, TypeOK, PlaceInv, Threads, InLpc, attributes, bodies, context, callbacks
  <2>6. ASSUME NEW c \in Conns, Line(c) PROVE PlaceInv'
    BY <2>6 DEF Line, TypeOK, PlaceInv, Threads, InLpc, attributes, bodies, context, callbacks
  <2>7. ASSUME NEW c \in Conns, NoMoreLines(c) PROVE PlaceInv'
    BY <2>7 DEF NoMoreLines, TypeOK, PlaceInv, Threads, InLpc, attributes, bodies, context, callbacks
  <2>8. ASSUME NEW c \in Conns, NoHandlers(c) PROVE PlaceInv'
    BY <2>8 DEF NoHandlers, TypeOK, PlaceInv, Threads, InLpc, attributes, bodies, context, callbacks
  <2>9. ASSUME NEW c \in Conns, StartClone(c) PROVE PlaceInv'
    BY <2>9 DEF StartClone, TypeOK, PlaceInv, Threads, InLpc, attributes, bodies, context, callbacks
  <2>10. ASSUME NEW c \in Conns, EndClone(c) PROVE PlaceInv'
    BY <2>10 DEF EndClone, TypeOK, PlaceInv, Threads, InLpc, attributes, bodies, context, callbacks
  <2>11. ASSUME NEW c \in Conns, PassOn(c) PROVE PlaceInv'
    BY <2>11 DEF PassOn, TypeOK, PlaceInv, Threads, InLpc, attributes, bodies, context, callbacks
  <2>12. ASSUME NEW c \in Conns, StartRemove(c) PROVE PlaceInv'
    BY <2>12 DEF StartRemove, TypeOK, PlaceInv, Threads, InLpc, attributes, bodies, context, callbacks
  <2>13. ASSUME NEW c \in Conns, EndRemove(c) PROVE PlaceInv'
    BY <2>13 DEF EndRemove, TypeOK, PlaceInv, Threads, InLpc, attributes, bodies, context, callbacks
  <2>14. ASSUME NEW c \in Conns, Callback(c) PROVE PlaceInv'
    BY <2>14 DEF Callback, Enter, TypeOK, PlaceInv, Threads, InLpc, attributes, bodies, context, callbacks
  <2>15. ASSUME NEW c \in Conns, CallbackEnds(c) PROVE PlaceInv'
    BY <2>15 DEF CallbackEnds, Leave, TypeOK, PlaceInv, Threads, InLpc, attributes, bodies, context, callbacks
  <2>16. ASSUME NEW c \in Conns, CallbackFails(c) PROVE PlaceInv'
    BY <2>16 DEF CallbackFails, Leave, TypeOK, PlaceInv, Threads, InLpc, attributes, bodies, context, callbacks
  <2>17. ASSUME NEW c \in Conns, Process(c) PROVE PlaceInv'
    BY <2>17 DEF Process, Enter, TypeOK, PlaceInv, Threads, InLpc, attributes, bodies, context, callbacks
  <2>18. ASSUME NEW c \in Conns, ProcessNothing(c) PROVE PlaceInv'
    BY <2>18 DEF ProcessNothing, TypeOK, PlaceInv, Threads, InLpc, attributes, bodies, context, callbacks
  <2>19. ASSUME NEW c \in Conns, ProcessEnds(c) PROVE PlaceInv'
    BY <2>19 DEF ProcessEnds, Leave, TypeOK, PlaceInv, Threads, InLpc, attributes, bodies, context, callbacks
  <2>20. ASSUME NEW t \in Others, NEW o \in Objects, CallOut(t, o) PROVE PlaceInv'
    BY <2>20 DEF CallOut, Enter, TypeOK, PlaceInv, Threads, InLpc, attributes, bodies, context, callbacks
  <2>21. ASSUME NEW t \in Others, CallOutEnds(t) PROVE PlaceInv'
    BY <2>21 DEF CallOutEnds, Leave, TypeOK, PlaceInv, Threads, InLpc, attributes, bodies, context, callbacks
  <2>22. ASSUME NEW t \in Threads, AskPlayer(t) PROVE PlaceInv'
    BY <2>22 DEF AskPlayer, Remember, TypeOK, PlaceInv, Threads, InLpc, attributes, bodies, context, callbacks
  <2>23. ASSUME NEW t \in Threads, InputTo(t) PROVE PlaceInv'
    BY <2>23 DEF InputTo, Remember, TypeOK, PlaceInv, Threads, InLpc, attributes, bodies, context, callbacks
  <2>24. ASSUME NEW t \in Threads, NEW o \in Objects, Destruct(t, o) PROVE PlaceInv'
    BY <2>24 DEF Destruct, TypeOK, PlaceInv, Threads, InLpc, attributes, bodies, context, callbacks
  <2>25. ASSUME NEW t \in Threads, NEW o \in Objects, NEW c \in Conns, Exec(t, c, o) PROVE PlaceInv'
    BY <2>25 DEF Exec, CopyListener, CopyHandlers, CopySwitch, MoveLink, TypeOK, PlaceInv, Threads, InLpc, attributes, bodies, context, callbacks
  <2>26. CASE UNCHANGED vars
    BY <2>26 DEF TypeOK, PlaceInv, Threads, InLpc, vars, attributes, bodies, context, callbacks
  <2> QED
    BY <2>1, <2>2, <2>3, <2>4, <2>5, <2>5r, <2>6, <2>7, <2>8, <2>9, <2>10, <2>11, <2>12, <2>13, <2>14, <2>15, <2>16, <2>17, <2>18, <2>19, <2>20, <2>21, <2>22, <2>23, <2>24, <2>25, <2>26 DEF Next, ConnNext, LpcNext
<1> QED
  BY <1>1, <1>2, <1>3, PTL DEF Spec

-----------------------------------------------------------------------------
(* Connections and users *)

\* A connection and its user stay linked with each other and with the connection's
\* handlers and listener through every connect(), exec() and destruct().
THEOREM LinksCorrect == Spec => []LinkInv
<1> USE SessionsAssumption
<1>1. Init => LinkInv
  BY DEF Init, LinkInv, Linked, OwnHandlers
<1>2. TypeOK /\ PlaceInv /\ LinkInv /\ [Next]_vars => LinkInv'
  <2> SUFFICES ASSUME TypeOK, PlaceInv, LinkInv, [Next]_vars PROVE LinkInv'
    OBVIOUS
  <2>1. ASSUME NEW c \in Conns, NEW o \in Objects, Connect(c, o) PROVE LinkInv'
    BY <2>1 DEF Connect, TypeOK, LinkInv, Linked, OwnHandlers, attributes, bodies, context, callbacks
  <2>2. ASSUME NEW c \in Conns, Refuse(c) PROVE LinkInv'
    BY <2>2 DEF Refuse, TypeOK, LinkInv, Linked, OwnHandlers, attributes, bodies, context, callbacks
  <2>3. ASSUME NEW c \in Conns, Logon(c) PROVE LinkInv'
    BY <2>3 DEF Logon, Enter, TypeOK, LinkInv, Linked, OwnHandlers, attributes, bodies, context, callbacks
  <2>4. ASSUME NEW c \in Conns, LogonEnds(c) PROVE LinkInv'
    BY <2>4 DEF LogonEnds, Leave, TypeOK, LinkInv, Linked, OwnHandlers, attributes, bodies, context, callbacks
  <2>5. ASSUME NEW c \in Conns, Input(c) PROVE LinkInv'
    BY <2>5 DEF Input, TypeOK, LinkInv, Linked, OwnHandlers, attributes, bodies, context, callbacks
  <2>5r. ASSUME NEW c \in Conns, ReadFails(c) PROVE LinkInv'
    BY <2>5r DEF ReadFails, TypeOK, LinkInv, Linked, OwnHandlers, attributes, bodies, context, callbacks
  <2>6. ASSUME NEW c \in Conns, Line(c) PROVE LinkInv'
    BY <2>6 DEF Line, TypeOK, LinkInv, Linked, OwnHandlers, attributes, bodies, context, callbacks
  <2>7. ASSUME NEW c \in Conns, NoMoreLines(c) PROVE LinkInv'
    BY <2>7 DEF NoMoreLines, TypeOK, LinkInv, Linked, OwnHandlers, attributes, bodies, context, callbacks
  <2>8. ASSUME NEW c \in Conns, NoHandlers(c) PROVE LinkInv'
    BY <2>8 DEF NoHandlers, TypeOK, LinkInv, Linked, OwnHandlers, attributes, bodies, context, callbacks
  <2>9. ASSUME NEW c \in Conns, StartClone(c) PROVE LinkInv'
    BY <2>9 DEF StartClone, TypeOK, LinkInv, Linked, OwnHandlers, attributes, bodies, context, callbacks
  <2>10. ASSUME NEW c \in Conns, EndClone(c) PROVE LinkInv'
    BY <2>10 DEF EndClone, TypeOK, LinkInv, Linked, OwnHandlers, attributes, bodies, context, callbacks
  <2>11. ASSUME NEW c \in Conns, PassOn(c) PROVE LinkInv'
    BY <2>11 DEF PassOn, TypeOK, LinkInv, Linked, OwnHandlers, attributes, bodies, context, callbacks
  <2>12. ASSUME NEW c \in Conns, StartRemove(c) PROVE LinkInv'
    BY <2>12 DEF StartRemove, TypeOK, LinkInv, Linked, OwnHandlers, attributes, bodies, context, callbacks
  <2>13. ASSUME NEW c \in Conns, EndRemove(c) PROVE LinkInv'
    BY <2>13 DEF EndRemove, TypeOK, LinkInv, Linked, OwnHandlers, attributes, bodies, context, callbacks
  <2>14. ASSUME NEW c \in Conns, Callback(c) PROVE LinkInv'
    BY <2>14 DEF Callback, Enter, TypeOK, LinkInv, Linked, OwnHandlers, attributes, bodies, context, callbacks
  <2>15. ASSUME NEW c \in Conns, CallbackEnds(c) PROVE LinkInv'
    BY <2>15 DEF CallbackEnds, Leave, TypeOK, LinkInv, Linked, OwnHandlers, attributes, bodies, context, callbacks
  <2>16. ASSUME NEW c \in Conns, CallbackFails(c) PROVE LinkInv'
    BY <2>16 DEF CallbackFails, Leave, TypeOK, LinkInv, Linked, OwnHandlers, attributes, bodies, context, callbacks
  <2>17. ASSUME NEW c \in Conns, Process(c) PROVE LinkInv'
    BY <2>17 DEF Process, Enter, TypeOK, LinkInv, Linked, OwnHandlers, attributes, bodies, context, callbacks
  <2>18. ASSUME NEW c \in Conns, ProcessNothing(c) PROVE LinkInv'
    BY <2>18 DEF ProcessNothing, TypeOK, LinkInv, Linked, OwnHandlers, attributes, bodies, context, callbacks
  <2>19. ASSUME NEW c \in Conns, ProcessEnds(c) PROVE LinkInv'
    BY <2>19 DEF ProcessEnds, Leave, TypeOK, LinkInv, Linked, OwnHandlers, attributes, bodies, context, callbacks
  <2>20. ASSUME NEW t \in Others, NEW o \in Objects, CallOut(t, o) PROVE LinkInv'
    BY <2>20 DEF CallOut, Enter, TypeOK, LinkInv, Linked, OwnHandlers, attributes, bodies, context, callbacks
  <2>21. ASSUME NEW t \in Others, CallOutEnds(t) PROVE LinkInv'
    BY <2>21 DEF CallOutEnds, Leave, TypeOK, LinkInv, Linked, OwnHandlers, attributes, bodies, context, callbacks
  <2>22. ASSUME NEW t \in Threads, AskPlayer(t) PROVE LinkInv'
    BY <2>22 DEF AskPlayer, Remember, TypeOK, LinkInv, Linked, OwnHandlers, attributes, bodies, context, callbacks
  <2>23. ASSUME NEW t \in Threads, InputTo(t) PROVE LinkInv'
    BY <2>23 DEF InputTo, Remember, TypeOK, LinkInv, Linked, OwnHandlers, attributes, bodies, context, callbacks
  <2>24. ASSUME NEW t \in Threads, NEW o \in Objects, Destruct(t, o) PROVE LinkInv'
    BY <2>24 DEF Destruct, TypeOK, LinkInv, Linked, OwnHandlers, attributes, bodies, context, callbacks
  <2>25. ASSUME NEW t \in Threads, NEW o \in Objects, NEW c \in Conns, Exec(t, c, o) PROVE LinkInv'
    <3> DEFINE old == obj[c]
    <3>1. /\ old \in Objects /\ old # o /\ link[old] = c /\ link[o] = None
          /\ handlers[old] = c /\ listens[old] /\ c # None
      BY <2>25 DEF Exec, TypeOK, LinkInv, OwnHandlers
    <3>2. link' = [link EXCEPT ![o] = c, ![old] = None]
      BY <3>1, <2>25 DEF Exec, MoveLink
    <3>3. obj' = [obj EXCEPT ![c] = o] /\ destructed' = destructed
      BY <2>25 DEF Exec
    <3>4. handlers' = [handlers EXCEPT ![o] = c]
      BY <3>1, <2>25 DEF Exec, CopyHandlers
    <3>5. listens' = [listens EXCEPT ![o] = TRUE]
      BY <3>1, <2>25 DEF Exec, CopyListener, TypeOK
    <3>6. had' = [had EXCEPT ![o] = @ \cup {c}]
      BY <2>25 DEF Exec
    <3>7. Linked'
      BY <3>1, <3>2, <3>3 DEF TypeOK, LinkInv, Linked
    <3>8. OwnHandlers'
      BY <3>1, <3>2, <3>4 DEF TypeOK, LinkInv, OwnHandlers
    <3>9. \A p \in Objects : link'[p] # None => link'[p] \in had'[p] /\ listens'[p]
      BY <3>1, <3>2, <3>5, <3>6 DEF TypeOK, LinkInv
    <3> QED
      BY <3>7, <3>8, <3>9 DEF LinkInv
  <2>26. CASE UNCHANGED vars
    BY <2>26 DEF TypeOK, LinkInv, Linked, OwnHandlers, vars, attributes, bodies, context, callbacks
  <2> QED
    BY <2>1, <2>2, <2>3, <2>4, <2>5, <2>5r, <2>6, <2>7, <2>8, <2>9, <2>10, <2>11, <2>12, <2>13, <2>14, <2>15, <2>16, <2>17, <2>18, <2>19, <2>20, <2>21, <2>22, <2>23, <2>24, <2>25, <2>26 DEF Next, ConnNext, LpcNext
<1> QED
  BY <1>1, <1>2, TypeCorrect, PTL DEF Spec

\* No connection has two users and no user two connections.
THEOREM AlwaysLinked == Spec => []Linked
BY LinksCorrect, PTL DEF LinkInv

\* Whoever has a connection has that connection's handlers.
THEOREM AlwaysOwnHandlers == Spec => []OwnHandlers
BY LinksCorrect, PTL DEF LinkInv

-----------------------------------------------------------------------------
(* Closing *)

\* A connection closes in the step that destructs its user.  Otherwise only its own failing
\* read closes it, while no object changes.
THEOREM UserCloses == Spec => ClosesWithUser
<1> USE SessionsAssumption
<1> DEFINE Gone(c) == ~destructed[obj[c]] /\ destructed'[obj[c]]
<1>1. TypeOK /\ LinkInv /\ [Next]_vars
        => [\A c \in Conns : open[c] /\ obj[c] # None =>
              /\ Gone(c) => ~open'[c]
              /\ ~open'[c] => Gone(c) \/ (pc[c] = "waiting" /\ UNCHANGED bodies)]_vars
  <2> SUFFICES ASSUME TypeOK, LinkInv, Next, NEW c \in Conns, open[c], obj[c] # None
               PROVE  /\ Gone(c) => ~open'[c]
                      /\ ~open'[c] => Gone(c) \/ (pc[c] = "waiting" /\ UNCHANGED bodies)
    OBVIOUS
  <2>1. CASE UNCHANGED <<open, destructed>>
    BY <2>1
  <2>2. CASE \E t \in Threads, o \in Objects : Destruct(t, o)
    <3> PICK t \in Threads, o \in Objects : Destruct(t, o)
      BY <2>2
    <3>1. obj[c] \in Objects /\ (o = obj[c] => ~destructed[o])
      BY DEF Destruct, TypeOK
    <3>2. link[o] # None => link[o] \in Conns /\ obj[link[o]] = o /\ listens[o]
      BY DEF TypeOK, LinkInv, Linked
    <3>3. link[obj[c]] = c \/ destructed[obj[c]]
      BY DEF LinkInv, Linked
    <3>4. CASE o = obj[c]
      BY <3>1, <3>2, <3>3, <3>4 DEF Destruct, TypeOK
    <3>5. CASE o # obj[c]
      BY <3>1, <3>2, <3>5 DEF Destruct, TypeOK
    <3> QED
      BY <3>4, <3>5
  <2>3. CASE \E d \in Conns : ReadFails(d)
    BY <2>3 DEF ReadFails, TypeOK, bodies
  <2>4. CASE \E d \in Conns : Refuse(d)
    BY <2>4 DEF Refuse, TypeOK, bodies
  <2> QED
    BY <2>1, <2>2, <2>3, <2>4 DEF Next, ConnNext, LpcNext, Connect, Logon, LogonEnds, Input, Line,
       NoMoreLines, NoHandlers, StartClone, EndClone, PassOn, StartRemove, EndRemove, Callback,
       CallbackEnds, CallbackFails, Process, ProcessNothing, ProcessEnds, CallOut, CallOutEnds,
       AskPlayer, InputTo, Exec, Enter, Leave, bodies, attributes
<1> QED
  BY <1>1, TypeCorrect, LinksCorrect, PTL DEF Spec, ClosesWithUser

-----------------------------------------------------------------------------
(* The callbacks of input_to, for any number of callbacks, if exec() is    *)
(* called for objects that have had no other connection.                   *)

\* An object belongs to one connection for ever, and so do the attributes by which the
\* handlers of a line are looked up; a thread uses its own connection's handlers only.
OwnerInv ==
  /\ \A o \in Objects : \A c, d \in had[o] : c = d
  /\ \A c \in Conns : obj[c] # None => c \in had[obj[c]]
  /\ \A o \in Objects : handlers[o] # None => handlers[o] \in had[o]
  /\ \A o \in Objects : switch[o] # None => \E c \in had[o] : c \in had[switch[o]]
  /\ \A c \in Conns : user[c] # None => c \in had[user[c]]
  /\ \A c \in Conns : set[c] # None => set[c] = c

\* The callback that thread c has taken out and not yet called.
Taken(c, h) == pc[c] = "call" /\ Head(todo[c]) = h

\* Callback h is that of a handler in the list s.
In(s, h) == \E i \in 1..Len(s) : s[i] = h

Distinct(s) == \A i, j \in 1..Len(s) : s[i] = s[j] => i = j

\* The handlers of a connection were installed for it and have not run; a thread's copy
\* holds those and, until it is called, the one that it has taken.
ListOK(c) ==
  /\ Distinct(input[c]) /\ Distinct(todo[c])
  /\ \A h \in 1..MaxCallbacks : In(input[c], h) =>
       h <= Len(home) /\ home[h] = c /\ ran[h] = 0 /\ ~Taken(c, h)
  /\ \A h \in 1..MaxCallbacks : In(todo[c], h) => In(input[c], h) \/ Taken(c, h)
  /\ \A h \in 1..MaxCallbacks : Taken(c, h) => h <= Len(home) /\ home[h] = c /\ ran[h] = 0

ListInv == \A c \in Conns : ListOK(c)

\* No callback has run twice, and none is lost that has not run.
RanOK(h) ==
  /\ ran[h] <= 1
  /\ h > Len(home) => ran[h] = 0
  /\ h <= Len(home) => ran[h] > 0 \/ In(input[home[h]], h) \/ Taken(home[h], h)

RanInv == \A h \in 1..MaxCallbacks : RanOK(h)

CInv == OwnerInv /\ ListInv /\ RanInv

-----------------------------------------------------------------------------
(* Lists of handlers *)

\* The first handler is taken from a copy.
LEMMA TailIs ==
  ASSUME NEW S, NEW s \in Seq(S), s # <<>>
  PROVE  /\ Tail(s) \in Seq(S) /\ Head(s) \in S
         /\ \A h : In(s, h) <=> h = Head(s) \/ In(Tail(s), h)
         /\ Distinct(s) => Distinct(Tail(s)) /\ ~In(Tail(s), Head(s))
<1>1. /\ Tail(s) \in Seq(S) /\ Head(s) \in S /\ Head(s) = s[1]
      /\ Len(s) \in Nat \ {0} /\ Len(Tail(s)) = Len(s) - 1
      /\ \A i \in 1..(Len(s) - 1) : Tail(s)[i] = s[i + 1]
  OBVIOUS
<1>2. ASSUME NEW h PROVE In(s, h) <=> h = Head(s) \/ In(Tail(s), h)
  <2>1. ASSUME NEW i \in 1..Len(s), s[i] = h PROVE h = Head(s) \/ In(Tail(s), h)
    <3>1. CASE i = 1
      BY <1>1, <2>1, <3>1
    <3>2. CASE i # 1
      <4>1. i - 1 \in 1..Len(Tail(s)) /\ Tail(s)[i - 1] = h
        BY <1>1, <2>1, <3>2
      <4> QED
        BY <4>1 DEF In
    <3> QED
      BY <3>1, <3>2
  <2>2. ASSUME NEW i \in 1..Len(Tail(s)), Tail(s)[i] = h PROVE In(s, h)
    <3>1. i + 1 \in 1..Len(s) /\ s[i + 1] = h
      BY <1>1, <2>2
    <3> QED
      BY <3>1 DEF In
  <2>3. h = Head(s) => In(s, h)
    <3>1. 1 \in 1..Len(s)
      BY <1>1
    <3> QED
      BY <1>1, <3>1 DEF In
  <2> QED
    BY <2>1, <2>2, <2>3 DEF In
<1>3. ASSUME Distinct(s) PROVE Distinct(Tail(s)) /\ ~In(Tail(s), Head(s))
  <2>1. \A i \in 1..Len(Tail(s)) : i + 1 \in 1..Len(s) /\ Tail(s)[i] = s[i + 1]
    BY <1>1
  <2>2. ASSUME NEW i \in 1..Len(Tail(s)), NEW j \in 1..Len(Tail(s)), Tail(s)[i] = Tail(s)[j]
        PROVE  i = j
    <3>1. i + 1 = j + 1
      BY <1>3, <2>1, <2>2 DEF Distinct
    <3> QED
      BY <1>1, <3>1
  <2>3. ASSUME NEW i \in 1..Len(Tail(s)), Tail(s)[i] = Head(s) PROVE FALSE
    <3>1. 1 \in 1..Len(s) /\ s[i + 1] = s[1]
      BY <1>1, <2>1, <2>3
    <3>2. i + 1 = 1
      BY <1>3, <2>1, <3>1 DEF Distinct
    <3> QED
      BY <1>1, <3>2
  <2> QED
    BY <2>2, <2>3 DEF Distinct, In
<1> QED
  BY <1>1, <1>2, <1>3

LEMMA ConcatIs ==
  ASSUME NEW S, NEW a \in Seq(S), NEW b \in Seq(S)
  PROVE  Len(a \o b) = Len(a) + Len(b)
OBVIOUS

\* InputHandlerSet.remove takes out just the handler that it is called for.
LEMMA WithoutIs ==
  ASSUME NEW S, NEW s \in Seq(S), Distinct(s), NEW h
  PROVE  /\ Distinct(Without(s, h))
         /\ \A g : In(Without(s, h), g) <=> In(s, g) /\ g # h
<1>1. CASE ~In(s, h)
  <2>1. Without(s, h) = s
    BY <1>1 DEF Without, In
  <2> QED
    BY <1>1, <2>1
<1>2. CASE In(s, h)
  <2>1. PICK p \in 1..Len(s) : s[p] = h /\ Without(s, h) = RemoveAt(s, p)
    BY <1>2 DEF In, Without
  <2> DEFINE n == Len(s)
             a == SubSeq(s, 1, p - 1)
             b == SubSeq(s, p + 1, n)
             r == Without(s, h)
  <2>2. n \in Nat /\ p \in 1..n
    OBVIOUS
  <2>3. /\ a \in Seq(S) /\ Len(a) = p - 1
        /\ \A k \in 1..(p - 1) : a[k] = s[k]
    BY <2>2
  <2>4. /\ b \in Seq(S) /\ Len(b) = n - p
        /\ \A k \in 1..(n - p) : b[k] = s[p + k]
    BY <2>2
  <2>5. r = a \o b
    BY <2>1 DEF RemoveAt
  <2> HIDE DEF a, b, n, r
  <2>6. /\ Len(r) = n - 1
        /\ \A k \in 1..(n - 1) : r[k] = IF k < p THEN s[k] ELSE s[k + 1]
    <3>1. Len(r) = n - 1
      <4>1. Len(r) = Len(a) + Len(b)
        BY <2>3, <2>4, <2>5, ConcatIs
      <4> QED
        BY <2>2, <2>3, <2>4, <4>1
    <3>2. ASSUME NEW k \in 1..(n - 1), k < p PROVE r[k] = s[k]
      BY <2>2, <2>3, <2>4, <2>5, <3>2
    <3>3. ASSUME NEW k \in 1..(n - 1), ~(k < p) PROVE r[k] = s[k + 1]
      <4>1. k - (p - 1) \in 1..(n - p) /\ r[k] = b[k - (p - 1)]
        BY <2>2, <2>3, <2>4, <2>5, <3>3
      <4>2. p + (k - (p - 1)) = k + 1
        BY <2>2
      <4> QED
        BY <2>4, <4>1, <4>2
    <3> QED
      BY <3>1, <3>2, <3>3
  <2> DEFINE Old(k) == IF k < p THEN k ELSE k + 1
  <2>7. \A k \in 1..(n - 1) : /\ Old(k) \in 1..n /\ Old(k) # p
                              /\ r[k] = s[Old(k)]
    BY <2>2, <2>6
  <2>8. \A k, j \in 1..(n - 1) : Old(k) = Old(j) => k = j
    BY <2>2
  <2>9. \A i \in 1..n : i # p => \E k \in 1..(n - 1) : Old(k) = i
    <3>1. ASSUME NEW i \in 1..n, i < p PROVE \E k \in 1..(n - 1) : Old(k) = i
      <4>1. i \in 1..(n - 1) /\ Old(i) = i
        BY <2>2, <3>1
      <4> QED
        BY <4>1
    <3>2. ASSUME NEW i \in 1..n, i > p PROVE \E k \in 1..(n - 1) : Old(k) = i
      <4>1. i - 1 \in 1..(n - 1) /\ Old(i - 1) = i
        BY <2>2, <3>2
      <4> QED
        BY <4>1
    <3>3. \A i \in 1..n : i # p => i < p \/ i > p
      BY <2>2
    <3> QED
      BY <3>1, <3>2, <3>3
  <2> HIDE DEF Old
  <2>10. Distinct(r)
    BY <2>6, <2>7, <2>8 DEF Distinct, n
  <2>11. ASSUME NEW g PROVE In(r, g) <=> In(s, g) /\ g # h
    <3>1. ASSUME NEW k \in 1..(n - 1), r[k] = g PROVE In(s, g) /\ g # h
      <4>1. s[Old(k)] = g /\ Old(k) \in 1..Len(s) /\ Old(k) # p
        BY <2>7, <3>1 DEF n
      <4> QED
        BY <2>1, <4>1 DEF Distinct, In
    <3>2. ASSUME NEW i \in 1..n, s[i] = g, g # h PROVE In(r, g)
      <4>1. i # p
        BY <2>1, <3>2
      <4>2. PICK k \in 1..(n - 1) : Old(k) = i
        BY <2>9, <4>1
      <4> QED
        BY <2>6, <2>7, <3>2, <4>2 DEF In
    <3> QED
      BY <2>6, <3>1, <3>2 DEF In, n
  <2> QED
    BY <2>10, <2>11 DEF r
<1> QED
  BY <1>1, <1>2

\* input_to's handler comes first.
LEMMA FirstIs ==
  ASSUME NEW S, NEW s \in Seq(S), NEW e \in S
  PROVE  /\ \A h : In(<<e>> \o s, h) <=> h = e \/ In(s, h)
         /\ Distinct(s) /\ ~In(s, e) => Distinct(<<e>> \o s)
<1> DEFINE r == <<e>> \o s
<1>1. /\ r \in Seq(S) /\ Len(r) = Len(s) + 1 /\ Len(s) \in Nat
      /\ r[1] = e
      /\ \A i \in 1..Len(s) : r[i + 1] = s[i]
  OBVIOUS
<1> HIDE DEF r
<1>2. ASSUME NEW i \in 1..Len(r), i # 1 PROVE i - 1 \in 1..Len(s) /\ r[i] = s[i - 1]
  <2>1. i - 1 \in 1..Len(s) /\ (i - 1) + 1 = i
    BY <1>1, <1>2
  <2> QED
    BY <1>1, <2>1
<1>3. ASSUME NEW h PROVE In(r, h) <=> h = e \/ In(s, h)
  <2>1. 1 \in 1..Len(r) /\ \A i \in 1..Len(s) : i + 1 \in 1..Len(r)
    BY <1>1
  <2> QED
    BY ZenonT(30), <1>1, <1>2, <2>1 DEF In
<1>4. ASSUME Distinct(s), ~In(s, e) PROVE Distinct(r)
  <2>1. ASSUME NEW i \in 1..Len(r), NEW j \in 1..Len(r), r[i] = r[j] PROVE i = j
    <3>1. CASE i = 1 /\ j = 1
      BY <3>1
    <3>2. CASE i = 1 /\ j # 1
      BY <1>1, <1>2, <1>4, <2>1, <3>2 DEF In
    <3>3. CASE i # 1 /\ j = 1
      BY <1>1, <1>2, <1>4, <2>1, <3>3 DEF In
    <3>4. CASE i # 1 /\ j # 1
      <4>1. i - 1 = j - 1
        BY <1>2, <1>4, <2>1, <3>4 DEF Distinct
      <4> QED
        BY <1>1, <4>1
    <3> QED
      BY <3>1, <3>2, <3>3, <3>4
  <2> QED
    BY <2>1 DEF Distinct
<1> QED
  BY <1>3, <1>4 DEF r

-----------------------------------------------------------------------------
(* Whose handlers a lookup finds *)

\* getInputHandlers finds those of the only connection that the object has had.
LEMMA OwnSet ==
  ASSUME TypeOK, OwnerInv, NEW o \in Objects, NEW c \in had[o], HandlerSet(o) # None
  PROVE  HandlerSet(o) = c
<1>1. CASE link[o] # None
  <2>1. HandlerSet(o) = handlers[o] /\ handlers[o] # None
    BY <1>1, SessionsAssumption DEF HandlerSet, User
  <2> QED
    BY <2>1 DEF OwnerInv
<1>2. CASE link[o] = None
  <2>1. /\ switch[o] # None /\ switch[o] \in Objects
        /\ HandlerSet(o) = handlers[switch[o]] /\ handlers[switch[o]] # None
    BY <1>2 DEF HandlerSet, User, TypeOK
  <2>2. PICK d \in had[o] : d \in had[switch[o]]
    BY <2>1 DEF OwnerInv
  <2>3. d = c /\ handlers[switch[o]] = d
    BY <2>1, <2>2 DEF OwnerInv
  <2> QED
    BY <2>1, <2>3
<1> QED
  BY <1>1, <1>2

\* A step that leaves the attributes alone, and looks up what it looks up correctly.
LEMMA OwnerKept ==
  ASSUME TypeOK, OwnerInv, UNCHANGED <<obj, had, handlers, switch>>,
         \A c \in Conns : user'[c] \in {None, user[c], obj[c]},
         \A c \in Conns : set'[c] \in {None, set[c], c}
  PROVE  OwnerInv'
BY DEF OwnerInv

LEMMA OwnerNext ==
  ASSUME SharedBodies = FALSE, TypeOK, PlaceInv, OwnerInv, [Next]_vars
  PROVE  OwnerInv'
<1> USE SessionsAssumption
<1>1. ASSUME NEW c \in Conns, NEW o \in Objects, Connect(c, o) PROVE OwnerInv'
  <2>1. /\ had' = [had EXCEPT ![o] = {c}] /\ obj' = [obj EXCEPT ![c] = o]
        /\ user' = [user EXCEPT ![c] = o] /\ handlers' = [handlers EXCEPT ![o] = c]
        /\ UNCHANGED <<switch, set>> /\ had[o] = {}
    BY <1>1 DEF Connect
  <2>2. \A p \in Objects : had[p] \subseteq had'[p]
    BY <2>1 DEF TypeOK
  <2>3. \A p \in Objects : \A d, e \in had'[p] : d = e
    BY <2>1 DEF OwnerInv, TypeOK
  <2>4. \A d \in Conns : obj'[d] # None => d \in had'[obj'[d]]
    BY <2>1, <2>2 DEF OwnerInv, TypeOK
  <2>5. \A d \in Conns : user'[d] # None => d \in had'[user'[d]]
    BY <2>1, <2>2 DEF OwnerInv, TypeOK, Threads
  <2>6. \A p \in Objects : handlers'[p] # None => handlers'[p] \in had'[p]
    BY <2>1, <2>2 DEF OwnerInv, TypeOK
  <2>7. ASSUME NEW p \in Objects, switch'[p] # None
        PROVE  \E d \in had'[p] : d \in had'[switch'[p]]
    <3>1. switch'[p] = switch[p] /\ switch[p] \in Objects
      BY <2>1, <2>7 DEF TypeOK
    <3>2. PICK d \in had[p] : d \in had[switch[p]]
      BY <2>7, <3>1 DEF OwnerInv
    <3> QED
      BY <2>2, <3>1, <3>2
  <2> QED
    BY <2>1, <2>3, <2>4, <2>5, <2>6, <2>7 DEF OwnerInv
<1>2. ASSUME NEW t \in Threads, NEW c \in Conns, NEW to \in Objects, Exec(t, c, to)
      PROVE  OwnerInv'
  <2> DEFINE old == obj[c]
  <2>1. /\ old \in Objects /\ old # to /\ c \in had[old]
        /\ had[to] \subseteq {c}
    BY <1>2 DEF Exec, OwnerInv, TypeOK
  <2>2. /\ had' = [had EXCEPT ![to] = {c}]
        /\ obj' = [obj EXCEPT ![c] = to]
        /\ UNCHANGED <<user, set>>
    BY <1>2, <2>1 DEF Exec, TypeOK, context
  <2>3. \A d \in had[old] : d = c
    BY <2>1 DEF OwnerInv
  <2>4. ASSUME NEW o \in Objects, handlers'[o] # None PROVE handlers'[o] \in had'[o]
    BY <1>2, <2>1, <2>2, <2>3, <2>4 DEF Exec, CopyHandlers, OwnerInv, TypeOK
  <2>5. ASSUME NEW o \in Objects, switch'[o] # None
        PROVE  \E d \in had'[o] : d \in had'[switch'[o]]
    <3>1. \A p \in Objects : had[p] \subseteq had'[p]
      BY <2>1, <2>2 DEF TypeOK
    <3>2. CASE o = old
      <4>1. switch'[o] = to
        BY <1>2, <2>1, <3>2 DEF Exec, CopySwitch, TypeOK
      <4>2. c \in had'[o] /\ c \in had'[to]
        BY <2>1, <2>2, <3>1, <3>2 DEF TypeOK
      <4> QED
        BY <4>1, <4>2
    <3>3. CASE o = to /\ switch[old] # None
      <4>1. switch'[o] = switch[old] /\ switch[old] \in Objects
        BY <1>2, <2>1, <3>3 DEF Exec, CopySwitch, TypeOK
      <4>2. PICK d \in had[old] : d \in had[switch[old]]
        BY <2>1, <3>3 DEF OwnerInv
      <4>3. c \in had[switch[old]]
        BY <2>3, <4>2
      <4>4. c \in had'[o] /\ c \in had'[switch[old]]
        BY <2>2, <3>1, <3>3, <4>1, <4>3 DEF TypeOK
      <4> QED
        BY <4>1, <4>4
    <3>4. CASE o # old /\ ~(o = to /\ switch[old] # None)
      <4>1. switch'[o] = switch[o] /\ switch[o] \in Objects
        BY <1>2, <2>1, <2>5, <3>4 DEF Exec, CopySwitch, TypeOK
      <4>2. PICK d \in had[o] : d \in had[switch[o]]
        BY <2>5, <4>1 DEF OwnerInv
      <4>3. d \in had'[o] /\ d \in had'[switch[o]]
        BY <3>1, <4>1, <4>2
      <4> QED
        BY <4>1, <4>3
    <3> QED
      BY <3>2, <3>3, <3>4
  <2>6. \A o \in Objects : \A d, e \in had'[o] : d = e
    BY <2>2 DEF OwnerInv, TypeOK
  <2>7. \A d \in Conns : obj'[d] # None => d \in had'[obj'[d]]
    BY <2>1, <2>2 DEF OwnerInv, TypeOK
  <2>8. \A d \in Conns : user'[d] # None => d \in had'[user'[d]]
    BY <2>1, <2>2 DEF OwnerInv, TypeOK
  <2>9. \A d \in Conns : set'[d] # None => set'[d] = d
    BY <2>2 DEF OwnerInv
  <2> QED
    BY <2>4, <2>5, <2>6, <2>7, <2>8, <2>9 DEF OwnerInv
<1>3. ASSUME NEW t \in Threads, NEW o \in Objects, Destruct(t, o) PROVE OwnerInv'
  BY <1>3 DEF Destruct, OwnerInv, TypeOK, context
<1>4. ASSUME NEW c \in Conns,
             \/ Refuse(c) \/ Logon(c) \/ LogonEnds(c) \/ Input(c) \/ ReadFails(c) \/ Line(c) \/ NoMoreLines(c)
             \/ NoHandlers(c) \/ EndClone(c) \/ PassOn(c) \/ EndRemove(c) \/ Callback(c)
             \/ CallbackEnds(c) \/ CallbackFails(c) \/ Process(c) \/ ProcessNothing(c)
             \/ ProcessEnds(c)
      PROVE  OwnerInv'
  <2>1. /\ UNCHANGED <<obj, had, handlers, switch>>
        /\ \A d \in Conns : user'[d] \in {None, user[d], obj[d]}
        /\ \A d \in Conns : set'[d] \in {None, set[d], d}
    BY <1>4 DEF Refuse, Logon, LogonEnds, Input, ReadFails, Line, NoMoreLines, NoHandlers, EndClone,
      PassOn, EndRemove, Callback, CallbackEnds, CallbackFails, Process, ProcessNothing,
      ProcessEnds, Enter, Leave, bodies, attributes, context, TypeOK, Threads
  <2> QED
    BY <2>1, OwnerKept
<1>5. ASSUME NEW c \in Conns, StartClone(c) \/ StartRemove(c) PROVE OwnerInv'
  <2>1. user[c] \in Objects /\ c \in had[user[c]] /\ HandlerSet(user[c]) # None
    <3>1. pc[c] \in {"line", "handling"} /\ HandlerSet(user[c]) # None
      BY <1>5 DEF StartClone, StartRemove
    <3>2. user[c] # None
      BY <3>1 DEF PlaceInv
    <3> QED
      BY <3>1, <3>2 DEF OwnerInv, TypeOK, Threads
  <2>2. HandlerSet(user[c]) = c
    BY <2>1, OwnSet
  <2>3. /\ UNCHANGED <<obj, had, handlers, switch>>
        /\ \A d \in Conns : user'[d] \in {None, user[d], obj[d]}
        /\ \A d \in Conns : set'[d] \in {None, set[d], d}
    BY <1>5, <2>2 DEF StartClone, StartRemove, bodies, attributes, TypeOK, Threads
  <2> QED
    BY <2>3, OwnerKept
<1>6. ASSUME NEW t \in Threads,
             \/ AskPlayer(t) \/ InputTo(t) \/ CallOutEnds(t)
             \/ \E o \in Objects : CallOut(t, o)
             \/ UNCHANGED vars
      PROVE  OwnerInv'
  <2>1. /\ UNCHANGED <<obj, had, handlers, switch>>
        /\ UNCHANGED <<user, set>>
    BY <1>6 DEF AskPlayer, InputTo, CallOutEnds, CallOut, Enter, Leave, bodies, attributes,
      context, vars
  <2> QED
    BY <2>1, OwnerKept
<1>7. ASSUME UNCHANGED vars PROVE OwnerInv'
  BY <1>7, OwnerKept DEF vars, bodies, attributes, context
<1> QED
  BY <1>1, <1>2, <1>3, <1>4, <1>5, <1>6, <1>7 DEF Next, ConnNext, LpcNext, Threads

-----------------------------------------------------------------------------
(* What becomes of a callback *)

\* A thread that has one handler left to call or to remove took it from its copy.
LEMMA HeadType ==
  ASSUME TypeOK, NEW c \in Conns, todo[c] # <<>>
  PROVE  /\ Head(todo[c]) \in 1..MaxCallbacks
         /\ Tail(todo[c]) \in Seq(1..MaxCallbacks)
         /\ todo[c] \in Seq(1..MaxCallbacks)
<1>1. todo[c] \in Seq(1..MaxCallbacks)
  BY DEF TypeOK, Threads
<1> QED
  BY <1>1, TailIs

\* A step that neither installs, takes out nor calls a callback.
LEMMA ListsKept ==
  ASSUME ListInv, RanInv, TypeOK, UNCHANGED <<input, home, ran>>,
         \A c \in Conns : todo'[c] = todo[c],
         \A c \in Conns : pc'[c] = "call" <=> pc[c] = "call"
  PROVE  ListInv' /\ RanInv'
<1>1. \A c \in Conns : \A h : Taken(c, h)' <=> Taken(c, h)
  BY DEF Taken
<1>2. \A h \in 1..MaxCallbacks : h <= Len(home) => home[h] \in Conns
  BY DEF TypeOK
<1>3. ListInv'
  BY <1>1 DEF ListInv, ListOK
<1>4. RanInv'
  BY <1>1, <1>2 DEF RanInv, RanOK
<1> QED
  BY <1>3, <1>4

\* The thread's copy of the handlers is made...
LEMMA StartCloneLists ==
  ASSUME TypeOK, ListInv, RanInv, NEW c \in Conns, StartClone(c), HandlerSet(user[c]) = c
  PROVE  ListInv' /\ RanInv'
<1>1. /\ UNCHANGED <<input, home, ran>> /\ pc[c] = "line" /\ pc'[c] = "cloning"
      /\ \A d \in Conns : d # c => todo'[d] = todo[d] /\ pc'[d] = pc[d]
      /\ todo'[c] = input[c]
  BY DEF StartClone, TypeOK, Threads, callbacks
<1>2. \A d \in Conns : \A h : Taken(d, h)' <=> Taken(d, h)
  BY <1>1 DEF Taken
<1>3. \A h \in 1..MaxCallbacks : h <= Len(home) => home[h] \in Conns
  BY DEF TypeOK
<1>4. ASSUME NEW d \in Conns PROVE ListOK(d)'
  BY <1>1, <1>2 DEF ListInv, ListOK
<1>5. RanInv'
  BY <1>1, <1>2, <1>3 DEF RanInv, RanOK
<1> QED
  BY <1>4, <1>5 DEF ListInv

\* ...and loses handlers, without calling them.
LEMMA CopyShrinks ==
  ASSUME TypeOK, ListInv, RanInv, NEW c \in Conns, UNCHANGED <<input, home, ran>>,
         pc[c] # "call", pc'[c] # "call", Distinct(todo'[c]),
         \A h \in 1..MaxCallbacks : In(todo'[c], h) => In(todo[c], h),
         \A d \in Conns : d # c => todo'[d] = todo[d] /\ pc'[d] = pc[d]
  PROVE  ListInv' /\ RanInv'
<1>1. \A d \in Conns : \A h : Taken(d, h)' <=> Taken(d, h)
  BY DEF Taken
<1>2. \A h \in 1..MaxCallbacks : h <= Len(home) => home[h] \in Conns
  BY DEF TypeOK
<1>3. ASSUME NEW d \in Conns PROVE ListOK(d)'
  <2>1. CASE d = c
    BY <1>1, <2>1 DEF ListInv, ListOK
  <2>2. CASE d # c
    BY <1>1, <2>2 DEF ListInv, ListOK
  <2> QED
    BY <2>1, <2>2
<1>4. RanInv'
  BY <1>1, <1>2 DEF RanInv, RanOK
<1> QED
  BY <1>3, <1>4 DEF ListInv

\* A handler leaves the set when its thread has taken it for the line.
LEMMA EndRemoveLists ==
  ASSUME TypeOK, PlaceInv, ListInv, RanInv, NEW c \in Conns, EndRemove(c), set[c] = c
  PROVE  ListInv' /\ RanInv'
<1> DEFINE g == Head(todo[c])
<1>1. /\ pc[c] = "removing" /\ todo[c] # <<>> /\ UNCHANGED <<todo, home, ran>>
      /\ pc'[c] = "call" /\ \A d \in Conns : d # c => pc'[d] = pc[d] /\ input'[d] = input[d]
      /\ input'[c] = Without(input[c], g)
  BY DEF EndRemove, PlaceInv, TypeOK, Threads
<1>2. /\ g \in 1..MaxCallbacks /\ In(todo[c], g)
  BY <1>1, HeadType, TailIs
<1>3. /\ input[c] \in Seq(1..MaxCallbacks) /\ Distinct(input[c])
  BY DEF TypeOK, ListInv, ListOK
<1>4. /\ Distinct(input'[c])
      /\ \A h : In(input'[c], h) <=> In(input[c], h) /\ h # g
  BY <1>1, <1>3, WithoutIs
<1>5. /\ \A h : Taken(c, h)' <=> h = g
      /\ \A h : ~Taken(c, h)
      /\ \A d \in Conns : d # c => \A h : Taken(d, h)' <=> Taken(d, h)
  BY <1>1 DEF Taken
<1>6. In(input[c], g) /\ g <= Len(home) /\ home[g] = c /\ ran[g] = 0
  BY <1>2, <1>5 DEF ListInv, ListOK
<1>7. \A h \in 1..MaxCallbacks : h <= Len(home) => home[h] \in Conns
  BY DEF TypeOK
<1>8. ASSUME NEW d \in Conns PROVE ListOK(d)'
  <2>1. CASE d = c
    <3>1. ListOK(c)
      BY DEF ListInv
    <3> QED
      BY <1>1, <1>4, <1>5, <1>6, <2>1, <3>1 DEF ListOK
  <2>2. CASE d # c
    <3>1. ListOK(d)
      BY DEF ListInv
    <3> QED
      BY <1>1, <1>5, <2>2, <3>1 DEF ListOK
  <2> QED
    BY <2>1, <2>2
<1>9. ASSUME NEW h \in 1..MaxCallbacks PROVE RanOK(h)'
  BY <1>1, <1>4, <1>5, <1>7 DEF RanInv, RanOK
<1> QED
  BY <1>8, <1>9 DEF ListInv, RanInv

\* The callback that was taken out is called: no list has it any more.
LEMMA CallbackLists ==
  ASSUME TypeOK, PlaceInv, ListInv, RanInv, NEW c \in Conns, Callback(c)
  PROVE  ListInv' /\ RanInv'
<1> DEFINE g == Head(todo[c])
<1>1. /\ pc[c] = "call" /\ todo[c] # <<>> /\ UNCHANGED <<input, home>>
      /\ pc'[c] = "callback" /\ todo'[c] = Tail(todo[c])
      /\ \A d \in Conns : d # c => pc'[d] = pc[d] /\ todo'[d] = todo[d]
  BY DEF Callback, Enter, PlaceInv, TypeOK, Threads
<1>2. /\ g \in 1..MaxCallbacks /\ Taken(c, g)
      /\ \A h : In(todo[c], h) <=> h = g \/ In(todo'[c], h)
      /\ Distinct(todo[c]) => Distinct(todo'[c]) /\ ~In(todo'[c], g)
  BY <1>1, HeadType, TailIs DEF Taken
<1>3. g <= Len(home) /\ home[g] = c /\ ran[g] = 0
  BY <1>2 DEF ListInv, ListOK
<1>4. /\ ran'[g] = 1
      /\ \A h \in 1..MaxCallbacks : h # g => ran'[h] = ran[h]
  BY <1>2, <1>3 DEF Callback, TypeOK
<1>5. /\ \A h : ~Taken(c, h)'
      /\ \A h : Taken(c, h) <=> h = g
      /\ \A d \in Conns : d # c => \A h : Taken(d, h)' <=> Taken(d, h)
  BY <1>1 DEF Taken
<1>6. \A h \in 1..MaxCallbacks : h <= Len(home) => home[h] \in Conns
  BY DEF TypeOK
<1>7. ASSUME NEW d \in Conns PROVE ListOK(d)'
  <2>1. CASE d = c
    <3>1. ListOK(c)
      BY DEF ListInv
    <3> QED
      BY <1>1, <1>2, <1>4, <1>5, <2>1, <3>1 DEF ListOK
  <2>2. CASE d # c
    <3>1. ListOK(d)
      BY DEF ListInv
    <3> QED
      BY <1>1, <1>3, <1>4, <1>5, <2>2, <3>1 DEF ListOK
  <2> QED
    BY <2>1, <2>2
<1>8. ASSUME NEW h \in 1..MaxCallbacks PROVE RanOK(h)'
  <2>1. CASE h = g
    BY <1>1, <1>3, <1>4, <2>1 DEF RanOK, TypeOK
  <2>2. CASE h # g
    <3>1. RanOK(h)
      BY DEF RanInv
    <3> QED
      BY <1>1, <1>4, <1>5, <1>6, <2>2, <3>1 DEF RanOK
  <2> QED
    BY <2>1, <2>2
<1> QED
  BY <1>7, <1>8 DEF ListInv, RanInv

\* input_to() installs a callback that is in no list yet.
LEMMA InputToLists ==
  ASSUME TypeOK, PlaceInv, ListInv, RanInv, NEW t \in Threads, InputTo(t)
  PROVE  ListInv' /\ RanInv'
<1> DEFINE s == HandlerSet(ThisPlayer(t))
           n == Len(home) + 1
<1>1. /\ s # None /\ ThisPlayer(t) # None /\ Len(home) < MaxCallbacks
      /\ input' = [input EXCEPT ![s] = <<n>> \o @] /\ home' = Append(home, s)
      /\ UNCHANGED <<pc, todo, ran>>
  BY DEF InputTo
<1>2. ThisPlayer(t) \in Objects
  <2>1. top[t] \in Objects
    BY DEF InputTo, PlaceInv, TypeOK
  <2>2. \A o \in Objects : User(o) \in Objects \cup {None}
    BY HandlerSetType
  <2>3. player[t] # None => player[t] \in Objects
    BY DEF TypeOK
  <2> QED
    BY <1>1, <2>1, <2>2, <2>3 DEF ThisPlayer
<1>3. s \in Conns
  BY <1>1, <1>2, HandlerSetType
<1> HIDE DEF s
<1>4. Len(home) \in Nat /\ home \in Seq(Conns) /\ MaxCallbacks \in Nat
  BY SessionsAssumption DEF TypeOK
<1>5. n \in 1..MaxCallbacks /\ n \notin 1..Len(home) /\ ~(n <= Len(home))
  BY <1>1, <1>4
<1>6. /\ Len(home') = n /\ home'[n] = s
      /\ \A h \in 1..Len(home) : home'[h] = home[h] /\ home[h] \in Conns
  BY <1>1, <1>3, <1>4
<1>7. input[s] \in Seq(1..MaxCallbacks) /\ input'[s] = <<n>> \o input[s]
  BY <1>1, <1>3 DEF TypeOK
<1>8. \A d \in Conns : ~In(input[d], n) /\ ~Taken(d, n)
  BY <1>5 DEF ListInv, ListOK
<1>9. ran[n] = 0
  BY <1>4, <1>5 DEF RanInv, RanOK
<1>10. /\ \A h : In(input'[s], h) <=> h = n \/ In(input[s], h)
       /\ Distinct(input'[s])
  <2>1. Distinct(input[s])
    BY <1>3 DEF ListInv, ListOK
  <2>2. \A q \in Seq(1..MaxCallbacks) :
          /\ \A h : In(<<n>> \o q, h) <=> h = n \/ In(q, h)
          /\ Distinct(q) /\ ~In(q, n) => Distinct(<<n>> \o q)
    BY <1>5, FirstIs
  <2> QED
    BY <1>3, <1>7, <1>8, <2>1, <2>2
<1>11. /\ \A d \in Conns : \A h : Taken(d, h)' <=> Taken(d, h)
       /\ \A d \in Conns : d # s => input'[d] = input[d]
  BY <1>1 DEF Taken, TypeOK
<1>12. \A h \in 1..MaxCallbacks : h <= Len(home) => h <= Len(home') /\ home'[h] = home[h]
  BY <1>4, <1>6
<1> HIDE DEF n
<1>13. ASSUME NEW d \in Conns PROVE ListOK(d)'
  <2>1. ListOK(d)
    BY DEF ListInv
  <2>2. CASE d = s
    <3>1. n <= Len(home') /\ home'[n] = s /\ ~Taken(s, n)
      BY <1>4, <1>6, <1>8, <2>2 DEF n
    <3> QED
      BY <1>1, <1>9, <1>10, <1>11, <1>12, <2>1, <2>2, <3>1 DEF ListOK
  <2>3. CASE d # s
    BY <1>1, <1>11, <1>12, <2>1, <2>3 DEF ListOK
  <2> QED
    BY <2>2, <2>3
<1>14. ASSUME NEW h \in 1..MaxCallbacks PROVE RanOK(h)'
  <2>1. RanOK(h)
    BY DEF RanInv
  <2>2. CASE h = n
    <3>1. Len(home') = h /\ home'[h] = s /\ ran'[h] = 0 /\ In(input'[s], h)
      BY <1>1, <1>6, <1>9, <1>10, <2>2
    <3> QED
      BY <2>2, <3>1 DEF RanOK
  <2>3. CASE h # n /\ h <= Len(home)
    <3>1. home[h] \in Conns /\ home'[h] = home[h] /\ h <= Len(home')
      BY <1>4, <1>6, <1>12, <2>3
    <3>2. ran[h] <= 1 /\ (ran[h] > 0 \/ In(input[home[h]], h) \/ Taken(home[h], h))
      BY <2>1, <2>3 DEF RanOK
    <3>3. In(input[home[h]], h) => In(input'[home[h]], h)
      BY <1>10, <1>11, <3>1
    <3>4. ~(h > Len(home'))
      BY <1>4, <1>6, <2>3 DEF n
    <3> QED
      BY <1>1, <1>11, <3>1, <3>2, <3>3, <3>4 DEF RanOK
  <2>4. CASE h # n /\ ~(h <= Len(home))
    <3>1. ran[h] = 0 /\ ~(h <= Len(home'))
      BY <1>4, <1>6, <2>1, <2>4 DEF RanOK, n
    <3> QED
      BY <1>1, <3>1 DEF RanOK
  <2> QED
    BY <2>2, <2>3, <2>4
<1> QED
  BY <1>13, <1>14 DEF ListInv, RanInv

LEMMA ListsNext ==
  ASSUME TypeOK, PlaceInv, OwnerInv, ListInv, RanInv, [Next]_vars
  PROVE  ListInv' /\ RanInv'
<1>1. ASSUME NEW c \in Conns,
             \/ Refuse(c) \/ Logon(c) \/ LogonEnds(c) \/ Input(c) \/ ReadFails(c) \/ Line(c) \/ NoMoreLines(c)
             \/ NoHandlers(c) \/ EndClone(c) \/ StartRemove(c)
             \/ CallbackFails(c) \/ Process(c) \/ ProcessNothing(c) \/ ProcessEnds(c)
             \/ \E o \in Objects : Connect(c, o)
      PROVE  ListInv' /\ RanInv'
  <2>1. /\ UNCHANGED <<input, home, ran>>
        /\ \A d \in Conns : todo'[d] = todo[d]
        /\ \A d \in Conns : pc'[d] = "call" <=> pc[d] = "call"
    BY <1>1 DEF Refuse, Logon, LogonEnds, Input, ReadFails, Line, NoMoreLines, NoHandlers, EndClone,
      StartRemove, CallbackFails, Process, ProcessNothing, ProcessEnds, Connect,
      Enter, Leave, callbacks, context, TypeOK, Threads
  <2> QED
    BY <2>1, ListsKept
<1>2. ASSUME NEW t \in Threads,
             \/ AskPlayer(t)
             \/ \E o \in Objects : Destruct(t, o) \/ \E c \in Conns : Exec(t, c, o)
      PROVE  ListInv' /\ RanInv'
  <2>1. UNCHANGED <<input, home, ran>> /\ UNCHANGED <<todo, pc>>
    BY <1>2 DEF AskPlayer, Destruct, Exec, callbacks, context
  <2> QED
    BY <2>1, ListsKept
<1>3. ASSUME NEW t \in Others, CallOutEnds(t) \/ \E o \in Objects : CallOut(t, o)
      PROVE  ListInv' /\ RanInv'
  <2>1. /\ UNCHANGED <<input, home, ran, todo>>
        /\ \A d \in Conns : pc'[d] = pc[d]
    BY <1>3, SessionsAssumption DEF CallOutEnds, CallOut, Enter, Leave, callbacks, TypeOK, Threads
  <2> QED
    BY <2>1, ListsKept
<1>4. ASSUME NEW c \in Conns, StartClone(c) PROVE ListInv' /\ RanInv'
  <2>1. user[c] \in Objects /\ c \in had[user[c]] /\ HandlerSet(user[c]) # None
    <3>1. pc[c] = "line" /\ HandlerSet(user[c]) # None
      BY <1>4 DEF StartClone
    <3>2. user[c] # None
      BY <3>1 DEF PlaceInv
    <3> QED
      BY <3>1, <3>2 DEF OwnerInv, TypeOK, Threads
  <2> QED
    BY <1>4, <2>1, OwnSet, StartCloneLists
<1>5. ASSUME NEW c \in Conns, PassOn(c) PROVE ListInv' /\ RanInv'
  <2>1. /\ pc[c] = "handling" /\ todo[c] # <<>> /\ UNCHANGED <<input, home, ran, pc>>
        /\ todo'[c] = Tail(todo[c]) /\ \A d \in Conns : d # c => todo'[d] = todo[d]
    BY <1>5 DEF PassOn, callbacks, TypeOK, Threads
  <2>2. Distinct(todo'[c]) /\ \A h : In(todo'[c], h) => In(todo[c], h)
    <3>1. Distinct(todo[c])
      BY DEF ListInv, ListOK
    <3> QED
      BY <2>1, <3>1, HeadType, TailIs
  <2> QED
    BY <2>1, <2>2, CopyShrinks
<1>6. ASSUME NEW c \in Conns, EndRemove(c) PROVE ListInv' /\ RanInv'
  <2>1. set[c] = c
    BY <1>6 DEF EndRemove, PlaceInv, OwnerInv
  <2> QED
    BY <1>6, <2>1, EndRemoveLists
<1>7. ASSUME NEW c \in Conns, Callback(c) PROVE ListInv' /\ RanInv'
  BY <1>7, CallbackLists
<1>8. ASSUME NEW c \in Conns, CallbackEnds(c) PROVE ListInv' /\ RanInv'
  <2>1. /\ pc[c] = "callback" /\ pc'[c] = "next" /\ UNCHANGED <<input, home, ran>>
        /\ todo'[c] = <<>>
        /\ \A d \in Conns : d # c => todo'[d] = todo[d] /\ pc'[d] = pc[d]
    BY <1>8 DEF CallbackEnds, Leave, callbacks, TypeOK, Threads
  <2>2. Distinct(todo'[c]) /\ \A h : ~In(todo'[c], h)
    BY <2>1 DEF Distinct, In
  <2> QED
    BY <2>1, <2>2, CopyShrinks
<1>9. ASSUME NEW t \in Threads, InputTo(t) PROVE ListInv' /\ RanInv'
  BY <1>9, InputToLists
<1>10. ASSUME UNCHANGED vars PROVE ListInv' /\ RanInv'
  BY <1>10, ListsKept DEF vars, callbacks, context
<1> QED
  BY <1>1, <1>2, <1>3, <1>4, <1>5, <1>6, <1>7, <1>8, <1>9, <1>10 DEF Next, ConnNext, LpcNext

-----------------------------------------------------------------------------
(* The theorems *)

LEMMA CallbacksInit == Init => CInv
<1> SUFFICES ASSUME Init PROVE CInv
  OBVIOUS
<1>1. OwnerInv
  BY SessionsAssumption DEF Init, OwnerInv, Threads
<1>2. /\ \A c \in Conns : input[c] = <<>> /\ todo[c] = <<>> /\ pc[c] = "idle"
      /\ home = <<>> /\ \A h \in 1..MaxCallbacks : ran[h] = 0
  BY DEF Init, Threads
<1>3. \A h : ~In(<<>>, h)
  BY DEF In
<1>4. Distinct(<<>>)
  BY DEF Distinct
<1>5. ListInv
  BY <1>2, <1>3, <1>4 DEF ListInv, ListOK, Taken
<1>6. RanInv
  BY <1>2 DEF RanInv, RanOK
<1> QED
  BY <1>1, <1>5, <1>6 DEF CInv

\* If exec() is called for objects that have had no other connection, every thread uses
\* its own connection's handlers, and each callback is in a list, taken, or has run once.
THEOREM CallbacksInvariant == ASSUME SharedBodies = FALSE PROVE Spec => []CInv
<1>1. TypeOK /\ PlaceInv /\ CInv /\ [Next]_vars => CInv'
  BY OwnerNext, ListsNext DEF CInv
<1> QED
  BY <1>1, CallbacksInit, TypeCorrect, PTL DEF Spec

\* A callback takes one line, whoever the line's user has become.
THEOREM RunsOnce == ASSUME SharedBodies = FALSE PROVE Spec => []CallbackOnce
<1>1. TypeOK /\ CInv => CallbackOnce
  <2> SUFFICES ASSUME TypeOK, CInv, NEW h \in 1..Len(home) PROVE ran[h] <= 1
    BY DEF CallbackOnce
  <2>1. h \in 1..MaxCallbacks
    BY SessionsAssumption DEF TypeOK
  <2> QED
    BY <2>1 DEF CInv, RanInv, RanOK
<1> QED
  BY <1>1, CallbacksInvariant, TypeCorrect, PTL

\* A callback that has taken no line is still among its connection's handlers.
THEOREM NoneForgotten == ASSUME SharedBodies = FALSE PROVE Spec => []CallbackWaits
<1>1. TypeOK /\ CInv => CallbackWaits
  <2> SUFFICES ASSUME TypeOK, CInv, NEW h \in 1..Len(home), ~(ran[h] > 0)
               PROVE  \/ h \in Range(input[home[h]])
                      \/ pc[home[h]] = "call" /\ Head(todo[home[h]]) = h
    BY DEF CallbackWaits
  <2>1. h \in 1..MaxCallbacks /\ h <= Len(home) /\ home[h] \in Conns
    BY SessionsAssumption DEF TypeOK
  <2>2. In(input[home[h]], h) \/ Taken(home[h], h)
    BY <2>1 DEF CInv, RanInv, RanOK
  <2>3. In(input[home[h]], h) => h \in Range(input[home[h]])
    BY <2>1 DEF In, Range, TypeOK
  <2> QED
    BY <2>2, <2>3 DEF Taken
<1> QED
  BY <1>1, CallbacksInvariant, TypeCorrect, PTL

-----------------------------------------------------------------------------

(* The game lock *)

\* The threads that run LPC code.
RunsLpc == {t \in Threads : pc[t] \in InLpc}

Lock == INSTANCE GameLock WITH running <- RunsLpc

\* Who runs LPC code has the game lock and the other way round.
GameInv == \A t \in Threads : pc[t] \in InLpc <=> game = {t}

LEMMA OwnerRuns == TypeOK /\ GameInv => RunsLpc = game
BY DEF TypeOK, GameInv, RunsLpc

LEMMA OwnerRunsNext == TypeOK' /\ GameInv' => RunsLpc' = game'
BY DEF TypeOK, GameInv, RunsLpc

\* What a step does to the game lock: nothing, or one thread takes it and enters
\* LPC code, or leaves that and gives it back.
Keeps == UNCHANGED game /\ \A t \in Threads : pc'[t] \in InLpc <=> pc[t] \in InLpc

Takes(t) ==
  /\ game = {} /\ game' = {t}
  /\ pc'[t] \in InLpc
  /\ \A u \in Threads \ {t} : pc'[u] = pc[u]

Frees(t) ==
  /\ game = {t} /\ game' = {}
  /\ pc'[t] \notin InLpc
  /\ \A u \in Threads \ {t} : pc'[u] = pc[u]

LEMMA LockSteps ==
  ASSUME TypeOK, GameInv, [Next]_vars
  PROVE  Keeps \/ \E t \in Threads : Takes(t) \/ Frees(t)
<1>1. ASSUME NEW t \in Threads, NEW o, NEW from, NEW to \in InLpc, Enter(t, o, from, to)
      PROVE  Takes(t)
  BY <1>1 DEF Enter, Takes, TypeOK
<1>2. ASSUME NEW t \in Threads, NEW from \in InLpc, NEW to, to \notin InLpc, Leave(t, from, to)
      PROVE  Frees(t)
  BY <1>2 DEF Leave, Frees, TypeOK, GameInv
<1>3. ASSUME NEW c \in Conns, Logon(c) \/ Callback(c) \/ Process(c) PROVE Takes(c)
  <2>1. c \in Threads /\ {"logon", "callback", "process"} \subseteq InLpc
    BY DEF Threads, InLpc
  <2>2. \E from, to : to \in InLpc /\ Enter(c, user[c], from, to)
    BY <1>3, <2>1 DEF Logon, Callback, Process
  <2> QED
    BY <1>1, <2>1, <2>2
<1>4. ASSUME NEW c \in Conns, LogonEnds(c) \/ CallbackEnds(c) \/ CallbackFails(c) \/ ProcessEnds(c)
      PROVE  Frees(c)
  <2>1. /\ c \in Threads /\ {"logon", "callback", "process"} \subseteq InLpc
        /\ "waiting" \notin InLpc /\ "next" \notin InLpc /\ "handling" \notin InLpc
    BY DEF Threads, InLpc
  <2>2. \E from, to : from \in InLpc /\ to \notin InLpc /\ Leave(c, from, to)
    BY <1>4, <2>1 DEF LogonEnds, CallbackEnds, CallbackFails, ProcessEnds
  <2> QED
    BY <1>2, <2>1, <2>2
<1>5. ASSUME NEW t \in Others, NEW o \in Objects, CallOut(t, o) PROVE Takes(t)
  BY <1>1, <1>5 DEF CallOut, InLpc, Threads
<1>6. ASSUME NEW t \in Others, CallOutEnds(t) PROVE Frees(t)
  BY <1>2, <1>6 DEF CallOutEnds, InLpc, Threads
<1>7. ASSUME NEW c \in Conns, NEW o \in Objects, Connect(c, o) PROVE Keeps
  BY <1>7 DEF Connect, Keeps, InLpc, TypeOK, Threads
<1>8. ASSUME NEW c \in Conns,
             \/ Refuse(c) \/ Input(c) \/ ReadFails(c) \/ Line(c) \/ NoMoreLines(c) \/ NoHandlers(c)
             \/ StartClone(c) \/ EndClone(c) \/ PassOn(c) \/ StartRemove(c) \/ EndRemove(c)
             \/ ProcessNothing(c)
      PROVE  Keeps
  BY <1>8 DEF Refuse, Input, ReadFails, Line, NoMoreLines, NoHandlers, StartClone, EndClone, PassOn,
    StartRemove, EndRemove, ProcessNothing, Keeps, InLpc, TypeOK, Threads
<1>9. ASSUME NEW t \in Threads, LpcNext(t) PROVE Keeps
  BY <1>9 DEF LpcNext, AskPlayer, InputTo, Destruct, Exec, Keeps
<1>10. CASE UNCHANGED vars
  BY <1>10 DEF vars, Keeps
<1> HIDE DEF Keeps, Takes, Frees
<1> QED
  BY <1>3, <1>4, <1>5, <1>6, <1>7, <1>8, <1>9, <1>10 DEF Next, ConnNext, Threads

THEOREM GameCorrect == Spec => []GameInv
<1>1. Init => GameInv
  BY DEF Init, GameInv, InLpc
<1>2. TypeOK /\ GameInv /\ [Next]_vars => GameInv'
  <2> SUFFICES ASSUME TypeOK, GameInv, [Next]_vars PROVE GameInv'
    OBVIOUS
  <2>1. CASE Keeps
    BY <2>1 DEF Keeps, GameInv
  <2>2. ASSUME NEW t \in Threads, Takes(t) PROVE GameInv'
    BY <2>2 DEF Takes, GameInv
  <2>3. ASSUME NEW t \in Threads, Frees(t) PROVE GameInv'
    BY <2>3 DEF Frees, GameInv
  <2> QED
    BY <2>1, <2>2, <2>3, LockSteps
<1> QED
  BY <1>1, <1>2, TypeCorrect, PTL DEF Spec

\* The threads of the connections and the call-out thread implement GameLock: logon(),
\* process_input(), callbacks of input_to and call-outs run one at a time.
THEOREM OneAtATime == Spec => Lock!Spec
<1>1. Init => Lock!Init
  BY DEF Init, Lock!Init, RunsLpc, InLpc
<1>2. (TypeOK /\ GameInv) /\ (TypeOK /\ GameInv)' /\ [Next]_vars => [Lock!Next]_RunsLpc
  <2> SUFFICES ASSUME TypeOK, GameInv, TypeOK', GameInv', [Next]_vars
               PROVE  Lock!Next \/ UNCHANGED RunsLpc
    OBVIOUS
  <2>1. RunsLpc = game /\ RunsLpc' = game'
    BY OwnerRuns, OwnerRunsNext
  <2> QED
    BY <2>1, LockSteps DEF Keeps, Takes, Frees, Lock!Next, Lock!Start, Lock!Stop
<1> QED
  BY <1>1, <1>2, TypeCorrect, GameCorrect, PTL DEF Spec, Lock!Spec

=============================================================================
