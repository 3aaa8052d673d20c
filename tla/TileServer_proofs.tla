------------------------- MODULE TileServer_proofs --------------------------
(***************************************************************************)
(* Proofs about TileServer for any number of connections and any size of   *)
(* the pool, with all handlers on one thread, on two or on three.          *)
(***************************************************************************)
EXTENDS TileServer, TLAPS, FiniteSetTheorems

(* The services that the server uses are services of the pool. *)
LEMMA ServiceFacts ==
  SignalService \in Services /\ AcceptService \in Services /\ SocketService \in Services
BY PoolSizeAssumption DEF SignalService, AcceptService, SocketService, Services

(* The places in a handler where it works on a connection. *)
Working == {"insert", "inserting", "start_read"} \cup ConnectionPcs

(* Each handler runs on its own service, and has a connection while it      *)
(* works on one.                                                            *)
PcsOK ==
  \A s \in Services :
    /\ pc[s] \in StopPcs => s = SignalService
    /\ pc[s] \in AcceptPcs => s = AcceptService
    /\ pc[s] \in ConnectionPcs => s = SocketService
    /\ IF pc[s] \in Working THEN conn[s] \in Conns ELSE conn[s] = NoConn

(* A connection that no handler has seen yet. *)
Fresh(c) == sock[c] = "none" \/ (accept_op = "ok" /\ accepted = c)

AcceptOK ==
  /\ accept_op = "ok" => accepted \in Conns /\ sock[accepted] # "none"
  /\ pc[AcceptService] = "insert" => accept_op = "none"

(* The life of a connection: it is fresh, then with a handler and an        *)
(* outstanding operation by turns.                                          *)
ConnsOK ==
  \A c \in Conns :
    /\ Fresh(c) => op[c] = "none" /\ replies[c] = 0 /\ ~Handling(c)
    /\ op[c] = "none" => done[c] = "no"
    /\ done[c] = "aborted" => sock[c] = "closed"
    /\ op[c] = "read" => replies[c] = 0
    /\ replies[c] <= 1
    /\ Open(c) => op[c] # "none" \/ Handling(c)

(* A handler has its connection to itself, and nothing is outstanding on it.*)
HandledOK ==
  \A s \in Services : conn[s] \in Conns =>
    /\ op[conn[s]] = "none"
    /\ pc[s] \in {"insert", "inserting", "start_read", "handling"} => replies[conn[s]] = 0
    /\ \A r \in Services : conn[r] = conn[s] => r = s

Served == TypeOK /\ PcsOK /\ AcceptOK /\ ConnsOK /\ HandledOK

(* The server starts so. *)
LEMMA InitServed == Init => Served
<1> SUFFICES ASSUME Init PROVE Served
  OBVIOUS
<1>1. TypeOK
  BY DEF Init, TypeOK
<1>2. PcsOK /\ AcceptOK
  BY ServiceFacts DEF Init, PcsOK, AcceptOK, Working, StopPcs, AcceptPcs, ConnectionPcs
<1>3. ConnsOK /\ HandledOK
  BY NoConnAssumption DEF Init, ConnsOK, HandledOK, Open, Handling
<1> QED
  BY <1>1, <1>2, <1>3 DEF Served

(* Every step keeps the types. *)
LEMMA TypeStep == TypeOK /\ PcsOK /\ AcceptOK /\ [Next]_vars => TypeOK'
<1> SUFFICES ASSUME TypeOK, PcsOK, AcceptOK, [Next]_vars PROVE TypeOK'
  OBVIOUS
<1> USE ServiceFacts
<1>1. ASSUME NEW c \in Conns, Connect(c) \/ Complete(c) PROVE TypeOK'
  BY <1>1 DEF Connect, Complete, TypeOK, manager, handler, pool, server
<1>2. CASE AcceptFails \/ Signal \/ RaceCrashes
  BY <1>2 DEF AcceptFails, Signal, RaceCrashes, TypeOK, connection, manager, handler, pool, server
<1>3. CASE HandleSignal \/ CloseAcceptor \/ StopAll
  BY <1>3
     DEF HandleSignal, CloseAcceptor, StopAll, Enter, Goto, TypeOK, StopPcs, connection, manager,
         pool, server
<1>4. CASE StopAllClears
  BY <1>4 DEF StopAllClears, Leave, Goto, TypeOK, StopPcs, connection, pool, server
<1>5. ASSUME NEW c \in Conns, StopAllCloses(c) PROVE TypeOK'
  BY <1>5 DEF StopAllCloses, CloseSocket, TypeOK, manager, pool, server
<1>6. ASSUME NEW s \in Services, StopService(s) PROVE TypeOK'
  BY <1>6 DEF StopService, Return, Goto, TypeOK, connection, manager, server
<1>7. CASE HandleAccept
  BY <1>7 DEF HandleAccept, Goto, TypeOK, AcceptPcs, connection, manager, pool
<1>8. CASE StartConnection \/ Insert \/ StartAccept
  <2>1. CASE StartConnection
    BY <2>1 DEF StartConnection, Enter, Goto, TypeOK, AcceptPcs, pool
  <2>2. CASE Insert
    <3>1. conn[AcceptService] \in Conns
      BY <2>2 DEF Insert, PcsOK, Working
    <3> QED
      BY <2>2, <3>1 DEF Insert, Leave, Goto, TypeOK, AcceptPcs, connection, pool, server
  <2>3. CASE StartAccept
    BY <2>3 DEF StartAccept, Return, Goto, TypeOK, connection, manager, pool
  <2> QED
    BY <1>8, <2>1, <2>2, <2>3
<1>9. CASE StartRead
  BY <1>9 DEF StartRead, StartOp, Goto, TypeOK, AcceptPcs, manager, pool, server
<1>10. ASSUME NEW c \in Conns, Handled(c) PROVE TypeOK'
  <2>1. CASE OpAborted(c) \/ CreateThrows(c)
    BY <2>1 DEF OpAborted, CreateThrows, Finish, TypeOK, connection, manager, handler, pool, server
  <2>4. CASE OpFails(c) \/ Dispatch(c)
    BY <2>4 DEF OpFails, Dispatch, Finish, Goto, TypeOK, ConnectionPcs, manager, pool, server
  <2>2. CASE ReadMore(c) \/ ReplyStock(c)
    BY <2>2 DEF ReadMore, ReplyStock, Reply, StartOp, TypeOK, manager, handler, pool, server
  <2>3. CASE Written(c)
    BY <2>3 DEF Written, Finish, Goto, TypeOK, ConnectionPcs, manager, pool, server
  <2> QED
    BY <1>10, <2>1, <2>2, <2>3, <2>4 DEF Handled
<1>11. CASE HandleRequest \/ CloseConnection
  BY <1>11
     DEF HandleRequest, CloseConnection, Reply, StartOp, CloseSocket, Return, Goto, TypeOK,
         manager, pool, server
<1>12. CASE StopConnection \/ Erase
  BY <1>12
     DEF StopConnection, Erase, Enter, Leave, Goto, TypeOK, ConnectionPcs, connection, pool,
         server
<1>13. ASSUME NEW s \in Services, ThreadExits(s) PROVE TypeOK'
  BY <1>13 DEF ThreadExits, TypeOK, connection, manager, handler, server
<1>14. CASE UNCHANGED vars
  BY <1>14 DEF TypeOK, vars, connection, manager, handler, pool, server
<1> QED
  BY <1>1, <1>2, <1>3, <1>4, <1>5, <1>6, <1>7, <1>8, <1>9, <1>10, <1>11, <1>12, <1>13, <1>14
     DEF Next, Outside, StopHandler, InAcceptHandler, InConnectionHandler, Ended

(* Every step keeps this: a handler leaves its connection with an operation *)
(* outstanding, or closed.                                                  *)
LEMMA ServedStep == Served /\ [Next]_vars => Served'
<1> SUFFICES ASSUME Served, [Next]_vars PROVE Served'
  OBVIOUS
<1> USE ServiceFacts, NoConnAssumption
<1>0. TypeOK'
  BY TypeStep DEF Served
<1>1. ASSUME NEW c \in Conns, Connect(c) PROVE Served'
  <2>1. PcsOK'
    BY <1>1 DEF Connect, Served, PcsOK, handler
  <2>2. AcceptOK'
    BY <1>1 DEF Connect, Served, AcceptOK, TypeOK, handler
  <2>3. ConnsOK'
    BY <1>1 DEF Connect, Served, ConnsOK, Handling, Fresh, Open, handler
  <2>4. HandledOK'
    BY <1>1 DEF Connect, Served, HandledOK, handler
  <2> QED
    BY <2>1, <2>2, <2>3, <2>4, <1>0 DEF Served
<1>2. ASSUME NEW c \in Conns, Complete(c) PROVE Served'
  <2>1. PcsOK'
    BY <1>2 DEF Complete, Served, PcsOK, handler
  <2>2. AcceptOK'
    BY <1>2 DEF Complete, Served, AcceptOK, server, handler
  <2>3. ConnsOK'
    BY <1>2 DEF Complete, Served, ConnsOK, Handling, Fresh, Open, server, handler
  <2>4. HandledOK'
    BY <1>2 DEF Complete, Served, HandledOK, handler
  <2> QED
    BY <2>1, <2>2, <2>3, <2>4, <1>0 DEF Served
<1>3. CASE AcceptFails
  <2>1. PcsOK'
    BY <1>3 DEF AcceptFails, Served, PcsOK, handler
  <2>2. AcceptOK'
    BY <1>3 DEF AcceptFails, Served, AcceptOK, handler
  <2>3. ConnsOK'
    BY <1>3 DEF AcceptFails, Served, ConnsOK, Handling, Fresh, Open, connection, handler
  <2>4. HandledOK'
    BY <1>3 DEF AcceptFails, Served, HandledOK, connection, handler
  <2> QED
    BY <2>1, <2>2, <2>3, <2>4, <1>0 DEF Served
<1>4. CASE CloseAcceptor
  <2>1. PcsOK'
    BY <1>4 DEF CloseAcceptor, Goto, Served, PcsOK, Working, AcceptPcs, ConnectionPcs
  <2>2. AcceptOK'
    BY <1>4 DEF CloseAcceptor, Goto, Served, AcceptOK, connection
  <2>3. ConnsOK'
    BY <1>4
       DEF CloseAcceptor, Goto, Served, PcsOK, ConnsOK, Handling, Fresh, Open, Working,
           ConnectionPcs, connection
  <2>4. HandledOK'
    BY <1>4 DEF CloseAcceptor, Goto, Served, HandledOK, connection
  <2> QED
    BY <2>1, <2>2, <2>3, <2>4, <1>0 DEF Served
<1>5. CASE HandleSignal
  <2>1. PcsOK'
    BY <1>5 DEF HandleSignal, Goto, Served, PcsOK, TypeOK, Working, AcceptPcs, ConnectionPcs
  <2>2. AcceptOK'
    BY <1>5 DEF HandleSignal, Goto, Served, AcceptOK, connection
  <2>3. ConnsOK'
    BY <1>5
       DEF HandleSignal, Goto, Ready, Served, PcsOK, ConnsOK, Handling, Fresh, Open, Working,
           ConnectionPcs, connection
  <2>4. HandledOK'
    BY <1>5 DEF HandleSignal, Goto, Served, HandledOK, connection
  <2> QED
    BY <2>1, <2>2, <2>3, <2>4, <1>0 DEF Served
<1>6. CASE StopAll
  <2>1. PcsOK'
    BY <1>6 DEF StopAll, Goto, Served, PcsOK, Working, AcceptPcs, ConnectionPcs
  <2>2. AcceptOK'
    BY <1>6 DEF StopAll, Goto, Served, AcceptOK, server, connection
  <2>3. ConnsOK'
    BY <1>6
       DEF StopAll, Goto, Served, PcsOK, ConnsOK, Handling, Fresh, Open, Working, ConnectionPcs,
           server, connection
  <2>4. HandledOK'
    BY <1>6 DEF StopAll, Goto, Served, HandledOK, connection
  <2> QED
    BY <2>1, <2>2, <2>3, <2>4, <1>0 DEF Served
<1>7. CASE StopAllClears
  <2>1. PcsOK'
    BY <1>7 DEF StopAllClears, Goto, Served, PcsOK, Working, AcceptPcs, ConnectionPcs
  <2>2. AcceptOK'
    BY <1>7 DEF StopAllClears, Goto, Served, AcceptOK, server, connection
  <2>3. ConnsOK'
    BY <1>7
       DEF StopAllClears, Goto, Served, PcsOK, ConnsOK, Handling, Fresh, Open, Working,
           ConnectionPcs, server, connection
  <2>4. HandledOK'
    BY <1>7 DEF StopAllClears, Goto, Served, HandledOK, connection
  <2> QED
    BY <2>1, <2>2, <2>3, <2>4, <1>0 DEF Served
<1>8. ASSUME NEW c \in Conns, StopAllCloses(c) PROVE Served'
  <2>1. PcsOK'
    BY <1>8 DEF StopAllCloses, Served, PcsOK
  <2>2. AcceptOK'
    BY <1>8 DEF StopAllCloses, CloseSocket, Served, AcceptOK, server
  <2>3. ConnsOK'
    BY <1>8 DEF StopAllCloses, CloseSocket, Served, ConnsOK, Handling, Fresh, Open, TypeOK, server
  <2>4. HandledOK'
    BY <1>8 DEF StopAllCloses, Served, HandledOK
  <2> QED
    BY <2>1, <2>2, <2>3, <2>4, <1>0 DEF Served
<1>9. ASSUME NEW s \in Services, StopService(s) PROVE Served'
  <2>1. PcsOK'
    BY <1>9 DEF StopService, Return, Goto, Served, PcsOK, TypeOK, Working, AcceptPcs, ConnectionPcs
  <2>2. AcceptOK'
    BY <1>9 DEF StopService, Return, Goto, Served, AcceptOK, TypeOK, server, connection
  <2>3. ConnsOK'
    BY <1>9
       DEF StopService, Return, Goto, Served, PcsOK, ConnsOK, Handling, Fresh, Open, TypeOK,
           Working, ConnectionPcs, server, connection
  <2>4. HandledOK'
    BY <1>9 DEF StopService, Return, Goto, Served, HandledOK, TypeOK, connection
  <2> QED
    BY <2>1, <2>2, <2>3, <2>4, <1>0 DEF Served
<1>10. CASE HandleAccept
  <2>1. PcsOK'
    BY <1>10
       DEF HandleAccept, Goto, Served, AcceptOK, PcsOK, TypeOK, Working, StopPcs, ConnectionPcs
  <2>2. AcceptOK'
    BY <1>10 DEF HandleAccept, AcceptOK
  <2>3. ConnsOK'
    BY <1>10
       DEF HandleAccept, Goto, Ready, Served, AcceptOK, PcsOK, ConnsOK, Handling, Fresh, Open,
           TypeOK, Working, ConnectionPcs, connection
  <2>4. HandledOK'
    BY <1>10 DEF HandleAccept, Goto, Served, ConnsOK, HandledOK, Handling, Fresh, TypeOK, connection
  <2> QED
    BY <2>1, <2>2, <2>3, <2>4, <1>0 DEF Served
<1>11. CASE StartConnection
  <2>1. PcsOK'
    BY <1>11 DEF StartConnection, Goto, Served, PcsOK, Working, StopPcs, ConnectionPcs
  <2>2. AcceptOK'
    BY <1>11 DEF StartConnection, Served, AcceptOK
  <2>3. ConnsOK'
    BY <1>11 DEF StartConnection, Goto, Served, ConnsOK, HandledOK, Handling, Fresh, Open
  <2>4. HandledOK'
    BY <1>11 DEF StartConnection, Goto, Served, HandledOK
  <2> QED
    BY <2>1, <2>2, <2>3, <2>4, <1>0 DEF Served
<1>12. CASE Insert
  <2>1. PcsOK'
    BY <1>12 DEF Insert, Goto, Served, PcsOK, Working, StopPcs, ConnectionPcs
  <2>2. AcceptOK'
    BY <1>12 DEF Insert, Goto, Served, AcceptOK, server, connection
  <2>3. ConnsOK'
    BY <1>12 DEF Insert, Goto, Served, ConnsOK, Handling, Fresh, Open, server, connection
  <2>4. HandledOK'
    BY <1>12 DEF Insert, Goto, Served, HandledOK, connection
  <2> QED
    BY <2>1, <2>2, <2>3, <2>4, <1>0 DEF Served
<1>13. CASE StartRead
  <2>1. PcsOK'
    BY <1>13 DEF StartRead, Goto, Served, PcsOK, TypeOK, Working, StopPcs, ConnectionPcs
  <2>2. AcceptOK'
    BY <1>13 DEF StartRead, Goto, Served, AcceptOK, server
  <2>3. ConnsOK'
    BY <1>13
       DEF StartRead, StartOp, Goto, Served, ConnsOK, HandledOK, Handling, Fresh, Open, TypeOK,
           server
  <2>4. HandledOK'
    BY <1>13 DEF StartRead, StartOp, Goto, Served, HandledOK, TypeOK
  <2> QED
    BY <2>1, <2>2, <2>3, <2>4, <1>0 DEF Served
<1>14. CASE StartAccept
  <2>1. PcsOK'
    BY <1>14 DEF StartAccept, Return, Goto, Served, PcsOK, Working, StopPcs, ConnectionPcs
  <2>2. AcceptOK'
    BY <1>14 DEF StartAccept, Return, Goto, AcceptOK
  <2>3. ConnsOK'
    BY <1>14
       DEF StartAccept, Return, Goto, Served, PcsOK, ConnsOK, Handling, Fresh, Open, Working,
           ConnectionPcs, connection
  <2>4. HandledOK'
    BY <1>14 DEF StartAccept, Return, Goto, Served, HandledOK, connection
  <2> QED
    BY <2>1, <2>2, <2>3, <2>4, <1>0 DEF Served
<1>15. ASSUME NEW c \in Conns, OpAborted(c) PROVE Served'
  <2>1. PcsOK'
    BY <1>15 DEF OpAborted, Served, PcsOK, handler
  <2>2. AcceptOK'
    BY <1>15 DEF OpAborted, Served, AcceptOK, server, handler
  <2>3. ConnsOK'
    BY <1>15
       DEF OpAborted, Completed, Finish, Served, ConnsOK, Handling, Fresh, Open, TypeOK, server,
           handler
  <2>4. HandledOK'
    BY <1>15 DEF OpAborted, Finish, Served, HandledOK, handler
  <2> QED
    BY <2>1, <2>2, <2>3, <2>4, <1>0 DEF Served
<1>16. ASSUME NEW c \in Conns, OpFails(c) PROVE Served'
  <2>1. PcsOK'
    BY <1>16 DEF OpFails, Goto, Served, PcsOK, TypeOK, Working, StopPcs, AcceptPcs, ConnectionPcs
  <2>2. AcceptOK'
    BY <1>16 DEF OpFails, Goto, Served, AcceptOK, server
  <2>3. ConnsOK'
    BY <1>16
       DEF OpFails, Completed, Ready, Finish, Goto, Served, PcsOK, ConnsOK, Handling, Fresh, Open,
           TypeOK, Working, ConnectionPcs, server
  <2>4. HandledOK'
    BY <1>16 DEF OpFails, Completed, Finish, Goto, Served, HandledOK, TypeOK
  <2> QED
    BY <2>1, <2>2, <2>3, <2>4, <1>0 DEF Served
<1>17. ASSUME NEW c \in Conns, ReadMore(c) PROVE Served'
  <2>1. PcsOK'
    BY <1>17 DEF ReadMore, Served, PcsOK, handler
  <2>2. AcceptOK'
    BY <1>17 DEF ReadMore, Served, AcceptOK, server, handler
  <2>3. ConnsOK'
    BY <1>17
       DEF ReadMore, Completed, StartOp, Served, ConnsOK, Handling, Fresh, Open, server, handler
  <2>4. HandledOK'
    BY <1>17 DEF ReadMore, Completed, StartOp, Served, HandledOK, handler
  <2> QED
    BY <2>1, <2>2, <2>3, <2>4, <1>0 DEF Served
<1>18. ASSUME NEW c \in Conns, ReplyStock(c) PROVE Served'
  <2>1. PcsOK'
    BY <1>18 DEF ReplyStock, Served, PcsOK, handler
  <2>2. AcceptOK'
    BY <1>18 DEF ReplyStock, Served, AcceptOK, server, handler
  <2>3. ConnsOK'
    BY <1>18
       DEF ReplyStock, Completed, Reply, StartOp, Served, ConnsOK, Handling, Fresh, Open, TypeOK,
           server, handler
  <2>4. HandledOK'
    BY <1>18 DEF ReplyStock, Completed, Reply, StartOp, Served, HandledOK, handler
  <2> QED
    BY <2>1, <2>2, <2>3, <2>4, <1>0 DEF Served
<1>19. ASSUME NEW c \in Conns, Dispatch(c) PROVE Served'
  <2>1. PcsOK'
    BY <1>19 DEF Dispatch, Goto, Served, PcsOK, TypeOK, Working, StopPcs, AcceptPcs, ConnectionPcs
  <2>2. AcceptOK'
    BY <1>19 DEF Dispatch, Goto, Served, AcceptOK, server
  <2>3. ConnsOK'
    BY <1>19
       DEF Dispatch, Completed, Ready, Finish, Goto, Served, PcsOK, ConnsOK, Handling, Fresh,
           Open, TypeOK, Working, ConnectionPcs, server
  <2>4. HandledOK'
    BY <1>19 DEF Dispatch, Completed, Finish, Goto, Served, ConnsOK, HandledOK, TypeOK
  <2> QED
    BY <2>1, <2>2, <2>3, <2>4, <1>0 DEF Served
<1>20. ASSUME NEW c \in Conns, Written(c) PROVE Served'
  <2>1. PcsOK'
    BY <1>20 DEF Written, Goto, Served, PcsOK, TypeOK, Working, StopPcs, AcceptPcs, ConnectionPcs
  <2>2. AcceptOK'
    BY <1>20 DEF Written, Goto, Served, AcceptOK, server
  <2>3. ConnsOK'
    BY <1>20
       DEF Written, Completed, Ready, Finish, Goto, Served, PcsOK, ConnsOK, Handling, Fresh, Open,
           TypeOK, Working, ConnectionPcs, server
  <2>4. HandledOK'
    BY <1>20 DEF Written, Completed, Finish, Goto, Served, HandledOK, TypeOK
  <2> QED
    BY <2>1, <2>2, <2>3, <2>4, <1>0 DEF Served
<1>21. CASE HandleRequest
  <2>1. PcsOK'
    BY <1>21
       DEF HandleRequest, Return, Goto, Served, PcsOK, TypeOK, Working, StopPcs, AcceptPcs,
           ConnectionPcs
  <2>2. AcceptOK'
    BY <1>21 DEF HandleRequest, Return, Goto, Served, AcceptOK, server
  <2>3. ConnsOK'
    BY <1>21
       DEF HandleRequest, Reply, StartOp, Return, Goto, Served, ConnsOK, HandledOK, Handling,
           Fresh, Open, TypeOK, server
  <2>4. HandledOK'
    BY <1>21 DEF HandleRequest, Reply, StartOp, Return, Goto, Served, HandledOK, TypeOK
  <2> QED
    BY <2>1, <2>2, <2>3, <2>4, <1>0 DEF Served
<1>22. CASE StopConnection
  <2>1. PcsOK'
    BY <1>22 DEF StopConnection, Goto, Served, PcsOK, Working, StopPcs, AcceptPcs, ConnectionPcs
  <2>2. AcceptOK'
    BY <1>22 DEF StopConnection, Goto, Served, AcceptOK, server, connection
  <2>3. ConnsOK'
    BY <1>22 DEF StopConnection, Goto, Served, ConnsOK, Handling, Fresh, Open, server, connection
  <2>4. HandledOK'
    BY <1>22 DEF StopConnection, Goto, Served, HandledOK, connection
  <2> QED
    BY <2>1, <2>2, <2>3, <2>4, <1>0 DEF Served
<1>23. CASE Erase
  <2>1. PcsOK'
    BY <1>23 DEF Erase, Goto, Served, PcsOK, Working, StopPcs, AcceptPcs, ConnectionPcs
  <2>2. AcceptOK'
    BY <1>23 DEF Erase, Goto, Served, AcceptOK, server, connection
  <2>3. ConnsOK'
    BY <1>23 DEF Erase, Goto, Served, ConnsOK, Handling, Fresh, Open, server, connection
  <2>4. HandledOK'
    BY <1>23 DEF Erase, Goto, Served, HandledOK, connection
  <2> QED
    BY <2>1, <2>2, <2>3, <2>4, <1>0 DEF Served
<1>24. CASE CloseConnection
  <2>1. PcsOK'
    BY <1>24
       DEF CloseConnection, Return, Goto, Served, PcsOK, TypeOK, Working, StopPcs, AcceptPcs,
           ConnectionPcs
  <2>2. AcceptOK'
    BY <1>24 DEF CloseConnection, CloseSocket, Return, Goto, Served, AcceptOK, server
  <2>3. ConnsOK'
    BY <1>24
       DEF CloseConnection, CloseSocket, Return, Goto, Served, ConnsOK, Handling, Fresh, Open,
           TypeOK, server
  <2>4. HandledOK'
    BY <1>24 DEF CloseConnection, Return, Goto, Served, HandledOK
  <2> QED
    BY <2>1, <2>2, <2>3, <2>4, <1>0 DEF Served
<1>25. CASE Signal \/ RaceCrashes \/ (\E c \in Conns : CreateThrows(c))
           \/ (\E s \in Services : ThreadExits(s)) \/ UNCHANGED vars
  <2>1. UNCHANGED <<acceptor_open, accept_op, accepted, connection, handler>>
    BY <1>25 DEF Signal, RaceCrashes, CreateThrows, ThreadExits, vars, server
  <2> QED
    BY <1>0, <2>1
       DEF Served, PcsOK, AcceptOK, ConnsOK, HandledOK, Fresh, Open, Handling, connection, handler
<1> QED
  BY <1>1, <1>2, <1>3, <1>4, <1>5, <1>6, <1>7, <1>8, <1>9, <1>10, <1>11, <1>12, <1>13, <1>14, <1>15, <1>16, <1>17, <1>18, <1>19, <1>20, <1>21, <1>22, <1>23, <1>24, <1>25
     DEF Next, Outside, StopHandler, InAcceptHandler, InConnectionHandler, Handled, Ended
-----------------------------------------------------------------------------
(* Where a connection is handled. *)
At(places, c) == \E s \in Services : conn[s] = c /\ pc[s] \in places

(* Who is inside connections_, and that without a data race it is at most   *)
(* one service.                                                             *)
TouchOK ==
  /\ touching = {s \in Services : pc[s] \in {"closing", "inserting", "erasing"}}
  /\ ~raced => \A s \in touching, r \in touching : s = r

(* Without a data race, connections_ holds what is open, but for what is    *)
(* just going in or has just been taken out, and what stop_all has closed   *)
(* and not yet forgotten.                                                   *)
RegisteredOK ==
  ~raced => \A c \in Conns :
    /\ c \in connections_ => ~Fresh(c) /\ ~At({"insert", "inserting", "close_conn"}, c)
    /\ Open(c) => c \in connections_ \/ At({"insert", "inserting", "close_conn"}, c)
    /\ c \in connections_ /\ ~Open(c) => pc[SignalService] = "closing" /\ c \notin todo
    /\ pc[SignalService] = "closing" /\ c \in connections_ \ todo => ~Open(c)
    /\ pc[SignalService] = "closing" /\ c \in todo => c \in connections_
    /\ At({"inserting"}, c) => Open(c)

(* The stop handler runs once, and nothing is accepted after it began.      *)
ShutdownOK ==
  /\ pc[SignalService] \in StopPcs \/ stopped # {} => ~signal_wait
  /\ pc[SignalService] \in {"stop_all", "closing", "stop_services"} \/ stopped # {}
       => ~acceptor_open

(* After stop_all only the connection that was being accepted is not closed *)
(* or about to be.                                                          *)
Loose(c) == (Open(c) /\ ~Closing(c)) \/ At({"insert", "inserting", "start_read"}, c)
EscapesOK ==
  ~raced /\ (pc[SignalService] = "stop_services" \/ stopped # {}) =>
    \A c \in Conns, d \in Conns : Loose(c) /\ Loose(d) => c = d

Registry == TouchOK /\ RegisteredOK /\ ShutdownOK /\ EscapesOK

(* A handler that enters connections_ is inside, alone unless there is a    *)
(* data race.                                                               *)
LEMMA EnterTouch ==
  ASSUME TypeOK, TouchOK, NEW s \in Services, NEW at \in {"closing", "inserting", "erasing"},
         Enter(s), pc' = [pc EXCEPT ![s] = at]
  PROVE  TouchOK'
<1>1. touching' = touching \cup {s} /\ (~raced' => ~raced /\ touching = {})
  BY DEF Enter
<1>2. \A r \in Services : pc'[r] = IF r = s THEN at ELSE pc[r]
  BY DEF TypeOK
<1>3. touching' = {r \in Services : pc'[r] \in {"closing", "inserting", "erasing"}}
  BY <1>1, <1>2 DEF TouchOK
<1>4. ~raced' => touching' = {s}
  BY <1>1
<1> QED
  BY <1>3, <1>4 DEF TouchOK

(* No step breaks the registry. *)
LEMMA RegistryStep == Served /\ Registry /\ [Next]_vars => Registry'
<1> SUFFICES ASSUME Served, Registry, [Next]_vars PROVE Registry'
  OBVIOUS
<1> USE ServiceFacts, NoConnAssumption
<1>0. TypeOK'
  BY TypeStep DEF Served
<1>1. ASSUME NEW c \in Conns, Connect(c) PROVE Registry'
  <2>1. TouchOK'
    BY <1>1 DEF Connect, TouchOK, Registry, manager, handler
  <2>2. RegisteredOK'
    BY <1>1 DEF Connect, RegisteredOK, Fresh, Open, At, Registry, manager, handler
  <2>3. ShutdownOK'
    BY <1>1 DEF Connect, ShutdownOK, Registry, handler, pool
  <2>4. EscapesOK'
    BY <1>1 DEF Connect, EscapesOK, Loose, Closing, Open, At, Registry, manager, handler, pool
  <2> QED
    BY <2>1, <2>2, <2>3, <2>4 DEF Registry
<1>2. ASSUME NEW c \in Conns, Complete(c) PROVE Registry'
  <2>1. TouchOK'
    BY <1>2 DEF Complete, TouchOK, Registry, manager, handler
  <2>2. RegisteredOK'
    BY <1>2 DEF Complete, RegisteredOK, Fresh, Open, At, Registry, server, manager, handler
  <2>3. ShutdownOK'
    BY <1>2 DEF Complete, ShutdownOK, Registry, server, handler, pool
  <2>4. EscapesOK'
    BY <1>2 DEF Complete, EscapesOK, Loose, Closing, Open, At, Registry, manager, handler, pool
  <2> QED
    BY <2>1, <2>2, <2>3, <2>4 DEF Registry
<1>3. CASE AcceptFails
  <2>1. TouchOK'
    BY <1>3 DEF AcceptFails, TouchOK, Registry, manager, handler
  <2>2. RegisteredOK'
    BY <1>3 DEF AcceptFails, RegisteredOK, Fresh, Open, At, Registry, connection, manager, handler
  <2>3. ShutdownOK'
    BY <1>3 DEF AcceptFails, ShutdownOK, Registry, handler, pool
  <2>4. EscapesOK'
    BY <1>3
       DEF AcceptFails, EscapesOK, Loose, Closing, Open, At, Registry, connection, manager,
           handler, pool
  <2> QED
    BY <2>1, <2>2, <2>3, <2>4 DEF Registry
<1>4. CASE CloseAcceptor
  <2>1. TouchOK'
    BY <1>4 DEF CloseAcceptor, Goto, TouchOK, Registry, manager
  <2>2. RegisteredOK'
    BY <1>4 DEF CloseAcceptor, Goto, RegisteredOK, Fresh, Open, At, Registry, connection, manager
  <2>3. ShutdownOK'
    BY <1>4 DEF CloseAcceptor, ShutdownOK, Registry, StopPcs
  <2>4. EscapesOK'
    BY <1>4
       DEF CloseAcceptor, Goto, EscapesOK, Loose, Closing, Open, At, Registry, connection,
           manager, pool
  <2> QED
    BY <2>1, <2>2, <2>3, <2>4 DEF Registry
<1>5. CASE HandleSignal
  <2>1. TouchOK'
    BY <1>5 DEF HandleSignal, Goto, Ready, TouchOK, Registry, manager
  <2>2. RegisteredOK'
    BY <1>5
       DEF HandleSignal, Goto, Ready, RegisteredOK, Fresh, Open, At, Registry, connection, manager
  <2>3. ShutdownOK'
    BY <1>5 DEF HandleSignal, Goto, ShutdownOK, Registry, pool
  <2>4. EscapesOK'
    BY <1>5 DEF HandleSignal, Goto, EscapesOK, ShutdownOK, Registry, StopPcs, pool
  <2> QED
    BY <2>1, <2>2, <2>3, <2>4 DEF Registry
<1>6. CASE StopAll
  <2>1. TouchOK'
    <3>1. Enter(SignalService) /\ pc' = [pc EXCEPT ![SignalService] = "closing"]
      BY <1>6 DEF StopAll, Goto
    <3> QED
      BY <3>1, EnterTouch DEF Served, Registry
  <2>2. RegisteredOK'
    BY <1>6
       DEF StopAll, Goto, Enter, RegisteredOK, Fresh, Open, At, Served, Registry, TypeOK, server,
           connection
  <2>3. ShutdownOK'
    BY <1>6 DEF StopAll, ShutdownOK, Registry, StopPcs, server
  <2>4. EscapesOK'
    BY <1>6
       DEF StopAll, Goto, Enter, EscapesOK, Loose, Closing, Open, At, Served, Registry, TypeOK,
           connection, pool
  <2> QED
    BY <2>1, <2>2, <2>3, <2>4 DEF Registry
<1>7. CASE StopAllClears
  <2>1. TouchOK'
    BY <1>7 DEF StopAllClears, Goto, Leave, TouchOK, Served, Registry, TypeOK
  <2>2. RegisteredOK'
    BY <1>7 DEF StopAllClears, Goto, Leave, RegisteredOK, Open, At, Registry, connection
  <2>3. ShutdownOK'
    BY <1>7 DEF StopAllClears, ShutdownOK, Registry, StopPcs, server
  <2>4. EscapesOK'
    BY <1>7
       DEF StopAllClears, Goto, EscapesOK, RegisteredOK, Loose, Closing, Open, At, Served,
           Registry, PcsOK, AcceptPcs, ConnectionPcs, connection
  <2> QED
    BY <2>1, <2>2, <2>3, <2>4 DEF Registry
<1>8. ASSUME NEW c \in Conns, StopAllCloses(c) PROVE Registry'
  <2>1. TouchOK'
    BY <1>8 DEF StopAllCloses, TouchOK, Registry, manager
  <2>2. RegisteredOK'
    BY <1>8
       DEF StopAllCloses, CloseSocket, RegisteredOK, Fresh, Open, At, Served, Registry, TypeOK,
           server, manager
  <2>3. ShutdownOK'
    BY <1>8 DEF StopAllCloses, ShutdownOK, Registry, server, pool
  <2>4. EscapesOK'
    BY <1>8
       DEF StopAllCloses, CloseSocket, EscapesOK, Loose, Closing, Open, At, Registry, manager,
           pool
  <2> QED
    BY <2>1, <2>2, <2>3, <2>4 DEF Registry
<1>9. ASSUME NEW s \in Services, StopService(s) PROVE Registry'
  <2>1. TouchOK'
    BY <1>9 DEF StopService, Return, Goto, TouchOK, Served, Registry, TypeOK, manager
  <2>2. RegisteredOK'
    BY <1>9
       DEF StopService, Return, Goto, RegisteredOK, Fresh, Open, At, Served, Registry, TypeOK,
           server, connection, manager
  <2>3. ShutdownOK'
    BY <1>9 DEF StopService, ShutdownOK, Registry, StopPcs, server
  <2>4. EscapesOK'
    BY <1>9
       DEF StopService, Return, Goto, EscapesOK, Loose, Closing, Open, At, Served, Registry,
           TypeOK, connection, manager
  <2> QED
    BY <2>1, <2>2, <2>3, <2>4 DEF Registry
<1>10. CASE HandleAccept
  <2>1. TouchOK'
    BY <1>10 DEF HandleAccept, Goto, Ready, TouchOK, Served, Registry, TypeOK, manager
  <2>2. RegisteredOK'
    BY <1>10
       DEF HandleAccept, Goto, Ready, RegisteredOK, Fresh, Open, At, Served, Registry, TypeOK,
           connection, manager
  <2>3. ShutdownOK'
    BY <1>10 DEF HandleAccept, Goto, ShutdownOK, Served, Registry, TypeOK, StopPcs, pool
  <2>4. EscapesOK'
    BY <1>10
       DEF HandleAccept, Goto, EscapesOK, ShutdownOK, Loose, Closing, Open, At, Served, Registry,
           TypeOK, connection, manager, pool
  <2> QED
    BY <2>1, <2>2, <2>3, <2>4 DEF Registry
<1>11. CASE StartConnection
  <2>1. TouchOK'
    <3>1. Enter(AcceptService) /\ pc' = [pc EXCEPT ![AcceptService] = "inserting"]
      BY <1>11 DEF StartConnection, Goto
    <3> QED
      BY <3>1, EnterTouch DEF Served, Registry
  <2>2. RegisteredOK'
    BY <1>11
       DEF StartConnection, Goto, Enter, RegisteredOK, Fresh, Open, At, Served, Registry, TypeOK
  <2>3. ShutdownOK'
    BY <1>11 DEF StartConnection, Goto, ShutdownOK, Registry, StopPcs, pool
  <2>4. EscapesOK'
    BY <1>11
       DEF StartConnection, Goto, Enter, EscapesOK, Loose, Closing, Open, At, Served, Registry,
           TypeOK, pool
  <2> QED
    BY <2>1, <2>2, <2>3, <2>4 DEF Registry
<1>12. CASE Insert
  <2>1. TouchOK'
    BY <1>12 DEF Insert, Goto, Leave, TouchOK, Served, Registry, TypeOK
  <2>2. RegisteredOK'
    <3> DEFINE new == conn[AcceptService]
    <3>1. /\ new \in Conns /\ pc[AcceptService] = "inserting" /\ AcceptService \in touching
          /\ UNCHANGED <<sock, accept_op, accepted, raced, todo>>
          /\ pc' = [pc EXCEPT ![AcceptService] = "start_read"]
          /\ conn' = [conn EXCEPT ![AcceptService] = new]
      BY <1>12 DEF Insert, Goto, Served, Registry, PcsOK, Working, TouchOK, server, connection
    <3>2. conn' = conn /\ ~Fresh(new) /\ \A s \in Services : conn[s] = new => s = AcceptService
      BY <3>1 DEF Served, TypeOK, ConnsOK, HandledOK, Handling
    <3>3. ASSUME ~raced
          PROVE  connections_' = connections_ \cup {new} /\ pc[SignalService] # "closing" /\ pc'[SignalService] # "closing"
      BY <1>12, <3>1, <3>3 DEF Insert, Leave, Registry, TouchOK
    <3>4. ~raced => Open(new)
      BY <3>1 DEF Registry, RegisteredOK, At
    <3>5. ASSUME ~raced, NEW c \in Conns
          PROVE  /\ c \in connections_' => ~Fresh(c)' /\ ~At({"insert", "inserting", "close_conn"}, c)'
                 /\ Open(c)' => c \in connections_' \/ At({"insert", "inserting", "close_conn"}, c)'
                 /\ c \in connections_' => Open(c)'
                 /\ At({"inserting"}, c)' => Open(c)'
      <4>1. c # new => \A places : At(places, c)' <=> At(places, c)
        BY <3>1, <3>2 DEF At
      <4>2. ~At({"insert", "inserting", "close_conn"}, new)'
        BY <3>1, <3>2 DEF At, Served, TypeOK
      <4>3. ~At({"inserting"}, new)'
        BY <4>2 DEF At
      <4>4. (Fresh(c)' <=> Fresh(c)) /\ (Open(c)' <=> Open(c))
        BY <3>1 DEF Fresh, Open
      <4>5. CASE c = new
        BY <3>2, <3>3, <3>4, <3>5, <4>2, <4>3, <4>4, <4>5
      <4>6. CASE c # new
        BY <3>3, <3>5, <4>1, <4>4, <4>6 DEF Registry, RegisteredOK
      <4> QED
        BY <4>5, <4>6
    <3> QED
      BY <3>1, <3>3, <3>5 DEF RegisteredOK
  <2>3. ShutdownOK'
    BY <1>12 DEF Insert, Goto, ShutdownOK, Registry, StopPcs, server, pool
  <2>4. EscapesOK'
    BY <1>12 DEF Insert, Goto, EscapesOK, Loose, Closing, Open, At, Registry, connection, pool
  <2> QED
    BY <2>1, <2>2, <2>3, <2>4 DEF Registry
<1>13. CASE StartRead
  <2>1. TouchOK'
    BY <1>13 DEF StartRead, Goto, TouchOK, Registry, manager
  <2>2. RegisteredOK'
    BY <1>13 DEF StartRead, Goto, RegisteredOK, Fresh, Open, At, Registry, server, manager
  <2>3. ShutdownOK'
    BY <1>13 DEF StartRead, Goto, ShutdownOK, Registry, StopPcs, server, pool
  <2>4. EscapesOK'
    BY <1>13 DEF StartRead, Goto, EscapesOK, Loose, Closing, Open, At, Registry, manager, pool
  <2> QED
    BY <2>1, <2>2, <2>3, <2>4 DEF Registry
<1>14. CASE StartAccept
  <2>1. TouchOK'
    BY <1>14 DEF StartAccept, Return, Goto, TouchOK, Registry, manager
  <2>2. RegisteredOK'
    BY <1>14
       DEF StartAccept, Return, Goto, RegisteredOK, Fresh, Open, At, Registry, connection, manager
  <2>3. ShutdownOK'
    BY <1>14 DEF StartAccept, Return, Goto, ShutdownOK, Registry, StopPcs, pool
  <2>4. EscapesOK'
    BY <1>14
       DEF StartAccept, Return, Goto, EscapesOK, Loose, Closing, Open, At, Registry, connection,
           manager, pool
  <2> QED
    BY <2>1, <2>2, <2>3, <2>4 DEF Registry
<1>15. ASSUME NEW c \in Conns, OpAborted(c) PROVE Registry'
  <2>1. TouchOK'
    BY <1>15 DEF OpAborted, TouchOK, Registry, manager, handler
  <2>2. RegisteredOK'
    BY <1>15 DEF OpAborted, RegisteredOK, Fresh, Open, At, Registry, server, manager, handler
  <2>3. ShutdownOK'
    BY <1>15 DEF OpAborted, ShutdownOK, Registry, server, handler, pool
  <2>4. EscapesOK'
    BY <1>15 DEF OpAborted, EscapesOK, Loose, Closing, Open, At, Registry, manager, handler, pool
  <2> QED
    BY <2>1, <2>2, <2>3, <2>4 DEF Registry
<1>16. ASSUME NEW c \in Conns, OpFails(c) PROVE Registry'
  <2>1. TouchOK'
    BY <1>16 DEF OpFails, Completed, Ready, Goto, TouchOK, Registry, manager
  <2>2. RegisteredOK'
    BY <1>16
       DEF OpFails, Completed, Ready, Goto, RegisteredOK, Fresh, Open, At, Registry, server,
           manager
  <2>3. ShutdownOK'
    BY <1>16 DEF OpFails, Goto, ShutdownOK, Registry, StopPcs, server, pool
  <2>4. EscapesOK'
    BY <1>16
       DEF OpFails, Completed, Ready, Goto, EscapesOK, Loose, Closing, Open, At, Registry,
           manager, pool
  <2> QED
    BY <2>1, <2>2, <2>3, <2>4 DEF Registry
<1>17. ASSUME NEW c \in Conns, ReadMore(c) PROVE Registry'
  <2>1. TouchOK'
    BY <1>17 DEF ReadMore, TouchOK, Registry, manager, handler
  <2>2. RegisteredOK'
    BY <1>17 DEF ReadMore, RegisteredOK, Fresh, Open, At, Registry, server, manager, handler
  <2>3. ShutdownOK'
    BY <1>17 DEF ReadMore, ShutdownOK, Registry, server, handler, pool
  <2>4. EscapesOK'
    BY <1>17 DEF ReadMore, EscapesOK, Loose, Closing, Open, At, Registry, manager, handler, pool
  <2> QED
    BY <2>1, <2>2, <2>3, <2>4 DEF Registry
<1>18. ASSUME NEW c \in Conns, ReplyStock(c) PROVE Registry'
  <2>1. TouchOK'
    BY <1>18 DEF ReplyStock, TouchOK, Registry, manager, handler
  <2>2. RegisteredOK'
    BY <1>18 DEF ReplyStock, RegisteredOK, Fresh, Open, At, Registry, server, manager, handler
  <2>3. ShutdownOK'
    BY <1>18 DEF ReplyStock, ShutdownOK, Registry, server, handler, pool
  <2>4. EscapesOK'
    BY <1>18 DEF ReplyStock, EscapesOK, Loose, Closing, Open, At, Registry, manager, handler, pool
  <2> QED
    BY <2>1, <2>2, <2>3, <2>4 DEF Registry
<1>19. ASSUME NEW c \in Conns, Dispatch(c) PROVE Registry'
  <2>1. TouchOK'
    BY <1>19 DEF Dispatch, Completed, Ready, Goto, TouchOK, Registry, manager
  <2>2. RegisteredOK'
    BY <1>19
       DEF Dispatch, Completed, Ready, Goto, RegisteredOK, Fresh, Open, At, Registry, server,
           manager
  <2>3. ShutdownOK'
    BY <1>19 DEF Dispatch, Goto, ShutdownOK, Registry, StopPcs, server, pool
  <2>4. EscapesOK'
    BY <1>19
       DEF Dispatch, Completed, Ready, Goto, EscapesOK, Loose, Closing, Open, At, Registry,
           manager, pool
  <2> QED
    BY <2>1, <2>2, <2>3, <2>4 DEF Registry
<1>20. ASSUME NEW c \in Conns, Written(c) PROVE Registry'
  <2>1. TouchOK'
    BY <1>20 DEF Written, Completed, Ready, Goto, TouchOK, Registry, manager
  <2>2. RegisteredOK'
    BY <1>20
       DEF Written, Completed, Ready, Goto, RegisteredOK, Fresh, Open, At, Registry, server,
           manager
  <2>3. ShutdownOK'
    BY <1>20 DEF Written, Goto, ShutdownOK, Registry, StopPcs, server, pool
  <2>4. EscapesOK'
    BY <1>20
       DEF Written, Completed, Ready, Goto, EscapesOK, Loose, Closing, Open, At, Registry,
           manager, pool
  <2> QED
    BY <2>1, <2>2, <2>3, <2>4 DEF Registry
<1>21. CASE HandleRequest
  <2>1. TouchOK'
    BY <1>21 DEF HandleRequest, Return, Goto, TouchOK, Registry, manager
  <2>2. RegisteredOK'
    BY <1>21
       DEF HandleRequest, Return, Goto, RegisteredOK, Fresh, Open, At, Registry, server, manager
  <2>3. ShutdownOK'
    BY <1>21 DEF HandleRequest, Return, Goto, ShutdownOK, Registry, StopPcs, server, pool
  <2>4. EscapesOK'
    BY <1>21
       DEF HandleRequest, Return, Goto, EscapesOK, Loose, Closing, Open, At, Registry, manager,
           pool
  <2> QED
    BY <2>1, <2>2, <2>3, <2>4 DEF Registry
<1>22. CASE StopConnection
  <2>1. TouchOK'
    <3>1. Enter(SocketService) /\ pc' = [pc EXCEPT ![SocketService] = "erasing"]
      BY <1>22 DEF StopConnection, Goto
    <3> QED
      BY <3>1, EnterTouch DEF Served, Registry
  <2>2. RegisteredOK'
    BY <1>22
       DEF StopConnection, Goto, Enter, RegisteredOK, Fresh, Open, At, Served, Registry, TypeOK,
           server, connection
  <2>3. ShutdownOK'
    BY <1>22 DEF StopConnection, Goto, ShutdownOK, Registry, StopPcs, server, pool
  <2>4. EscapesOK'
    BY <1>22
       DEF StopConnection, Goto, Enter, EscapesOK, Loose, Closing, Open, At, Served, Registry,
           TypeOK, connection, pool
  <2> QED
    BY <2>1, <2>2, <2>3, <2>4 DEF Registry
<1>23. CASE Erase
  <2>1. TouchOK'
    BY <1>23 DEF Erase, Goto, Leave, TouchOK, Served, Registry, TypeOK
  <2>2. RegisteredOK'
    BY <1>23
       DEF Erase, Goto, Leave, RegisteredOK, TouchOK, Fresh, Open, At, Served, Registry, TypeOK,
           server, connection
  <2>3. ShutdownOK'
    BY <1>23 DEF Erase, Goto, ShutdownOK, Registry, StopPcs, server, pool
  <2>4. EscapesOK'
    BY <1>23 DEF Erase, Goto, EscapesOK, Loose, Closing, Open, At, Registry, connection, pool
  <2> QED
    BY <2>1, <2>2, <2>3, <2>4 DEF Registry
<1>24. CASE CloseConnection
  <2>1. TouchOK'
    BY <1>24 DEF CloseConnection, Return, Goto, TouchOK, Registry, manager
  <2>2. RegisteredOK'
    BY <1>24
       DEF CloseConnection, CloseSocket, Return, Goto, RegisteredOK, Fresh, Open, At, HandledOK,
           Served, Registry, TypeOK, server, manager
  <2>3. ShutdownOK'
    BY <1>24 DEF CloseConnection, Return, Goto, ShutdownOK, Registry, StopPcs, server, pool
  <2>4. EscapesOK'
    BY <1>24
       DEF CloseConnection, CloseSocket, Return, Goto, EscapesOK, Loose, Closing, Open, At,
           Served, Registry, TypeOK, manager, pool
  <2> QED
    BY <2>1, <2>2, <2>3, <2>4 DEF Registry
<1>25. CASE Signal \/ RaceCrashes \/ (\E c \in Conns : CreateThrows(c))
           \/ (\E s \in Services : ThreadExits(s)) \/ UNCHANGED vars
  <2>1. UNCHANGED <<signal_wait, acceptor_open, accept_op, accepted, connection, manager, handler, stopped>>
    BY <1>25 DEF Signal, RaceCrashes, CreateThrows, ThreadExits, vars, server, pool
  <2> QED
    BY <2>1
       DEF Registry, TouchOK, RegisteredOK, ShutdownOK, EscapesOK, Fresh, Open, At, Loose,
           Closing, connection, manager, handler
<1> QED
  BY <1>1, <1>2, <1>3, <1>4, <1>5, <1>6, <1>7, <1>8, <1>9, <1>10, <1>11, <1>12, <1>13, <1>14, <1>15, <1>16, <1>17, <1>18, <1>19, <1>20, <1>21, <1>22, <1>23, <1>24, <1>25
     DEF Next, Outside, StopHandler, InAcceptHandler, InConnectionHandler, Handled, Ended

(* Nothing is registered at the start. *)
LEMMA InitRegistry == Init => Registry
<1> SUFFICES ASSUME Init PROVE Registry
  OBVIOUS
<1>1. \A s \in Services : pc[s] = "idle" /\ conn[s] = NoConn
  BY DEF Init
<1>2. TouchOK /\ ShutdownOK /\ EscapesOK
  BY <1>1, ServiceFacts DEF Init, TouchOK, ShutdownOK, EscapesOK, StopPcs
<1>3. RegisteredOK
  BY <1>1 DEF Init, RegisteredOK, At, Open
<1> QED
  BY <1>2, <1>3 DEF Registry

(* Both invariants together. *)
LEMMA Invariants == Spec => [](Served /\ Registry)
BY InitServed, InitRegistry, ServedStep, RegistryStep, PTL DEF Spec

(* The types of the server. *)
THEOREM Typing == Spec => []TypeOK
<1>1. Served => TypeOK
  BY DEF Served
<1> QED
  BY <1>1, Invariants, PTL

(* An open connection is never forgotten, data races on connections_ or     *)
(* not.                                                                     *)
THEOREM OpenServed == Spec => []OpenIsServed
<1>1. Served => OpenIsServed
  BY DEF Served, ConnsOK, OpenIsServed
<1> QED
  BY <1>1, Invariants, PTL

(* A connection gets one reply.                                             *)
THEOREM RepliesOnce == Spec => []OneReply
<1>1. Served => OneReply
  BY DEF Served, ConnsOK, OneReply
<1> QED
  BY <1>1, Invariants, PTL

(* connections_ holds exactly the open connections, until a data race.      *)
THEOREM Registered == Spec => []RegistryExact
<1>1. Registry => RegistryExact
  BY DEF Registry, RegisteredOK, RegistryExact, At, Handling
<1> QED
  BY <1>1, Invariants, PTL

(* No more than one connection escapes a shutdown.                          *)
THEOREM OneEscapes == Spec => []AtMostOneEscapes
<1>1. ASSUME Served, Registry PROVE AtMostOneEscapes
  <2> DEFINE S == {c \in Conns : Open(c) /\ ~Closing(c)}
  <2> SUFFICES ASSUME ~raced, stopped # {} PROVE Cardinality(S) <= 1
    BY DEF AtMostOneEscapes
  <2>1. \A c \in S, d \in S : c = d
    BY <1>1 DEF Registry, EscapesOK, Loose
  <2>2. CASE S = {}
    BY <2>2, FS_EmptySet
  <2>3. CASE S # {}
    <3>1. PICK c \in S : S = {c}
      BY <2>1, <2>3
    <3> QED
      BY <3>1, FS_Singleton
  <2> QED
    BY <2>2, <2>3
<1> QED
  BY <1>1, Invariants, PTL

(* Only stop_all closes a socket under an operation.                        *)
THEOREM StopCuts == Spec => OnlyStopCutsReplies
<1> DEFINE A == \A c \in Conns : Open(c) /\ sock'[c] = "closed" /\ op[c] = "write" /\ done[c] = "no"
                                   => pc[SignalService] = "closing"
<1>1. ASSUME Served, [Next]_vars PROVE A
  <2>1. CASE CloseConnection
    <3>1. op[conn[SocketService]] = "none"
      BY <1>1, <2>1, ServiceFacts
         DEF CloseConnection, Served, HandledOK, PcsOK, Working, ConnectionPcs
    <3>2. \A c \in Conns : c # conn[SocketService] => sock'[c] = sock[c]
      BY <1>1, <2>1 DEF CloseConnection, CloseSocket
    <3> QED
      BY <3>1, <3>2 DEF Open
  <2>2. ASSUME NEW c \in Conns, StopAllCloses(c) PROVE A
    BY <2>2 DEF StopAllCloses
  <2>3. ASSUME NEW c \in Conns, Connect(c) \/ Written(c) PROVE A
    BY <1>1, <2>3 DEF Connect, Written, Open, Served, TypeOK
  <2>4. CASE StartConnection
    BY <1>1, <2>4 DEF StartConnection, Open
  <2>5. CASE UNCHANGED sock
    BY <2>5 DEF Open
  <2> QED
    BY <1>1, <2>1, <2>2, <2>3, <2>4, <2>5
       DEF Next, Outside, StopHandler, InAcceptHandler, InConnectionHandler, Handled, Ended,
           AcceptFails, Signal, RaceCrashes, Complete, HandleSignal, CloseAcceptor, StopAll,
           StopAllClears, StopService, HandleAccept, Insert, StartRead, StartAccept,
           HandleRequest, StopConnection, Erase, OpAborted, OpFails, ReadMore, ReplyStock,
           Dispatch, CreateThrows, ThreadExits, vars, connection
<1>2. OnlyStopCutsReplies <=> [][A]_vars
  BY DEF OnlyStopCutsReplies
<1> QED
  BY <1>1, <1>2, Invariants, PTL DEF Spec
=============================================================================
