----------------------------- MODULE TileServer -----------------------------
(***************************************************************************)
(* The HTTP front end of the tile server: server.cpp, connection.cpp,      *)
(* connection_manager.cpp and io_service_pool.cpp.                         *)
(*                                                                         *)
(* The pool has one io_service per thread and hands services out round     *)
(* robin: the signal set takes service 0, the acceptor the next one and    *)
(* the socket that is moved into every connection the one after.  Each     *)
(* thread runs the handlers of its service one at a time, so the handlers  *)
(* of all connections are serial, while the accept handler and the stop    *)
(* handler may overlap with them (the program uses a pool of 4).           *)
(*                                                                         *)
(* A handler is cut at its accesses to what the threads share: the         *)
(* acceptor, the sockets, the outstanding operations and the set           *)
(* connections_, which no lock protects.  An access to the set is an       *)
(* interval; two that overlap are a data race, after which the contents of *)
(* the set are arbitrary and the process may crash.                        *)
(***************************************************************************)
EXTENDS Integers, FiniteSets

CONSTANTS Conns,      \* connections the clients open, one after the other
          PoolSize,   \* the number of io_services and threads
          NoConn      \* "no connection"

ASSUME PoolSizeAssumption == PoolSize \in Nat \ {0}
ASSUME NoConnAssumption == NoConn \notin Conns

VARIABLES signalled,      \* a termination signal was raised
          signal_wait,    \* the wait of signals_ has not been handled yet
          acceptor_open,  \* acceptor_.is_open()
          accept_op,      \* the outstanding async_accept and how it completed
          accepted,       \* what socket_ holds
          sock,           \* the socket of a connection
          op,             \* the operation outstanding on it
          done,           \* how that operation completed, if it did
          replies,        \* calls of async_write made for it
          connections_,   \* the set of the connection manager
          touching,       \* services whose handler is inside connections_
          raced,          \* two accesses to connections_ overlapped
          pc,             \* where the handler of a service is
          conn,           \* the connection it works on
          todo,           \* connections stop_all has still to close
          stopped,        \* io_services that were told to stop
          exited,         \* threads whose run() returned
          terminated      \* the process ended abnormally

server == <<signalled, signal_wait, acceptor_open, accept_op, accepted>>
connection == <<sock, op, done, replies>>
manager == <<connections_, touching, raced>>
handler == <<pc, conn, todo>>
pool == <<stopped, exited, terminated>>
vars == <<server, connection, manager, handler, pool>>

Services == 0 .. PoolSize - 1
SignalService == 0
AcceptService == 1 % PoolSize
SocketService == 2 % PoolSize

StopPcs == {"close_acceptor", "stop_all", "closing", "stop_services"}
AcceptPcs == {"insert", "inserting", "start_read", "start_accept"}
ConnectionPcs == {"handling", "stop_conn", "erasing", "close_conn"}

(* Type invariant: every variable has its type, and no thread returns from *)
(* run() before its io_service was told to stop (io_service_pool.cpp keeps *)
(* a work object for each).                                                *)
TypeOK ==
  /\ signalled \in BOOLEAN
  /\ signal_wait \in BOOLEAN
  /\ acceptor_open \in BOOLEAN
  /\ accept_op \in {"none", "pending", "ok", "error"}
  /\ accepted \in Conns \cup {NoConn}
  /\ sock \in [Conns -> {"none", "accepted", "open", "shut", "closed"}]
  /\ op \in [Conns -> {"none", "read", "write"}]
  /\ done \in [Conns -> {"no", "ok", "error", "aborted"}]
  /\ replies \in [Conns -> Nat]
  /\ connections_ \subseteq Conns
  /\ touching \subseteq Services
  /\ raced \in BOOLEAN
  /\ pc \in [Services -> {"idle"} \cup StopPcs \cup AcceptPcs \cup ConnectionPcs]
  /\ conn \in [Services -> Conns \cup {NoConn}]
  /\ todo \subseteq Conns
  /\ stopped \subseteq Services
  /\ exited \subseteq stopped
  /\ terminated \in BOOLEAN

(* The constructor has opened the acceptor, waits for a signal and accepts *)
(* its first connection; run() has started the threads.                    *)
Init ==
  /\ signalled = FALSE
  /\ signal_wait = TRUE
  /\ acceptor_open = TRUE
  /\ accept_op = "pending"
  /\ accepted = NoConn
  /\ sock = [c \in Conns |-> "none"]
  /\ op = [c \in Conns |-> "none"]
  /\ done = [c \in Conns |-> "no"]
  /\ replies = [c \in Conns |-> 0]
  /\ connections_ = {}
  /\ touching = {}
  /\ raced = FALSE
  /\ pc = [s \in Services |-> "idle"]
  /\ conn = [s \in Services |-> NoConn]
  /\ todo = {}
  /\ stopped = {}
  /\ exited = {}
  /\ terminated = FALSE

-----------------------------------------------------------------------------
(* What the handlers are made of.                                          *)

Open(c) == sock[c] \in {"open", "shut"}
Ready(s) == ~terminated /\ pc[s] = "idle" /\ s \notin stopped
Goto(s, at, c) == pc' = [pc EXCEPT ![s] = at] /\ conn' = [conn EXCEPT ![s] = c]
Return(s) == Goto(s, "idle", NoConn)

(* An operation on a socket that is closed fails with an error that is not *)
(* operation_aborted.                                                      *)
StartOp(c, kind) ==
  /\ op' = [op EXCEPT ![c] = kind]
  /\ done' = [done EXCEPT ![c] = IF sock[c] = "closed" THEN "error" ELSE "no"]

(* Closing a socket cancels the operation outstanding on it, unless it has *)
(* already completed.                                                      *)
CloseSocket(c) ==
  /\ sock' = [sock EXCEPT ![c] = "closed"]
  /\ done' = [done EXCEPT ![c] = IF op[c] # "none" /\ @ = "no" THEN "aborted" ELSE @]

Enter(s) ==
  /\ touching' = touching \cup {s}
  /\ raced' = (raced \/ touching # {})

Leave(s, result) ==
  /\ touching' = touching \ {s}
  /\ \/ connections_' = result
     \/ raced /\ connections_' \in SUBSET Conns

-----------------------------------------------------------------------------
(* The outside: clients, the kernel, the operator.                         *)

Connect(c) ==
  /\ ~terminated
  /\ accept_op = "pending"
  /\ sock[c] = "none"
  /\ accept_op' = "ok"
  /\ accepted' = c
  /\ sock' = [sock EXCEPT ![c] = "accepted"]
  /\ UNCHANGED <<signalled, signal_wait, acceptor_open, op, done, replies, manager, handler, pool>>

AcceptFails ==
  /\ ~terminated
  /\ accept_op = "pending"
  /\ accept_op' = "error"
  /\ UNCHANGED <<signalled, signal_wait, acceptor_open, accepted, connection, manager, handler, pool>>

(* A client sends or takes data, closes its end or resets the connection. *)
Complete(c) ==
  /\ ~terminated
  /\ op[c] # "none"
  /\ done[c] = "no"
  /\ \E how \in {"ok", "error"}: done' = [done EXCEPT ![c] = how]
  /\ UNCHANGED <<server, sock, op, replies, manager, handler, pool>>

Signal ==
  /\ ~terminated
  /\ ~signalled
  /\ signalled' = TRUE
  /\ UNCHANGED <<signal_wait, acceptor_open, accept_op, accepted, connection, manager, handler, pool>>

(* After a data race the build may also crash. *)
RaceCrashes ==
  /\ ~terminated
  /\ raced
  /\ terminated' = TRUE
  /\ UNCHANGED <<server, connection, manager, handler, stopped, exited>>

-----------------------------------------------------------------------------
(* Server::handle_stop, on the service of signals_.                        *)

HandleSignal ==
  /\ signalled /\ signal_wait
  /\ Ready(SignalService)
  /\ signal_wait' = FALSE
  /\ Goto(SignalService, "close_acceptor", NoConn)
  /\ UNCHANGED <<signalled, acceptor_open, accept_op, accepted, connection, manager, todo, pool>>

(* mutant: the connections are forgotten before they are closed *)
BugClearsFirst ==
  /\ ~terminated
  /\ pc[SignalService] = "stop_all"
  /\ Enter(SignalService)
  /\ todo' = {}
  /\ Goto(SignalService, "closing", NoConn)
  /\ UNCHANGED <<server, connection, connections_, pool>>

CloseAcceptor ==
  /\ ~terminated
  /\ pc[SignalService] = "close_acceptor"
  /\ acceptor_open' = FALSE
  /\ accept_op' = IF accept_op = "pending" THEN "error" ELSE accept_op
  /\ Goto(SignalService, "stop_all", NoConn)
  /\ UNCHANGED <<signalled, signal_wait, accepted, connection, manager, todo, pool>>

StopAll ==
  /\ ~terminated
  /\ pc[SignalService] = "stop_all"
  /\ Enter(SignalService)
  /\ todo' = connections_
  /\ Goto(SignalService, "closing", NoConn)
  /\ UNCHANGED <<server, connection, connections_, pool>>

StopAllCloses(c) ==
  /\ ~terminated
  /\ pc[SignalService] = "closing"
  /\ c \in todo
  /\ todo' = todo \ {c}
  /\ CloseSocket(c)
  /\ UNCHANGED <<server, op, replies, manager, pc, conn, pool>>

(* clear() after the loop; a loop over a set that changes may end early.   *)
StopAllClears ==
  /\ ~terminated
  /\ pc[SignalService] = "closing"
  /\ todo = {} \/ raced
  /\ todo' = {}
  /\ Leave(SignalService, {})
  /\ Goto(SignalService, "stop_services", NoConn)
  /\ UNCHANGED <<server, connection, raced, pool>>

(* mutant: the last io_service is not stopped *)
BugSkipsLast(s) ==
  /\ ~terminated
  /\ pc[SignalService] = "stop_services"
  /\ s \notin stopped /\ s < PoolSize - 1
  /\ \A r \in Services: r < s => r \in stopped
  /\ stopped' = stopped \cup {s}
  /\ IF s = PoolSize - 2 THEN Return(SignalService) ELSE UNCHANGED <<pc, conn>>
  /\ UNCHANGED <<server, connection, manager, todo, exited, terminated>>

(* io_service_pool::stop, one service after the other. *)
StopService(s) ==
  /\ ~terminated
  /\ pc[SignalService] = "stop_services"
  /\ s \notin stopped
  /\ \A r \in Services: r < s => r \in stopped
  /\ stopped' = stopped \cup {s}
  /\ IF s = PoolSize - 1 THEN Return(SignalService) ELSE UNCHANGED <<pc, conn>>
  /\ UNCHANGED <<server, connection, manager, todo, exited, terminated>>

(* run() returns once its service is stopped, after the handler it is in;  *)
(* handlers that are queued on it do not run any more.                     *)
ThreadExits(s) ==
  /\ ~terminated
  /\ s \in stopped \ exited
  /\ pc[s] = "idle"
  /\ exited' = exited \cup {s}
  /\ UNCHANGED <<server, connection, manager, handler, stopped, terminated>>

-----------------------------------------------------------------------------
(* The accept handler, on the service of acceptor_.                        *)

HandleAccept ==
  /\ accept_op \in {"ok", "error"}
  /\ Ready(AcceptService)
  /\ accept_op' = "none"
  /\ \/ ~acceptor_open /\ UNCHANGED <<pc, conn>>
     \/ acceptor_open /\ accept_op = "ok" /\ Goto(AcceptService, "insert", accepted)
     \/ acceptor_open /\ accept_op = "error" /\ Goto(AcceptService, "start_accept", NoConn)
  /\ UNCHANGED <<signalled, signal_wait, acceptor_open, accepted, connection, manager, todo, pool>>

(* The socket is moved into a Connection, which start() inserts. *)
StartConnection ==
  /\ ~terminated
  /\ pc[AcceptService] = "insert"
  /\ sock' = [sock EXCEPT ![conn[AcceptService]] = "open"]
  /\ accepted' = NoConn
  /\ Enter(AcceptService)
  /\ Goto(AcceptService, "inserting", conn[AcceptService])
  /\ UNCHANGED <<signalled, signal_wait, acceptor_open, accept_op, op, done, replies, connections_, todo, pool>>

Insert ==
  /\ ~terminated
  /\ pc[AcceptService] = "inserting"
  /\ Leave(AcceptService, connections_ \cup {conn[AcceptService]})
  /\ Goto(AcceptService, "start_read", conn[AcceptService])
  /\ UNCHANGED <<server, connection, raced, todo, pool>>

StartRead ==
  /\ ~terminated
  /\ pc[AcceptService] = "start_read"
  /\ StartOp(conn[AcceptService], "read")
  /\ Goto(AcceptService, "start_accept", NoConn)
  /\ UNCHANGED <<server, sock, replies, manager, todo, pool>>

StartAccept ==
  /\ ~terminated
  /\ pc[AcceptService] = "start_accept"
  /\ accept_op' = IF acceptor_open THEN "pending" ELSE "error"
  /\ Return(AcceptService)
  /\ UNCHANGED <<signalled, signal_wait, acceptor_open, accepted, connection, manager, todo, pool>>

-----------------------------------------------------------------------------
(* Connection::handle_read and handle_write, on the service of the sockets. *)

Completed(c, kind, how) ==
  /\ Ready(SocketService)
  /\ op[c] = kind /\ done[c] = how

Finish(c) ==
  /\ op' = [op EXCEPT ![c] = "none"]
  /\ done' = [done EXCEPT ![c] = "no"]

(* operation_aborted: whoever closed the socket is done with the connection. *)
OpAborted(c) ==
  /\ \E kind \in {"read", "write"}: Completed(c, kind, "aborted")
  /\ Finish(c)
  /\ UNCHANGED <<server, sock, replies, manager, handler, pool>>

(* mutants: a failed connection is closed behind the manager's back, or the *)
(* error is taken for a cancellation                                        *)
BugJustCloses(c) ==
  /\ \E kind \in {"read", "write"}: Completed(c, kind, "error")
  /\ Finish(c)
  /\ sock' = [sock EXCEPT ![c] = "closed"]
  /\ UNCHANGED <<server, replies, manager, handler, pool>>

BugIgnoresError(c) ==
  /\ \E kind \in {"read", "write"}: Completed(c, kind, "error")
  /\ Finish(c)
  /\ UNCHANGED <<server, sock, replies, manager, handler, pool>>

(* Any other error: connection_manager_.stop(shared_from_this()). *)
OpFails(c) ==
  /\ \E kind \in {"read", "write"}: Completed(c, kind, "error")
  /\ Finish(c)
  /\ Goto(SocketService, "stop_conn", c)
  /\ UNCHANGED <<server, sock, replies, manager, todo, pool>>

(* The parser wants more. *)
ReadMore(c) ==
  /\ Completed(c, "read", "ok")
  /\ StartOp(c, "read")
  /\ UNCHANGED <<server, sock, replies, manager, handler, pool>>

Reply(c) ==
  /\ StartOp(c, "write")
  /\ replies' = [replies EXCEPT ![c] = @ + 1]

(* A stock reply: the request does not parse or decode, or has no handler. *)
ReplyStock(c) ==
  /\ Completed(c, "read", "ok")
  /\ Reply(c)
  /\ UNCHANGED <<server, sock, manager, handler, pool>>

(* create() found a handler, which takes its time. *)
Dispatch(c) ==
  /\ Completed(c, "read", "ok")
  /\ Finish(c)
  /\ Goto(SocketService, "handling", c)
  /\ UNCHANGED <<server, sock, replies, manager, todo, pool>>

(* create() throws out of handle_read (a path that is "/" and a key: see   *)
(* TileRequestHandler::matches), and the exception leaves the thread.      *)
CreateThrows(c) ==
  /\ Completed(c, "read", "ok")
  /\ terminated' = TRUE
  /\ UNCHANGED <<server, connection, manager, handler, stopped, exited>>

(* mutants: an exception of the handler leaves the client without a reply,  *)
(* or the connection is stopped while the reply is still being written      *)
BugNoReply ==
  /\ ~terminated
  /\ pc[SocketService] = "handling"
  /\ \/ Reply(conn[SocketService])
     \/ UNCHANGED <<op, done, replies>>
  /\ Return(SocketService)
  /\ UNCHANGED <<server, sock, manager, todo, pool>>

BugStopsAtOnce ==
  /\ ~terminated
  /\ pc[SocketService] = "handling"
  /\ Reply(conn[SocketService])
  /\ Goto(SocketService, "stop_conn", conn[SocketService])
  /\ UNCHANGED <<server, sock, manager, todo, pool>>

(* mutant: the connection is kept for another request *)
BugKeepsAlive(c) ==
  /\ Completed(c, "write", "ok")
  /\ StartOp(c, "read")
  /\ UNCHANGED <<server, sock, replies, manager, handler, pool>>

(* The handler filled in the reply, or threw and reply_ is the stock 500. *)
HandleRequest ==
  /\ ~terminated
  /\ pc[SocketService] = "handling"
  /\ Reply(conn[SocketService])
  /\ Return(SocketService)
  /\ UNCHANGED <<server, sock, manager, todo, pool>>

Written(c) ==
  /\ Completed(c, "write", "ok")
  /\ Finish(c)
  /\ sock' = [sock EXCEPT ![c] = IF @ = "open" THEN "shut" ELSE @]
  /\ Goto(SocketService, "stop_conn", c)
  /\ UNCHANGED <<server, replies, manager, todo, pool>>

(* ConnectionManager::stop: erase, then close. *)
StopConnection ==
  /\ ~terminated
  /\ pc[SocketService] = "stop_conn"
  /\ Enter(SocketService)
  /\ Goto(SocketService, "erasing", conn[SocketService])
  /\ UNCHANGED <<server, connection, connections_, todo, pool>>

Erase ==
  /\ ~terminated
  /\ pc[SocketService] = "erasing"
  /\ Leave(SocketService, connections_ \ {conn[SocketService]})
  /\ Goto(SocketService, "close_conn", conn[SocketService])
  /\ UNCHANGED <<server, connection, raced, todo, pool>>

CloseConnection ==
  /\ ~terminated
  /\ pc[SocketService] = "close_conn"
  /\ CloseSocket(conn[SocketService])
  /\ Return(SocketService)
  /\ UNCHANGED <<server, op, replies, manager, todo, pool>>

-----------------------------------------------------------------------------
AllExited == exited = Services

Outside == AcceptFails \/ Signal \/ RaceCrashes \/ \E c \in Conns: Connect(c) \/ Complete(c)

StopHandler ==
  \/ HandleSignal \/ CloseAcceptor \/ StopAll \/ StopAllClears
  \/ \E c \in Conns: StopAllCloses(c)
  \/ \E s \in Services: StopService(s)

InAcceptHandler == StartConnection \/ Insert \/ StartRead \/ StartAccept

Handled(c) ==
  \/ OpAborted(c) \/ OpFails(c) \/ ReadMore(c) \/ ReplyStock(c)
  \/ Dispatch(c) \/ CreateThrows(c) \/ Written(c)

InConnectionHandler == HandleRequest \/ StopConnection \/ Erase \/ CloseConnection

Ended ==
  /\ AllExited \/ terminated
  /\ UNCHANGED vars

Next ==
  \/ Outside
  \/ StopHandler
  \/ HandleAccept \/ InAcceptHandler
  \/ InConnectionHandler \/ \E c \in Conns: Handled(c)
  \/ \E s \in Services: ThreadExits(s)
  \/ Ended

(* Every thread keeps running its handlers, and a service runs what is     *)
(* queued on it in turn, so no completed operation waits forever for those *)
(* of other connections.  The signal set and the acceptor share their      *)
(* services with nobody when there are three or more.  Nothing is assumed  *)
(* of clients and of signals.                                              *)
Fairness ==
  /\ WF_vars(StopHandler)
  /\ WF_vars(HandleAccept \/ InAcceptHandler)
  /\ WF_vars(InConnectionHandler)
  /\ \A c \in Conns: SF_vars(Handled(c))
  /\ \A s \in Services: WF_vars(ThreadExits(s))

Spec == Init /\ [][Next]_vars
FairSpec == Spec /\ Fairness

-----------------------------------------------------------------------------
Handling(c) == \E s \in Services: conn[s] = c

(* No open connection is forgotten: an operation is outstanding on it or a *)
(* handler is working on it, so that something will answer or close it     *)
(* (the callbacks of connection.cpp each start an operation or stop).      *)
OpenIsServed == \A c \in Conns: Open(c) => op[c] # "none" \/ Handling(c)

(* The set of the connection manager holds the connections that are open:  *)
(* what is open and waiting is registered, and what is registered and      *)
(* closed is only so while stop_all is closing (no data race happened).    *)
RegistryExact ==
  ~raced => \A c \in Conns:
    /\ Open(c) /\ ~Handling(c) => c \in connections_
    /\ c \in connections_ /\ ~Open(c) =>
         \/ pc[SignalService] = "closing"
         \/ Handling(c)

(* A connection gets one reply: handle_read never starts a second write    *)
(* and a request that follows on the same connection is not read.          *)
OneReply == \A c \in Conns: replies[c] <= 1 /\ (op[c] = "read" => replies[c] = 0)

Closing(c) == pc[SocketService] \in {"stop_conn", "erasing", "close_conn"} /\ conn[SocketService] = c

(* However the stop handler and the accept handler interleave, at most one *)
(* connection, the one being accepted, escapes stop_all and is not on its  *)
(* way to be closed by its own handler.                                    *)
AtMostOneEscapes ==
  (~raced /\ stopped # {}) => Cardinality({c \in Conns: Open(c) /\ ~Closing(c)}) <= 1

(* "Manages open connections so that they may be cleanly stopped when the  *)
(* server needs to shut down" (connection_manager.hpp): when every thread  *)
(* has returned, no connection is left open.  With the pool of the program *)
(* this is not so: a connection whose accept handler has found the         *)
(* acceptor open is started after stop_all, see AtMostOneEscapes.          *)
StoppedCleanly == (AllExited /\ ~raced) => \A c \in Conns: ~Open(c)

(* A reply that is being written is cut off by nothing but stop_all: every *)
(* other close of a socket follows the completion of its operation.        *)
OnlyStopCutsReplies ==
  [][\A c \in Conns: Open(c) /\ sock'[c] = "closed" /\ op[c] = "write" /\ done[c] = "no"
       => pc[SignalService] = "closing"]_vars

(* A signal ends every thread, whatever the clients do: the accept loop    *)
(* gives up and no connection keeps a service alive.                       *)
SignalEndsThreads == signalled ~> AllExited \/ terminated

(* A connection whose operation failed is closed and unregistered, unless  *)
(* its service is stopped before (or the process crashed, or the set is    *)
(* corrupt).                                                               *)
FailedIsReleased ==
  \A c \in Conns:
    op[c] # "none" /\ done[c] = "error"
      ~> \/ sock[c] = "closed" /\ c \notin connections_
         \/ SocketService \in stopped \/ terminated \/ raced
=============================================================================
