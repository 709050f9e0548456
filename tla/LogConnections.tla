--------------------------- MODULE LogConnections ---------------------------
(***************************************************************************)
(* The connection manager of the modem log (cplog_connmgr/1.0/default).    *)
(* The framework's calls run on one binder thread; a daemon thread polls   *)
(* the sockets, runs the timers and calls the handlers.  The binder thread *)
(* asks it through a socket pair to register and unregister handlers, and  *)
(* waits for the answer before it deletes one; the sockets to be retried   *)
(* and the timers are shared without a lock.                               *)
(*                                                                         *)
(* "modemd" stands for the two sockets with a CpStateHandler, "time" for   *)
(* the one with a CpTimeHandler.                                           *)
(***************************************************************************)
EXTENDS Integers, FiniteSets, Sequences, SequencesExt

CONSTANTS
  MaxHandlers,   (* bound: handlers created                                  *)
  MaxCalls,      (* bound: calls of the framework                            *)
  MaxTimers,     (* bound: reconnect timers pending at once                  *)
  MaxEvents      (* bound: data, hang-ups and new clients of the peers       *)

Sockets  == {"modemd", "time"}
Handlers == 1..MaxHandlers
None     == 0
NoClose  == [s |-> "none", h |-> None]
ClientManager   == -1        \* the handlers that are always there
RequestsManager == -2

VARIABLES
  slot,        \* modem_state_ (or wcn_state_), time_hdl_
  kind, conn,  \* each handler: what it serves; m_fd is "none", "open", "data" or "eof"
  gone,        \* handlers deleted
  sockets,     \* sockets_: those that wait for reconnection
  timers,      \* reconnection timers pending
  handlerTimers, \* handlers whose own timer is pending
  requests, answers, \* the socket pair
  closing,     \* the close the binder thread waits for: its socket, and the handler sent
  polling_hdl, current, ready, \* Multiplexer: handlers, those polled, those with events
  phase, timed,  \* where the poll loop is, and whether its poll has a timeout
  due, dueHandlers, \* timers of this run
  waiting,     \* clients to be accepted
  told,        \* handlers whose end the framework has been told, with how often
  misused,     \* history: handlers used after they were deleted
  revived,     \* history: handlers with a timer when they were unregistered
  calls, events

connVars == <<slot, kind, conn, gone, sockets, timers, handlerTimers, requests, answers, closing,
              polling_hdl, current, ready, phase, timed, due, dueHandlers, waiting, told, misused,
              revived, calls, events>>
loopVars   == <<polling_hdl, current, ready, phase, timed, due, dueHandlers>>
worldVars  == <<waiting, told, misused, revived>>
boundVars  == <<calls, events>>

\* ConnectControl::init: the manager of clients and the daemon's own are registered.
Init ==
  /\ slot = [s \in Sockets |-> None] /\ kind = <<>> /\ conn = <<>> /\ gone = {}
  /\ sockets = {} /\ timers = 0 /\ handlerTimers = {}
  /\ requests = <<>> /\ answers = 0 /\ closing = NoClose
  /\ polling_hdl = <<ClientManager, RequestsManager>> /\ current = <<>> /\ ready = {}
  /\ phase = "prepare" /\ timed = FALSE /\ due = 0 /\ dueHandlers = {}
  /\ waiting = 0 /\ told = <<>> /\ misused = {} /\ revived = {}
  /\ calls = 0 /\ events = 0

Created == DOMAIN kind
Fresh   == Len(kind) + 1

---------------------------------------------------------------------------
(* The binder thread *)

\* The second half of process_socket_connect for sockets that could be opened, one after
\* the other: a handler each, which the daemon is asked to register.
HandlersFor(order) ==
  LET id(s) == Len(kind) + CHOOSE i \in DOMAIN order : order[i] = s
  IN  /\ Len(kind) + Len(order) <= MaxHandlers
      /\ kind' = kind \o order
      /\ conn' = conn \o [i \in DOMAIN order |-> "open"]
      /\ told' = told \o [i \in DOMAIN order |-> 0]
      /\ slot' = [s \in Sockets |-> IF s \in ToSet(order) THEN id(s) ELSE slot[s]]
      /\ requests' = requests \o [i \in DOMAIN order |-> [type |-> "register", h |-> Len(kind) + i]]

\* socketConnect: a socket that cannot be opened is to be retried.  The framework does not
\* ask again for a socket that is connected or to be retried.
SocketConnect(s) ==
  /\ slot[s] = None /\ s \notin sockets
  /\ closing = NoClose /\ calls < MaxCalls /\ calls' = calls + 1
  /\ \/ /\ HandlersFor(<<s>>) /\ UNCHANGED <<sockets, timers>>
     \/ /\ timers < MaxTimers /\ timers' = timers + 1 /\ sockets' = sockets \cup {s}
        /\ UNCHANGED <<kind, conn, told, slot, requests>>
  /\ UNCHANGED <<gone, handlerTimers, answers, closing, loopVars, waiting, misused, revived, events>>

\* socketClose and unregister_request: the handler, which may be null, is sent to the daemon.
SocketClose(s) ==
  /\ closing = NoClose /\ calls < MaxCalls /\ calls' = calls + 1
  /\ requests' = Append(requests, [type |-> "unregister", h |-> slot[s]])
  /\ closing' = [s |-> s, h |-> slot[s]]
  /\ UNCHANGED <<slot, kind, conn, gone, sockets, timers, handlerTimers, answers, loopVars,
                 worldVars, events>>

\* unregister_fd: the first entry of a handler is erased.
Without(q, h) ==
  IF h \in ToSet(q) THEN RemoveAt(q, CHOOSE i \in DOMAIN q : q[i] = h) ELSE q

\* The answer is there: delete, with the destructors of CpStateHandler and FdHandler.
DeleteHandler ==
  /\ closing # NoClose /\ answers > 0
  /\ LET h == slot[closing.s] IN
       /\ gone' = gone \cup {h} /\ handlerTimers' = handlerTimers \ {h}
       /\ dueHandlers' = dueHandlers \ {h}
       /\ IF conn[h] = "none" THEN UNCHANGED <<polling_hdl, ready>>
          ELSE polling_hdl' = Without(polling_hdl, h) /\ ready' = ready \ {h}
       /\ conn' = [conn EXCEPT ![h] = "none"]
  /\ slot' = [slot EXCEPT ![closing.s] = None] /\ closing' = NoClose /\ answers' = answers - 1
  /\ UNCHANGED <<kind, sockets, timers, requests, current, phase, timed, due, worldVars, boundVars>>

---------------------------------------------------------------------------
(* The daemon: Multiplexer::run *)

\* prepare_polling_array asks each handler for its descriptor.
Prepare ==
  /\ phase = "prepare" /\ phase' = "poll"
  /\ current' = polling_hdl /\ ready' = {}
  /\ timed' = (timers > 0 \/ handlerTimers # {})
  /\ misused' = misused \cup (ToSet(polling_hdl) \cap gone)
  /\ UNCHANGED <<slot, kind, conn, gone, sockets, timers, handlerTimers, requests, answers,
                 closing, polling_hdl, due, dueHandlers, waiting, told, revived, boundVars>>

Readable(h) == \/ h = ClientManager /\ waiting > 0
               \/ h = RequestsManager /\ requests # <<>>
               \/ h \in Created /\ conn[h] \in {"data", "eof"}

\* poll returns, and the timers whose time has come are run, the new ones not among them.
Poll ==
  /\ phase = "poll" /\ phase' = "timers"
  /\ ready' = {h \in ToSet(current) : Readable(h)}
  /\ ready' # {} \/ timed
  /\ due' \in 0..timers /\ dueHandlers' \in SUBSET handlerTimers
  /\ UNCHANGED <<slot, kind, conn, gone, sockets, timers, handlerTimers, requests, answers,
                 closing, polling_hdl, current, timed, worldVars, boundVars>>

\* In which order sockets are tried: that of the framework's descriptors for them.
Orders == {<<>>, <<"modemd">>, <<"time">>, <<"modemd", "time">>, <<"time", "modemd">>}

\* socket_reconnect: every waiting socket is tried; those that are open now wait no longer,
\* each of the others gets a timer of its own.
\* Mutant: a socket that fails again gets no timer.
OneTimerLess(failed) == timers - 1
NewTimers(failed)    == timers - 1 + Cardinality(failed)

SocketReconnect ==
  /\ phase = "timers" /\ due > 0 /\ due' = due - 1
  /\ \E open \in Orders :
       /\ ToSet(open) \subseteq sockets
       /\ HandlersFor(open) /\ sockets' = sockets \ ToSet(open)
       /\ timers' = NewTimers(sockets') /\ timers' <= MaxTimers
  /\ UNCHANGED <<gone, handlerTimers, answers, closing, polling_hdl, current, ready, phase, timed,
                 dueHandlers, waiting, misused, revived, boundVars>>

\* process_reconn of a handler: it is connected and registered again; it is connected, but
\* its descriptor cannot be set up, and it is closed for good; or it gets a timer.
Reconnects(h) ==
  \/ /\ conn' = [conn EXCEPT ![h] = "open"]
     /\ polling_hdl' = Append(Without(polling_hdl, h), h)
     /\ handlerTimers' = handlerTimers \ {h}
  \/ /\ conn' = [conn EXCEPT ![h] = "none"]
     /\ polling_hdl' = Without(polling_hdl, h)
     /\ handlerTimers' = handlerTimers \ {h}
  \/ /\ conn' = [conn EXCEPT ![h] = "none"]
     /\ polling_hdl' = Without(polling_hdl, h)
     /\ handlerTimers' = handlerTimers \cup {h}

\* connect_server
ConnectServer ==
  /\ phase = "timers"
  /\ \E h \in dueHandlers :
       /\ dueHandlers' = dueHandlers \ {h}
       /\ misused' = misused \cup ({h} \cap gone)
       /\ IF h \in gone THEN UNCHANGED <<conn, polling_hdl, handlerTimers>> ELSE Reconnects(h)
  /\ UNCHANGED <<slot, kind, gone, sockets, timers, requests, answers, closing, current, ready,
                 phase, timed, due, waiting, told, revived, boundVars>>

TimersRun ==
  /\ phase = "timers" /\ due = 0 /\ dueHandlers = {} /\ phase' = "events"
  /\ UNCHANGED <<slot, kind, conn, gone, sockets, timers, handlerTimers, requests, answers,
                 closing, polling_hdl, current, ready, timed, due, dueHandlers, worldVars, boundVars>>

\* The handlers with events are called in order.
Called(h) ==
  /\ phase = "events" /\ current # <<>> /\ Head(current) = h /\ h \in ready
  /\ current' = Tail(current)

NextEntry ==
  /\ phase = "events"
  /\ IF current = <<>> THEN phase' = "prepare" /\ UNCHANGED <<current, misused>>
     ELSE /\ Head(current) \notin ready \/ Head(current) \in gone
          /\ misused' = misused \cup ({Head(current)} \cap ready \cap gone)
          /\ current' = Tail(current) /\ UNCHANGED phase
  /\ UNCHANGED <<slot, kind, conn, gone, sockets, timers, handlerTimers, requests, answers,
                 closing, polling_hdl, ready, timed, due, dueHandlers, waiting, told, revived,
                 boundVars>>

\* remove_cur_handler.
EntryRemoved(h) == ready \ {h}

\* SchedAndServiceManager::process reads one request.  A null handler gets no answer.
ProcessRequest ==
  /\ Called(RequestsManager)
  /\ LET r == Head(requests)
         served == r.type = "unregister" /\ r.h # None
     IN  /\ requests' = Tail(requests)
         /\ polling_hdl' = IF served THEN Without(polling_hdl, r.h)
                           ELSE IF r.type = "register" /\ r.h \notin ToSet(polling_hdl)
                           THEN Append(polling_hdl, r.h) ELSE polling_hdl
         /\ ready' = IF served THEN EntryRemoved(r.h) ELSE ready
         /\ answers' = IF served THEN answers + 1 ELSE answers
         /\ revived' = revived \cup (IF served THEN {r.h} \cap handlerTimers ELSE {})
  /\ UNCHANGED <<slot, kind, conn, gone, sockets, timers, handlerTimers, closing, phase, timed, due,
                 dueHandlers, waiting, told, misused, boundVars>>

\* ClientManager::process
AcceptClient ==
  /\ Called(ClientManager) /\ Fresh <= MaxHandlers
  /\ waiting' = waiting - 1
  /\ kind' = Append(kind, "client") /\ conn' = Append(conn, "open") /\ told' = Append(told, 0)
  /\ polling_hdl' = Append(polling_hdl, Fresh)
  /\ UNCHANGED <<slot, gone, sockets, timers, handlerTimers, requests, answers, closing, ready, phase,
                 timed, due, dueHandlers, misused, revived, boundVars>>

\* Data is passed to the framework's callback, whoever sent it.
ProcessData(h) ==
  /\ Called(h) /\ h \notin gone /\ conn[h] = "data" /\ conn' = [conn EXCEPT ![h] = "open"]
  /\ UNCHANGED <<slot, kind, gone, sockets, timers, handlerTimers, requests, answers, closing,
                 polling_hdl, ready, phase, timed, due, dueHandlers, worldVars, boundVars>>

\* process_close of a CpStateHandler: it connects again.
StateClosed(h) ==
  /\ Called(h) /\ h \notin gone /\ conn[h] = "eof" /\ kind[h] = "modemd"
  /\ Reconnects(h)
  /\ UNCHANGED <<slot, kind, gone, sockets, timers, requests, answers, closing, ready, phase,
                 timed, due, dueHandlers, worldVars, boundVars>>

\* process_close of a CpTimeHandler: it waits to be closed.
TimeClosed(h) ==
  /\ Called(h) /\ h \notin gone /\ conn[h] = "eof" /\ kind[h] = "time"
  /\ conn' = [conn EXCEPT ![h] = "none"] /\ polling_hdl' = Without(polling_hdl, h)
  /\ UNCHANGED <<slot, kind, gone, sockets, timers, handlerTimers, requests, answers, closing, ready,
                 phase, timed, due, dueHandlers, worldVars, boundVars>>

\* process_conn_closed of a ClientHandler: onSocketclose, and the handler deletes itself.
ClientClosed(h) ==
  /\ Called(h) /\ h \notin gone /\ conn[h] = "eof" /\ kind[h] = "client"
  /\ told' = [told EXCEPT ![h] = @ + 1] /\ gone' = gone \cup {h}
  /\ conn' = [conn EXCEPT ![h] = "none"]
  /\ polling_hdl' = Without(polling_hdl, h) /\ ready' = ready \ {h}
  /\ UNCHANGED <<slot, kind, sockets, timers, handlerTimers, requests, answers, closing, phase,
                 timed, due, dueHandlers, waiting, misused, revived, boundVars>>

---------------------------------------------------------------------------
(* The peers *)

PeerSends ==
  /\ events < MaxEvents /\ events' = events + 1
  /\ \E h \in Created, c \in {"data", "eof"} :
       conn[h] = "open" /\ conn' = [conn EXCEPT ![h] = c]
  /\ UNCHANGED <<slot, kind, gone, sockets, timers, handlerTimers, requests, answers, closing,
                 loopVars, worldVars, calls>>

ClientComes ==
  /\ events < MaxEvents /\ events' = events + 1 /\ waiting = 0 /\ waiting' = 1
  /\ UNCHANGED <<slot, kind, conn, gone, sockets, timers, handlerTimers, requests, answers, closing,
                 loopVars, told, misused, revived, calls>>

Next ==
  \/ \E s \in Sockets : SocketConnect(s) \/ SocketClose(s)
  \/ DeleteHandler
  \/ Prepare \/ Poll \/ SocketReconnect \/ ConnectServer \/ TimersRun
  \/ ProcessRequest \/ AcceptClient \/ NextEntry
  \/ \E h \in Created : ProcessData(h) \/ StateClosed(h) \/ TimeClosed(h) \/ ClientClosed(h)
  \/ PeerSends \/ ClientComes

Spec == Init /\ [][Next]_connVars

---------------------------------------------------------------------------
TypeOK ==
  /\ Created \subseteq Handlers /\ DOMAIN conn = Created /\ DOMAIN told = Created
  /\ slot \in [Sockets -> Created \cup {None}]
  /\ gone \cup handlerTimers \cup misused \subseteq Created
  /\ sockets \subseteq Sockets /\ timers \in 0..MaxTimers /\ answers \in 0..1

\* A handler is never used after the binder thread has deleted it, though the poll loop goes
\* through a list it made before: the thread deletes only what the loop has let go.  (A
\* handler that waited for its own reconnection when it was unregistered may come back
\* between the answer and its deletion.)
NoneUsedAfterwards == misused \subseteq revived

\* A socket that waits to be opened has a timer that will try it.  (A handler that could not
\* connect again has one of its own, but not after its descriptor could not be set up.)
RetryPending == sockets # {} => timers > 0

\* The end of a client is told once, when its handler goes; and a close of a socket with a
\* handler has its request or its answer under way.  (One without is never answered.)
EndsTold ==
  /\ \A h \in Created : kind[h] = "client" => told[h] = IF h \in gone THEN 1 ELSE 0
  /\ closing.h # None =>
       answers + Cardinality({i \in DOMAIN requests :
                   requests[i].type = "unregister" /\ requests[i].h = closing.h}) = 1

ConnectionsKept == NoneUsedAfterwards /\ RetryPending /\ EndsTold
=============================================================================
