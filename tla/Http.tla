-------------------------------- MODULE Http --------------------------------
(***************************************************************************)
(* Connections of the HTTP server and the clients of its WebSocket hub     *)
(* (api/http_server.c, api/ws_server.c).  Every connection has a thread    *)
(* and, until it is handed to the hub or closed, a place in the list of    *)
(* sockets that a stop shuts down.  Handlers of one kind take turns.       *)
(***************************************************************************)
EXTENDS Integers, FiniteSets

CONSTANTS
    Conns,          \* connections, each one socket
    MaxConn         \* places in the list; 16 in the code

None == "none"
Places == 1 .. MaxConn

VARIABLES
    stopFlag,
    server,         \* "up", then http_server_free: "draining", "hub", "freed"
    active,         \* threads of connections
    connections,    \* the list: a socket or None in each place
    place,          \* the place each thread was given
    thread,         \* where the thread of each connection is
    dispatch,       \* who holds dispatch_mtx
    reader,         \* where the hub's thread of each client is
    clients,        \* the hub's list
    closes          \* history: how often each socket was closed

httpVars == <<stopFlag, server, active, connections, place, thread, dispatch,
              reader, clients, closes>>

Init ==
    /\ stopFlag = FALSE /\ server = "up" /\ active = 0
    /\ connections = [i \in Places |-> None]
    /\ place = [c \in Conns |-> 0]
    /\ thread = [c \in Conns |-> "none"]
    /\ dispatch = None
    /\ reader = [c \in Conns |-> "none"] /\ clients = {}
    /\ closes = [c \in Conns |-> 0]

Go(c, to) == thread' = [thread EXCEPT ![c] = to]
Close(c) == closes' = [closes EXCEPT ![c] = @ + 1]
OpenPlaces == {i \in Places : connections[i] = None}

hub == <<reader, clients>>

-----------------------------------------------------------------------------
\* http_server_serve: the first place that is free, if there are not too
\* many threads.
Accept(c) ==
    /\ server = "up" /\ ~stopFlag /\ thread[c] = "none"
    /\ OpenPlaces # {} /\ active < MaxConn
    /\ LET i == CHOOSE i \in OpenPlaces : \A j \in OpenPlaces : i <= j
       IN  /\ connections' = [connections EXCEPT ![i] = c]
           /\ place' = [place EXCEPT ![c] = i]
    /\ active' = active + 1
    /\ Go(c, "reading")
    /\ UNCHANGED <<stopFlag, server, dispatch, hub, closes>>

TurnAway(c) ==
    /\ server = "up" /\ thread[c] = "none"
    /\ OpenPlaces = {} \/ active >= MaxConn \/ stopFlag
    /\ Go(c, "over") /\ Close(c)
    /\ UNCHANGED <<stopFlag, server, active, connections, place, dispatch, hub>>

\* connection_main: a request was read; a bad one, the end of the socket or
\* a stop leads to the end.
Read(c) ==
    /\ thread[c] = "reading"
    /\ \/ ~stopFlag /\ \E next \in {"turn", "upgrading"} : Go(c, next)
       \/ Go(c, "closing")
    /\ UNCHANGED <<stopFlag, server, active, connections, place, dispatch, hub, closes>>

\* handle_conn_buf, for a request like others: one handler after the other,
\* and none once the server is stopped.
Turn(c) ==
    /\ thread[c] = "turn" /\ dispatch = None /\ dispatch' = c
    /\ Go(c, IF stopFlag THEN "answering" ELSE "handling")
    /\ UNCHANGED <<stopFlag, server, active, connections, place, hub, closes>>

Handled(c) ==
    /\ thread[c] = "handling" /\ Go(c, "answering")
    /\ UNCHANGED <<stopFlag, server, active, connections, place, dispatch, hub, closes>>

Answer(c) ==
    /\ thread[c] = "answering" /\ dispatch' = None
    /\ Go(c, "closing")
    /\ UNCHANGED <<stopFlag, server, active, connections, place, hub, closes>>

\* The routes marked concurrent do not wait for a turn.
Concurrent(c) ==
    /\ thread[c] = "turn" /\ Go(c, "closing")
    /\ UNCHANGED <<stopFlag, server, active, connections, place, dispatch, hub, closes>>

\* Mutated form: the socket stays in the list.
ForgetNothing(c) == connections

\* An upgrade: taken out of the list before the hub has it.
Forget(c) == [i \in Places |-> IF connections[i] = c THEN None ELSE connections[i]]

\* ws_server_accept; it closes the socket when it cannot take the client.
Upgrade(c) ==
    /\ thread[c] = "upgrading"
    /\ IF stopFlag THEN Go(c, "closing") /\ UNCHANGED <<connections, hub, closes>>
       ELSE /\ connections' = Forget(c)
            /\ Go(c, "handed")
            /\ \/ /\ clients' = clients \cup {c}
                  /\ reader' = [reader EXCEPT ![c] = "looping"]
                  /\ UNCHANGED closes
               \/ Close(c) /\ UNCHANGED hub
    /\ UNCHANGED <<stopFlag, server, active, place, dispatch>>

\* Mutated form: whoever has the place now is taken out of the list.
LeaveAnyway(c) == [connections EXCEPT ![place[c]] = None]

\* The place may have been given to another connection after a handover.
Leave(c) ==
    IF connections[place[c]] = c THEN [connections EXCEPT ![place[c]] = None] ELSE connections

\* The end of connection_main.
End(c) ==
    /\ thread[c] \in {"closing", "handed"}
    /\ connections' = Leave(c) /\ active' = active - 1
    /\ IF thread[c] = "closing" THEN Close(c) ELSE UNCHANGED closes
    /\ Go(c, "over")
    /\ UNCHANGED <<stopFlag, server, place, dispatch, hub>>

-----------------------------------------------------------------------------
\* ws_client_loop: the client leaves, sends something wrong, or was closed;
\* the socket is closed, the client removed from the list and freed.
ReaderLeaves(c) ==
    /\ reader[c] = "looping" /\ reader' = [reader EXCEPT ![c] = "removing"]
    /\ Close(c)
    /\ UNCHANGED <<stopFlag, server, active, connections, place, thread, dispatch, clients>>

ReaderRemoves(c) ==
    /\ reader[c] = "removing" /\ reader' = [reader EXCEPT ![c] = "freed"]
    /\ clients' = clients \ {c}
    /\ UNCHANGED <<stopFlag, server, active, connections, place, thread, dispatch, closes>>

-----------------------------------------------------------------------------
\* http_server_stop: every socket in the list is shut down.
StopServer ==
    /\ ~stopFlag /\ stopFlag' = TRUE
    /\ UNCHANGED <<server, active, connections, place, thread, dispatch, hub, closes>>

\* http_server_free: stopped, drained, and then the hub is closed.
FreeBegins ==
    /\ server = "up" /\ stopFlag /\ server' = "draining"
    /\ UNCHANGED <<stopFlag, active, connections, place, thread, dispatch, hub, closes>>

\* Mutated form: the threads are not waited for.
Undrained == server = "draining"

Drained == server = "draining" /\ active = 0

\* ws_server_free closes the clients' sockets; their threads see it and close
\* them again.
FreeHub ==
    /\ Drained /\ server' = "hub"
    /\ closes' = [c \in Conns |-> IF c \in clients THEN closes[c] + 1 ELSE closes[c]]
    /\ UNCHANGED <<stopFlag, active, connections, place, thread, dispatch, hub>>

\* It waits for some time, and whatever is left is freed.
FreeEnds ==
    /\ server = "hub" /\ server' = "freed"
    /\ UNCHANGED <<stopFlag, active, connections, place, thread, dispatch, hub, closes>>

Next ==
    \/ StopServer \/ FreeBegins \/ FreeHub \/ FreeEnds
    \/ \E c \in Conns :
          \/ Accept(c) \/ TurnAway(c) \/ Read(c) \/ Turn(c) \/ Handled(c) \/ Answer(c)
          \/ Concurrent(c) \/ Upgrade(c) \/ End(c) \/ ReaderLeaves(c) \/ ReaderRemoves(c)

Spec == Init /\ [][Next]_httpVars
-----------------------------------------------------------------------------
InList(c) == \E i \in Places : connections[i] = c
Threads == {c \in Conns : thread[c] \notin {"none", "over"}}

\* A stop reaches every connection that is still being read or answered, and
\* shuts down no socket that the hub or the thread itself has closed ("The WS
\* reader may close the socket immediately. Remove it from the HTTP stop list
\* before transferring ownership").
StopListFits ==
    \A c \in Conns :
        /\ c \in Threads /\ thread[c] # "handed" => InList(c)
        /\ InList(c) => closes[c] = 0 /\ c \notin clients

\* The bounded pool counts right, and one handler runs at a time.
HandlersTakeTurns ==
    /\ active = Cardinality(Threads) /\ active <= MaxConn
    /\ Cardinality({c \in Conns : thread[c] = "handling"}) <= 1

\* The server is freed when no connection uses it, and every socket is closed
\* once while the hub is there.
FreedWhenQuiet ==
    /\ server \in {"hub", "freed"} => Threads = {}
    /\ server \in {"up", "draining"} => \A c \in Conns : closes[c] <= 1

HttpSafe == StopListFits /\ HandlersTakeTurns /\ FreedWhenQuiet
=============================================================================
