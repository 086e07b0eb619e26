------------------------------ MODULE Transports ------------------------------
(***************************************************************************)
(* The TCP server (internal/transport/transport.go) and the UDP server     *)
(* (internal/transport/udp.go) over one session manager, from the first    *)
(* connection to the end of main (cmd/server/main.go).                     *)
(*                                                                         *)
(* handleConn serves a TCP connection on a goroutine of its own: it adds   *)
(* the session, handles its lines, and disconnects and removes it.  The    *)
(* UDP server has one readLoop, which opens a session for an unknown       *)
(* address and handles the datagrams of all, and a timeoutLoop, which      *)
(* closes those that were silent for 30 s.  SIGINT or SIGTERM make main    *)
(* stop the TCP server, then the UDP server, then return.                  *)
(*                                                                         *)
(* What a handler does is the subject of Server; any client may fall       *)
(* silent for long, see UDPPeering and Heartbeat for the same clockwork.   *)
(***************************************************************************)
EXTENDS Naturals, FiniteSets

CONSTANTS
    Conns,      \* TCP connections, and the sessions made for them
    Addrs,      \* the addresses of UDP clients
    MaxClients  \* bound: how many UDP sessions are made

ASSUME TransportsAssumption ==
    Addrs # {} /\ MaxClients \in Nat /\ Conns \cap (0..MaxClients) = {}

Clients  == 1..MaxClients
NoClient == 0
Sessions == Conns \cup Clients

VARIABLES
    known,      \* the sessions in the manager
    called,     \* per session: the last of onConnect and onDisconnect called
    stage,      \* how far the goroutine of a connection has come
    socket,     \* whether the remote side of a connection is there
    accepting,  \* acceptLoop has not returned
    made,       \* UDP sessions made so far
    addr,       \* the address of each
    clients,    \* s.clients
    addrToSess, \* s.addrToSess, NoClient when the address has no entry
    old,        \* clients not heard of for more than udpClientTimeout
    reading,    \* the datagram readLoop has in hand, if any
    evicted,    \* sessions timeoutLoop has still to close
    loops,      \* the goroutines of the UDP server that have not returned
    main,       \* how far main has come
    late        \* history: sessions with a request begun after onDisconnect

tcpVars == <<stage, socket, accepting>>
tables  == <<made, addr, clients, addrToSess>>
udpVars == <<tables, old, reading, evicted, loops>>
vars == <<known, called, tcpVars, udpVars, main, late>>

Stage == {"none", "accepted", "added", "reading", "handling", "leaving", "left", "ended"}
Loops == {"readLoop", "writeLoop", "timeoutLoop"}
Main  == {"serving", "stopping TCP", "stopping UDP", "exited"}

Init ==
    /\ known = {}
    /\ called = [s \in Sessions |-> "nothing"]
    /\ stage = [c \in Conns |-> "none"]
    /\ socket = [c \in Conns |-> "open"]
    /\ accepting = TRUE
    /\ made = 0
    /\ addr = [s \in Clients |-> CHOOSE a \in Addrs : TRUE]
    /\ clients = {}
    /\ addrToSess = [a \in Addrs |-> NoClient]
    /\ old = {}
    /\ reading = {}
    /\ evicted = {}
    /\ loops = Loops
    /\ main = "serving"
    /\ late = {}

OnConnect(s)    == called' = [called EXCEPT ![s] = "connect"]
OnDisconnect(s) == called' = [called EXCEPT ![s] = "disconnect"]

-----------------------------------------------------------------------------
(* The TCP server *)

Reach(c, st) == stage' = [stage EXCEPT ![c] = st]

\* The stopChan of the TCP server is closed.
TCPStopped == main # "serving"

\* A variant: the loop looks for a line only.
NextRoundUnchecked(c) == Reach(c, "reading")

\* The loop of handleConn looks at stopChan before it waits for a line.
NextRound(c) == Reach(c, IF TCPStopped THEN "leaving" ELSE "reading")

Accept(c) ==
    /\ accepting
    /\ ~TCPStopped
    /\ stage[c] = "none"
    /\ Reach(c, "accepted")
    /\ UNCHANGED <<known, called, socket, accepting, udpVars, main, late>>

AddSession(c) ==
    /\ stage[c] = "accepted"
    /\ known' = known \cup {c}
    /\ Reach(c, "added")
    /\ UNCHANGED <<called, socket, accepting, udpVars, main, late>>

Enter(c) ==
    /\ stage[c] = "added"
    /\ OnConnect(c)
    /\ NextRound(c)
    /\ UNCHANGED <<known, socket, accepting, udpVars, main, late>>

\* A line arrives, and is handled unless it is no JSON.
ReadLine(c) ==
    /\ stage[c] = "reading"
    /\ socket[c] = "open"
    /\ Reach(c, "handling") \/ NextRound(c)
    /\ UNCHANGED <<known, called, socket, accepting, udpVars, main, late>>

HandleLine(c) ==
    /\ stage[c] = "handling"
    /\ NextRound(c)
    /\ UNCHANGED <<known, called, socket, accepting, udpVars, main, late>>

\* ReadBytes fails.
ReadError(c) ==
    /\ stage[c] = "reading"
    /\ socket[c] = "shut"
    /\ Reach(c, "leaving")
    /\ UNCHANGED <<known, called, socket, accepting, udpVars, main, late>>

Disconnect(c) ==
    /\ stage[c] = "leaving"
    /\ OnDisconnect(c)
    /\ Reach(c, "left")
    /\ UNCHANGED <<known, socket, accepting, udpVars, main, late>>

\* manager.Remove, conn.Close and wg.Done.
End(c) ==
    /\ stage[c] = "left"
    /\ known' = known \ {c}
    /\ Reach(c, "ended")
    /\ UNCHANGED <<called, socket, accepting, udpVars, main, late>>

\* The client ends the connection, or it breaks.
Shut(c) ==
    /\ stage[c] # "none"
    /\ socket[c] = "open"
    /\ socket' = [socket EXCEPT ![c] = "shut"]
    /\ UNCHANGED <<known, called, stage, accepting, udpVars, main, late>>

AcceptLoopEnds ==
    /\ accepting
    /\ TCPStopped
    /\ accepting' = FALSE
    /\ UNCHANGED <<known, called, stage, socket, udpVars, main, late>>

-----------------------------------------------------------------------------
(* The UDP server *)

UDPStopped == main \in {"stopping UDP", "exited"}

\* ReadFromUDP has returned a datagram.
Receive(a) ==
    /\ "readLoop" \in loops
    /\ reading = {}
    /\ ~UDPStopped
    /\ made < MaxClients
    /\ reading' = {[from |-> a, client |-> NoClient, step |-> "read"]}
    /\ UNCHANGED <<known, called, tcpVars, tables, old, evicted, loops, main, late>>

\* handleDatagram with s.mu held: the client of the address, or a new one.
Lookup ==
    /\ \E r \in reading :
          /\ r.step = "read"
          /\ IF addrToSess[r.from] = NoClient
               THEN LET s == made + 1
                    IN  /\ made' = s
                        /\ addr' = [addr EXCEPT ![s] = r.from]
                        /\ clients' = clients \cup {s}
                        /\ addrToSess' = [addrToSess EXCEPT ![r.from] = s]
                        /\ known' = known \cup {s}
                        /\ reading' = {[r EXCEPT !.client = s, !.step = "new"]}
               ELSE /\ reading' = {[r EXCEPT !.client = addrToSess[r.from],
                                             !.step = "found"]}
                    /\ UNCHANGED <<known, tables>>
    /\ UNCHANGED <<called, tcpVars, old, evicted, loops, main, late>>

Welcome ==
    /\ \E r \in reading :
          /\ r.step = "new"
          /\ OnConnect(r.client)
          /\ reading' = {[r EXCEPT !.step = "found"]}
    /\ UNCHANGED <<known, tcpVars, tables, old, evicted, loops, main, late>>

\* touch, and the call of the handler unless it is a ping or no JSON.
BeginDatagram ==
    /\ \E r \in reading :
          /\ r.step = "found"
          /\ old' = old \ {r.client}
          /\ \/ reading' = {} /\ UNCHANGED late
             \/ /\ reading' = {[r EXCEPT !.step = "handling"]}
                /\ late' = IF called[r.client] = "disconnect"
                             THEN late \cup {r.client} ELSE late
    /\ UNCHANGED <<known, called, tcpVars, tables, evicted, loops, main>>

HandleDatagram ==
    /\ \E r \in reading : r.step = "handling"
    /\ reading' = {}
    /\ UNCHANGED <<known, called, tcpVars, tables, old, evicted, loops, main, late>>

\* A client is silent for longer than the timeout; nothing is so slow between
\* making the entry and calling onConnect.
GrowOld(s) ==
    /\ s \in clients \ old
    /\ called[s] = "connect"
    /\ old' = old \cup {s}
    /\ UNCHANGED <<known, called, tcpVars, tables, reading, evicted, loops, main, late>>

\* A variant: the entry of the address is left behind.
EvictFromOneTable ==
    /\ "timeoutLoop" \in loops
    /\ evicted = {}
    /\ old \cap clients # {}
    /\ evicted' = old \cap clients
    /\ clients' = clients \ old
    /\ UNCHANGED <<known, called, tcpVars, made, addr, addrToSess, old, reading, loops, main, late>>

\* evictExpired, with s.mu held ...
EvictExpired ==
    /\ "timeoutLoop" \in loops
    /\ evicted = {}
    /\ old \cap clients # {}
    /\ evicted' = old \cap clients
    /\ clients' = clients \ old
    /\ addrToSess' = [a \in Addrs |-> IF \E s \in evicted' : addr[s] = a
                                        THEN NoClient ELSE addrToSess[a]]
    /\ UNCHANGED <<known, called, tcpVars, made, addr, old, reading, loops, main, late>>

\* ... and without it, for one session after the other: onDisconnect ...
DisconnectEvicted(s) ==
    /\ s \in evicted
    /\ \A x \in evicted : called[x] # "disconnect"
    /\ OnDisconnect(s)
    /\ UNCHANGED <<known, tcpVars, udpVars, main, late>>

\* ... and manager.Remove.
RemoveEvicted(s) ==
    /\ s \in evicted
    /\ called[s] = "disconnect"
    /\ known' = known \ {s}
    /\ evicted' = evicted \ {s}
    /\ UNCHANGED <<called, tcpVars, tables, old, reading, loops, main, late>>

\* A variant: timeoutLoop looks at stopChan between two sessions it closes.
LoopEndsAtOnce(l) ==
    /\ l \in loops
    /\ UDPStopped
    /\ l = "readLoop" => reading = {}
    /\ loops' = loops \ {l}
    /\ UNCHANGED <<known, called, tcpVars, tables, old, reading, evicted, main, late>>

\* A loop looks at stopChan between two rounds.
LoopEnds(l) ==
    /\ l \in loops
    /\ UDPStopped
    /\ l = "readLoop" => reading = {}
    /\ l = "timeoutLoop" => evicted = {}
    /\ loops' = loops \ {l}
    /\ UNCHANGED <<known, called, tcpVars, tables, old, reading, evicted, main, late>>

-----------------------------------------------------------------------------
(* main *)

Proceed(from, to) ==
    /\ main = from
    /\ main' = to
    /\ UNCHANGED <<known, called, tcpVars, udpVars, late>>

\* A signal; tcpSrv.Stop closes its stopChan and its listener.
Signal == Proceed("serving", "stopping TCP")

\* A variant: Stop does not wait.
TCPStopsAtOnce == Proceed("stopping TCP", "stopping UDP")

\* Its WaitGroup is empty; udpSrv.Stop closes its stopChan and its socket.
TCPStops ==
    /\ ~accepting
    /\ \A c \in Conns : stage[c] \in {"none", "ended"}
    /\ Proceed("stopping TCP", "stopping UDP")

\* Its WaitGroup is empty; main returns, by way of proj.Stop and r.Close.
UDPStops ==
    /\ loops = {}
    /\ Proceed("stopping UDP", "exited")

-----------------------------------------------------------------------------
Serve(c) == AddSession(c) \/ Enter(c) \/ HandleLine(c) \/ ReadError(c)
            \/ Disconnect(c) \/ End(c)
ReadLoop == Lookup \/ Welcome \/ BeginDatagram \/ HandleDatagram \/ LoopEnds("readLoop")
TimeoutLoop == EvictExpired \/ LoopEnds("timeoutLoop")
               \/ \E s \in Clients : DisconnectEvicted(s) \/ RemoveEvicted(s)

Next ==
    \/ \E c \in Conns : Accept(c) \/ ReadLine(c) \/ Shut(c) \/ Serve(c)
    \/ AcceptLoopEnds
    \/ \E a \in Addrs : Receive(a)
    \/ \E s \in Clients : GrowOld(s)
    \/ ReadLoop \/ TimeoutLoop \/ LoopEnds("writeLoop")
    \/ Signal \/ TCPStops \/ UDPStops

Spec == Init /\ [][Next]_vars

\* Goroutines are scheduled and handlers return; main goes on once it was
\* signalled.  Nothing is assumed of the clients.
Fairness ==
    /\ \A c \in Conns : WF_vars(Serve(c))
    /\ WF_vars(AcceptLoopEnds)
    /\ WF_vars(ReadLoop)
    /\ WF_vars(TimeoutLoop)
    /\ WF_vars(LoopEnds("writeLoop"))
    /\ WF_vars(TCPStops \/ UDPStops)

FairSpec == Spec /\ Fairness

=============================================================================
