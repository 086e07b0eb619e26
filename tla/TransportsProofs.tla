--------------------------- MODULE TransportsProofs ---------------------------
(***************************************************************************)
(* Proofs about the transports of server mode, for any set of TCP          *)
(* connections, any set of addresses and any number of UDP sessions.       *)
(***************************************************************************)
EXTENDS TransportsProps, TLAPS

USE TransportsAssumption

-----------------------------------------------------------------------------
(* The inductive invariant *)

\* How far the goroutine of a connection has come decides which callbacks were
\* called and whether the manager knows the session.
ConnFits ==
    \A c \in Conns :
        /\ c \in known <=> stage[c] \in {"added", "reading", "handling", "leaving", "left"}
        /\ called[c] = "nothing" <=> stage[c] \in {"none", "accepted", "added"}
        /\ called[c] = "disconnect" <=> stage[c] \in {"left", "ended"}

\* The tables of the UDP server agree.
TablesAgree ==
    /\ \A s \in clients : addrToSess[addr[s]] = s
    /\ \A a \in Addrs : addrToSess[a] # NoClient =>
          addrToSess[a] \in clients /\ addr[addrToSess[a]] = a

\* The datagram in hand belongs to the session that was looked up, and only
\* readLoop has one.
HandFits ==
    /\ reading # {} => "readLoop" \in loops
    /\ \A r \in reading :
          /\ r.step = "read" => made < MaxClients
          /\ r.step # "read" => r.client \in 1..made
          /\ r.step = "new" => called[r.client] = "nothing"

\* A UDP session is known to the manager from the moment it is made until
\* timeoutLoop is done with it, and onDisconnect comes in between.
ClientFits ==
    /\ evicted # {} => "timeoutLoop" \in loops
    /\ clients \cap evicted = {}
    /\ \A s \in Clients :
          /\ s \in known <=> s \in clients \/ s \in evicted
          /\ s > made => called[s] = "nothing"
          /\ s \in clients => called[s] # "disconnect"
          /\ s \in 1..made \ (clients \cup evicted) => called[s] = "disconnect"
          /\ s \in 1..made /\ called[s] = "nothing" =>
                /\ s \in clients \ old
                /\ \E r \in reading : r.client = s /\ r.step = "new"

\* A request begun after onDisconnect is that of the datagram in hand.
LateFits ==
    \A s \in late :
        /\ s \in Clients /\ called[s] = "disconnect"
        /\ \A r \in reading : r.client = s => r.step = "handling"

\* main waits for one server and then for the other.
MainFits ==
    /\ UDPStopped => ~accepting /\ \A c \in Conns : stage[c] \in {"none", "ended"}
    /\ main = "exited" => loops = {}

Inv ==
    /\ TypeOK
    /\ ConnFits
    /\ TablesAgree
    /\ HandFits
    /\ ClientFits
    /\ LateFits
    /\ MainFits

-----------------------------------------------------------------------------
(* What the steps of one server leave alone in the other *)

LEMMA Disjoint ==
    /\ \A c \in Conns : c \in Sessions /\ c \notin Clients
    /\ \A s \in Clients : s \in Sessions /\ s \notin Conns /\ s \in Nat /\ s # NoClient
    /\ NoClient \notin Conns
BY DEF Sessions, Clients, NoClient

LEMMA TCPFrame ==
    ASSUME Inv, UNCHANGED <<udpVars, late>>,
           \A s \in Clients : called'[s] = called[s] /\ (s \in known' <=> s \in known)
    PROVE  TablesAgree' /\ HandFits' /\ ClientFits' /\ LateFits'
<1>1. UNCHANGED <<made, addr, clients, addrToSess, old, reading, evicted, loops, late>>
  BY DEF udpVars, tables
<1>2. TablesAgree'
  BY <1>1 DEF Inv, TablesAgree
<1>3. HandFits'
  <2>1. 1..made \subseteq Clients
    BY DEF Inv, TypeOK, Clients
  <2>2. QED
    BY <1>1, <2>1 DEF Inv, HandFits
<1>4. ClientFits'
  BY <1>1 DEF Inv, ClientFits
<1>5. LateFits'
  BY <1>1 DEF Inv, LateFits
<1>6. QED
  BY <1>2, <1>3, <1>4, <1>5

LEMMA UDPFrame ==
    ASSUME Inv, UNCHANGED <<tcpVars, main>>, loops' \subseteq loops,
           \A c \in Conns : called'[c] = called[c] /\ (c \in known' <=> c \in known)
    PROVE  ConnFits' /\ MainFits'
<1>1. UNCHANGED <<stage, socket, accepting, main>>
  BY DEF tcpVars
<1>2. ConnFits'
  BY <1>1 DEF Inv, ConnFits
<1>3. MainFits'
  BY <1>1 DEF Inv, MainFits, UDPStopped
<1>4. QED
  BY <1>2, <1>3

-----------------------------------------------------------------------------
(* The steps of the TCP server *)

LEMMA TCPSteps ==
    ASSUME Inv, NEW c \in Conns, Accept(c) \/ ReadLine(c) \/ Shut(c) \/ Serve(c)
    PROVE  Inv'
<1>1. UNCHANGED <<udpVars, main, late>>
  BY DEF Accept, ReadLine, Shut, Serve, AddSession, Enter, HandleLine, ReadError,
         Disconnect, End
<1>2. \A s \in Clients : called'[s] = called[s] /\ (s \in known' <=> s \in known)
  BY Disjoint
     DEF Accept, ReadLine, Shut, Serve, AddSession, Enter, HandleLine, ReadError,
         Disconnect, End, OnConnect, OnDisconnect, Inv, TypeOK
<1>3. TablesAgree' /\ HandFits' /\ ClientFits' /\ LateFits'
  BY <1>1, <1>2, TCPFrame
<1>4. /\ known' \in SUBSET Sessions
      /\ called' \in [Sessions -> {"nothing", "connect", "disconnect"}]
      /\ stage' \in [Conns -> Stage]
      /\ socket' \in [Conns -> {"open", "shut"}]
      /\ UNCHANGED accepting
  <2>1. c \in Sessions
    BY Disjoint
  <2>2. CASE Accept(c) \/ ReadLine(c) \/ Shut(c)
    BY <2>2 DEF Accept, ReadLine, Shut, Reach, NextRound, Inv, TypeOK, Stage
  <2>3. CASE AddSession(c) \/ Enter(c) \/ HandleLine(c)
    BY <2>1, <2>3
       DEF AddSession, Enter, HandleLine, Reach, NextRound, OnConnect, Inv, TypeOK, Stage
  <2>4. CASE ReadError(c) \/ Disconnect(c) \/ End(c)
    BY <2>1, <2>4
       DEF ReadError, Disconnect, End, Reach, OnDisconnect, Inv, TypeOK, Stage
  <2>5. QED
    BY <2>2, <2>3, <2>4 DEF Serve
<1>5. ConnFits'
  <2> SUFFICES ASSUME NEW d \in Conns
               PROVE  ConnFits!(d)'
    BY DEF ConnFits
  <2>1. d \in Sessions /\ c \in Sessions
    BY Disjoint
  <2>2. CASE Accept(c) \/ ReadLine(c) \/ Shut(c)
    BY <2>2 DEF Accept, ReadLine, Shut, Reach, NextRound, Inv, TypeOK, ConnFits
  <2>3. CASE AddSession(c) \/ Enter(c) \/ HandleLine(c)
    BY <2>1, <2>3
       DEF AddSession, Enter, HandleLine, Reach, NextRound, OnConnect, Inv, TypeOK, ConnFits
  <2>4. CASE ReadError(c) \/ Disconnect(c) \/ End(c)
    BY <2>1, <2>4
       DEF ReadError, Disconnect, End, Reach, OnDisconnect, Inv, TypeOK, ConnFits
  <2>5. QED
    BY <2>2, <2>3, <2>4 DEF Serve
<1>6. MainFits'
  <2>1. UDPStopped => /\ TCPStopped
                      /\ \A d \in Conns : stage[d] \in {"none", "ended"}
    BY DEF Inv, MainFits, UDPStopped, TCPStopped
  <2>2. UDPStopped => stage' = stage
    BY <2>1
       DEF Accept, ReadLine, Shut, Serve, AddSession, Enter, HandleLine, ReadError,
           Disconnect, End
  <2>3. UNCHANGED <<main, accepting, loops>>
    BY <1>1, <1>4 DEF udpVars
  <2>4. QED
    BY <2>2, <2>3 DEF Inv, MainFits, UDPStopped
<1>7. TypeOK'
  <2>1. UNCHANGED <<made, addr, clients, addrToSess, old, reading, evicted, loops, main, late>>
    BY <1>1 DEF udpVars, tables
  <2>2. \A d \in Conns :
           called'[d] = "connect" <=> stage'[d] \in {"reading", "handling", "leaving"}
    BY <1>4, <1>5, Disjoint DEF ConnFits, Stage
  <2>3. QED
    BY <1>4, <2>1, <2>2 DEF Inv, TypeOK
<1>8. QED
  BY <1>3, <1>5, <1>6, <1>7 DEF Inv

LEMMA StopSteps ==
    ASSUME Inv, AcceptLoopEnds \/ Signal \/ TCPStops \/ UDPStops \/ UNCHANGED vars
    PROVE  Inv'
<1>1. UNCHANGED <<known, called, stage, socket, udpVars, late>>
  BY DEF AcceptLoopEnds, Signal, TCPStops, UDPStops, Proceed, vars, tcpVars
<1>2. TablesAgree' /\ HandFits' /\ ClientFits' /\ LateFits'
  BY <1>1, TCPFrame
<1>3. TypeOK' /\ ConnFits'
  <2>1. main' \in Main /\ accepting' \in BOOLEAN
    BY DEF AcceptLoopEnds, Signal, TCPStops, UDPStops, Proceed, vars, tcpVars, Inv, TypeOK, Main
  <2>2. QED
    BY <1>1, <2>1 DEF Inv, TypeOK, ConnFits, udpVars, tables
<1>4. MainFits'
  <2>1. UNCHANGED <<stage, loops>>
    BY <1>1 DEF udpVars
  <2>2. CASE AcceptLoopEnds
    <3>1. main' = main /\ ~accepting'
      BY <2>2 DEF AcceptLoopEnds
    <3>2. QED
      BY <2>1, <3>1 DEF Inv, MainFits, UDPStopped
  <2>3. CASE UNCHANGED vars
    <3>1. UNCHANGED <<main, accepting>>
      BY <2>3 DEF vars, tcpVars
    <3>2. QED
      BY <2>1, <3>1 DEF Inv, MainFits, UDPStopped
  <2>4. CASE Signal \/ TCPStops \/ UDPStops
    <3>1. accepting' = accepting
      BY <2>4 DEF Signal, TCPStops, UDPStops, Proceed, tcpVars
    <3>2. \/ main' = "stopping TCP"
          \/ /\ main' = "stopping UDP" /\ ~accepting
             /\ \A c \in Conns : stage[c] \in {"none", "ended"}
          \/ main' = "exited" /\ UDPStopped /\ loops = {}
      BY <2>4 DEF Signal, TCPStops, UDPStops, Proceed, UDPStopped
    <3>3. QED
      BY <2>1, <3>1, <3>2 DEF Inv, MainFits, UDPStopped
  <2>5. QED
    BY <2>2, <2>3, <2>4
<1>5. QED
  BY <1>2, <1>3, <1>4 DEF Inv

-----------------------------------------------------------------------------
(* The steps of the UDP server *)

LEMMA LookupStep ==
    ASSUME Inv, Lookup
    PROVE  Inv'
<1>1. PICK r \in reading :
         /\ r.step = "read"
         /\ IF addrToSess[r.from] = NoClient
              THEN /\ made' = made + 1
                   /\ addr' = [addr EXCEPT ![made + 1] = r.from]
                   /\ clients' = clients \cup {made + 1}
                   /\ addrToSess' = [addrToSess EXCEPT ![r.from] = made + 1]
                   /\ known' = known \cup {made + 1}
                   /\ reading' = {[r EXCEPT !.client = made + 1, !.step = "new"]}
              ELSE /\ reading' = {[r EXCEPT !.client = addrToSess[r.from],
                                            !.step = "found"]}
                   /\ UNCHANGED <<known, tables>>
  BY DEF Lookup
<1>2. UNCHANGED <<called, tcpVars, old, evicted, loops, main, late>>
  BY DEF Lookup
<1>3. /\ r \in [from : Addrs, client : 0..made, step : {"read", "new", "found", "handling"}]
      /\ reading = {r} /\ r.from \in Addrs
      /\ made \in Nat /\ made < MaxClients
      /\ "readLoop" \in loops
  BY <1>1 DEF Inv, TypeOK, HandFits
<1>4. CASE addrToSess[r.from] = NoClient
  <2> DEFINE n == made + 1
  <2>1. /\ n \in Clients /\ n \in 1..n /\ n # NoClient /\ n \notin 1..made /\ n > made
        /\ 1..made \subseteq 1..n /\ \A s \in 1..n : s = n \/ s \in 1..made
        /\ n \in 0..MaxClients /\ n \in 0..n
    BY <1>3 DEF Clients, NoClient
  <2>2. /\ made' = n
        /\ addr' = [addr EXCEPT ![n] = r.from]
        /\ clients' = clients \cup {n}
        /\ addrToSess' = [addrToSess EXCEPT ![r.from] = n]
        /\ known' = known \cup {n}
        /\ reading' = {[r EXCEPT !.client = n, !.step = "new"]}
    BY <1>1, <1>4
  <2> HIDE DEF n
  <2> DEFINE q == [r EXCEPT !.client = n, !.step = "new"]
  <2>3. /\ q \in [from : Addrs, client : 0..n, step : {"read", "new", "found", "handling"}]
        /\ q.client = n /\ q.step = "new" /\ reading' = {q}
    BY <1>3, <2>1, <2>2
  <2>4. /\ n \notin clients /\ n \notin evicted /\ n \notin old
        /\ called[n] = "nothing" /\ n \notin late
    <3>1. n \notin clients /\ n \notin evicted /\ n \notin old
      BY <2>1 DEF n, Inv, TypeOK
    <3>2. called[n] = "nothing"
      BY <2>1 DEF n, Inv, ClientFits
    <3>3. n \notin late
      BY <3>2 DEF Inv, LateFits
    <3>4. QED
      BY <3>1, <3>2, <3>3
  <2>5. 1..made \subseteq Clients
    BY <1>3 DEF Clients
  <2> HIDE DEF q
  <2>6. TypeOK'
    <3>1. /\ made' \in 0..MaxClients
          /\ addr' \in [Clients -> Addrs]
          /\ clients' \in SUBSET (1..made')
          /\ addrToSess' \in [Addrs -> 0..MaxClients]
          /\ reading' \in SUBSET [from : Addrs, client : 0..made',
                                  step : {"read", "new", "found", "handling"}]
          /\ \A x, y \in reading' : x = y
      BY <1>3, <2>1, <2>2, <2>3 DEF Inv, TypeOK
    <3>2. known' \in SUBSET Sessions /\ old' \in SUBSET (1..made') /\ evicted' \in SUBSET (1..made')
      BY <1>2, <2>1, <2>2, <2>3, Disjoint DEF Inv, TypeOK
    <3>3. QED
      BY <1>2, <3>1, <3>2 DEF Inv, TypeOK, tcpVars
  <2>7. TablesAgree'
    <3>1. \A s \in clients : addr[s] # r.from /\ s # n /\ s # NoClient
      BY <1>4, <2>4, <2>5, Disjoint DEF Inv, TypeOK, TablesAgree
    <3>2. \A s \in clients' : addrToSess'[addr'[s]] = s
      BY <1>3, <2>1, <2>2, <2>3, <2>5, <3>1 DEF Inv, TypeOK, TablesAgree
    <3>3. ASSUME NEW a \in Addrs, addrToSess'[a] # NoClient
          PROVE  addrToSess'[a] \in clients' /\ addr'[addrToSess'[a]] = a
      BY <1>3, <2>1, <2>2, <2>3, <2>5, <3>1, <3>3 DEF Inv, TypeOK, TablesAgree
    <3>4. QED
      BY <3>2, <3>3 DEF TablesAgree
  <2>8. HandFits'
    BY <1>2, <1>3, <2>1, <2>2, <2>3, <2>4 DEF HandFits
  <2>9. ClientFits'
    <3>1. ASSUME NEW s \in Clients
          PROVE  /\ s \in known' <=> s \in clients' \/ s \in evicted'
                 /\ s > made' => called'[s] = "nothing"
                 /\ s \in clients' => called'[s] # "disconnect"
                 /\ s \in 1..made' \ (clients' \cup evicted') => called'[s] = "disconnect"
                 /\ s \in 1..made' /\ called'[s] = "nothing" =>
                       /\ s \in clients' \ old'
                       /\ \E x \in reading' : x.client = s /\ x.step = "new"
      <4>1. CASE s = n
        BY <1>2, <2>1, <2>2, <2>3, <2>4, <4>1
      <4>2. CASE s # n
        <5>1. s > n => s > made
          BY <1>3, Disjoint DEF n
        <5>2. ~(s \in 1..made /\ called[s] = "nothing")
          BY <1>1, <1>3 DEF Inv, ClientFits
        <5>3. QED
          BY <1>2, <2>1, <2>2, <2>3, <4>2, <5>1, <5>2 DEF Inv, ClientFits
      <4>3. QED
        BY <4>1, <4>2
    <3>2. clients' \cap evicted' = {} /\ (evicted' # {} => "timeoutLoop" \in loops')
      BY <1>2, <2>2, <2>3, <2>4 DEF Inv, ClientFits
    <3>3. QED
      BY <3>1, <3>2 DEF ClientFits
  <2>10. LateFits'
    BY <1>2, <2>2, <2>3, <2>4 DEF Inv, LateFits
  <2>11. ConnFits' /\ MainFits'
    BY <1>2, <2>1, <2>2, <2>3, Disjoint, UDPFrame
  <2>12. QED
    BY <2>6, <2>7, <2>8, <2>9, <2>10, <2>11 DEF Inv
<1>5. CASE addrToSess[r.from] # NoClient
  <2> DEFINE n == addrToSess[r.from]
             q == [r EXCEPT !.client = n, !.step = "found"]
  <2>1. n \in clients /\ n \in 1..made /\ n \in 0..made /\ n \in Clients
    BY <1>3, <1>5 DEF Inv, TypeOK, TablesAgree, Clients
  <2>2. called[n] # "disconnect" /\ n \notin late
    BY <2>1 DEF Inv, ClientFits, LateFits
  <2>3. /\ q \in [from : Addrs, client : 0..made, step : {"read", "new", "found", "handling"}]
        /\ q.client = n /\ q.step = "found"
    BY <1>3, <2>1
  <2>4. reading' = {q} /\ UNCHANGED <<known, tables>>
    BY <1>1, <1>5
  <2> HIDE DEF n, q
  <2>5. TypeOK' /\ TablesAgree'
    BY <1>2, <2>3, <2>4 DEF Inv, TypeOK, TablesAgree, tcpVars, tables
  <2>6. HandFits' /\ LateFits'
    BY <1>2, <1>3, <2>1, <2>2, <2>3, <2>4 DEF Inv, HandFits, LateFits, tables
  <2>7. ClientFits'
    <3>1. \A s \in 1..made : called[s] # "nothing"
      <4>1. 1..made \subseteq Clients
        BY <1>3 DEF Clients
      <4>2. QED
        BY <1>1, <1>3, <4>1 DEF Inv, ClientFits
    <3>2. QED
      BY <1>2, <2>4, <3>1 DEF Inv, ClientFits, tables
  <2>8. ConnFits' /\ MainFits'
    BY <1>2, <2>4, UDPFrame
  <2>9. QED
    BY <2>5, <2>6, <2>7, <2>8 DEF Inv
<1>6. QED
  BY <1>4, <1>5

LEMMA DatagramSteps ==
    ASSUME Inv, Welcome \/ BeginDatagram \/ HandleDatagram \/ \E a \in Addrs : Receive(a)
    PROVE  Inv'
<1> DEFINE Datagram == [from : Addrs, client : 0..made,
                        step : {"read", "new", "found", "handling"}]
<1>1. UNCHANGED <<known, tcpVars, tables, evicted, loops, main>>
  BY DEF Welcome, BeginDatagram, HandleDatagram, Receive
<1>2. made \in Nat /\ made \in 0..MaxClients /\ 1..made \subseteq Clients
  BY DEF Inv, TypeOK, Clients
<1>3. ASSUME NEW a \in Addrs, Receive(a)
      PROVE  Inv'
  <2> DEFINE q == [from |-> a, client |-> NoClient, step |-> "read"]
  <2>1. q \in Datagram /\ q.step = "read" /\ q.client = NoClient
    BY <1>2 DEF NoClient
  <2>2. /\ reading = {} /\ reading' = {q} /\ made < MaxClients /\ "readLoop" \in loops
        /\ UNCHANGED <<called, old, late>>
    BY <1>3 DEF Receive
  <2> HIDE DEF q
  <2>3. TypeOK'
    BY <1>1, <2>1, <2>2 DEF Inv, TypeOK, tcpVars, tables
  <2>4. TablesAgree' /\ HandFits' /\ LateFits'
    BY <1>1, <2>1, <2>2, Disjoint DEF Inv, TablesAgree, HandFits, LateFits, tables
  <2>5. ClientFits'
    BY <1>1, <2>1, <2>2 DEF Inv, ClientFits, tables
  <2>6. ConnFits' /\ MainFits'
    BY <1>1, <2>2, UDPFrame
  <2>7. QED
    BY <2>3, <2>4, <2>5, <2>6 DEF Inv
<1>4. CASE Welcome
  <2>1. PICK r \in reading : /\ r.step = "new"
                             /\ OnConnect(r.client)
                             /\ reading' = {[r EXCEPT !.step = "found"]}
    BY <1>4 DEF Welcome
  <2> DEFINE n == r.client
             q == [r EXCEPT !.step = "found"]
  <2>2. r \in Datagram /\ reading = {r} /\ n \in 1..made /\ n \in Clients /\ n \in Sessions
    BY <1>2, <2>1, Disjoint DEF Inv, TypeOK, HandFits
  <2>3. q \in Datagram /\ q.client = n /\ q.step = "found" /\ reading' = {q}
    BY <2>1, <2>2
  <2>4. /\ called' = [called EXCEPT ![n] = "connect"]
        /\ UNCHANGED <<old, late>>
    BY <1>4, <2>1 DEF Welcome, OnConnect
  <2>5. called[n] = "nothing" /\ n \in clients /\ n \notin late
    BY <2>1, <2>2 DEF Inv, HandFits, ClientFits, LateFits
  <2>6. "readLoop" \in loops
    BY <2>1 DEF Inv, HandFits
  <2> HIDE DEF n, q
  <2>7. \A c \in Conns : called'[c] = called[c]
    BY <2>2, <2>4, Disjoint DEF Inv, TypeOK
  <2>8. TypeOK'
    BY <1>1, <2>2, <2>3, <2>4, <2>7 DEF Inv, TypeOK, tcpVars, tables
  <2>9. TablesAgree' /\ HandFits'
    BY <1>1, <2>2, <2>3, <2>4, <2>6 DEF Inv, TablesAgree, HandFits, tables
  <2>10. LateFits'
    BY <1>1, <2>2, <2>3, <2>4, <2>5, Disjoint DEF Inv, TypeOK, LateFits, tables
  <2>11. ClientFits'
    <3>1. ASSUME NEW s \in Clients, s # n, s \in 1..made
          PROVE  called[s] # "nothing"
      BY <2>2, <3>1 DEF Inv, ClientFits, n
    <3>2. ASSUME NEW s \in Clients
          PROVE  /\ called'[s] = IF s = n THEN "connect" ELSE called[s]
                 /\ s = n => ~(s > made)
      BY <1>2, <2>2, <2>4, Disjoint DEF Inv, TypeOK
    <3>3. QED
      BY <1>1, <2>4, <2>5, <3>1, <3>2 DEF Inv, ClientFits, tables
  <2>12. ConnFits' /\ MainFits'
    BY <1>1, <2>7, UDPFrame
  <2>13. QED
    BY <2>8, <2>9, <2>10, <2>11, <2>12 DEF Inv
<1>5. CASE BeginDatagram
  <2>1. PICK r \in reading :
           /\ r.step = "found"
           /\ old' = old \ {r.client}
           /\ \/ reading' = {} /\ UNCHANGED late
              \/ /\ reading' = {[r EXCEPT !.step = "handling"]}
                 /\ late' = IF called[r.client] = "disconnect"
                              THEN late \cup {r.client} ELSE late
    BY <1>5 DEF BeginDatagram
  <2> DEFINE n == r.client
             q == [r EXCEPT !.step = "handling"]
  <2>2. /\ r \in Datagram /\ reading = {r} /\ n \in 1..made /\ n \in Clients /\ n \in Sessions
        /\ "readLoop" \in loops
    BY <1>2, <2>1, Disjoint DEF Inv, TypeOK, HandFits
  <2>3. q \in Datagram /\ q.client = n /\ q.step = "handling"
    BY <2>2
  <2>4. /\ UNCHANGED called
        /\ old' = old \ {n}
        /\ \/ reading' = {} /\ late' = late
           \/ reading' = {q} /\ late' = late
           \/ reading' = {q} /\ late' = late \cup {n} /\ called[n] = "disconnect"
    BY <1>5, <2>1 DEF BeginDatagram
  <2>5. \A s \in 1..made : called[s] # "nothing"
    BY <1>2, <2>1, <2>2 DEF Inv, ClientFits
  <2> HIDE DEF n, q
  <2>6. TypeOK'
    <3>1. /\ reading' \in SUBSET Datagram
          /\ \A x, y \in reading' : x = y
      BY <2>3, <2>4
    <3>2. old' \in SUBSET (1..made) /\ late' \in SUBSET Sessions
      <4>1. old \in SUBSET (1..made) /\ late \in SUBSET Sessions
        BY DEF Inv, TypeOK
      <4>2. late' = late \/ late' = late \cup {n}
        BY <2>4
      <4>3. QED
        BY <2>2, <2>4, <4>1, <4>2
    <3>3. UNCHANGED <<known, called, stage, socket, accepting, made, addr, clients,
                      addrToSess, evicted, loops, main>>
      BY <1>1, <2>4 DEF tcpVars, tables
    <3>4. QED
      BY <3>1, <3>2, <3>3 DEF Inv, TypeOK
  <2>7. TablesAgree' /\ HandFits'
    BY <1>1, <2>2, <2>3, <2>4 DEF Inv, TablesAgree, HandFits, tables
  <2>8. LateFits'
    BY <2>2, <2>3, <2>4 DEF Inv, LateFits
  <2>9. ClientFits'
    BY <1>1, <2>4, <2>5 DEF Inv, ClientFits, tables
  <2>10. ConnFits' /\ MainFits'
    BY <1>1, <2>4, UDPFrame
  <2>11. QED
    BY <2>6, <2>7, <2>8, <2>9, <2>10 DEF Inv
<1>6. CASE HandleDatagram
  <2>1. /\ reading' = {} /\ UNCHANGED <<called, old, late>>
        /\ \E r \in reading : r.step = "handling"
    BY <1>6 DEF HandleDatagram
  <2>2. \A s \in 1..made : called[s] # "nothing"
    BY <1>2, <2>1 DEF Inv, TypeOK, ClientFits
  <2>3. TypeOK'
    BY <1>1, <2>1 DEF Inv, TypeOK, tcpVars, tables
  <2>4. TablesAgree' /\ HandFits' /\ LateFits'
    BY <1>1, <2>1 DEF Inv, TablesAgree, HandFits, LateFits, tables
  <2>5. ClientFits'
    BY <1>1, <2>1, <2>2 DEF Inv, ClientFits, tables
  <2>6. ConnFits' /\ MainFits'
    BY <1>1, <2>1, UDPFrame
  <2>7. QED
    BY <2>3, <2>4, <2>5, <2>6 DEF Inv
<1>7. QED
  BY <1>3, <1>4, <1>5, <1>6

LEMMA TimeoutSteps ==
    ASSUME Inv,
           \/ EvictExpired
           \/ \E s \in Clients : GrowOld(s) \/ DisconnectEvicted(s) \/ RemoveEvicted(s)
           \/ \E l \in Loops : LoopEnds(l)
    PROVE  Inv'
<1>1. UNCHANGED <<tcpVars, made, addr, reading, main, late>> /\ loops' \subseteq loops
  BY DEF EvictExpired, GrowOld, DisconnectEvicted, RemoveEvicted, LoopEnds, tables, udpVars
<1>2. 1..made \subseteq Clients
  BY DEF Inv, TypeOK, Clients
<1>3. CASE EvictExpired
  <2>1. /\ "timeoutLoop" \in loops /\ evicted = {}
        /\ evicted' = old \cap clients
        /\ clients' = clients \ old
        /\ addrToSess' = [a \in Addrs |-> IF \E s \in evicted' : addr[s] = a
                                            THEN NoClient ELSE addrToSess[a]]
        /\ UNCHANGED <<known, called, old, loops>>
    BY <1>3 DEF EvictExpired
  <2>2. TypeOK'
    BY <1>1, <2>1 DEF Inv, TypeOK, tcpVars, NoClient
  <2>3. TablesAgree'
    BY <1>1, <1>2, <2>1 DEF Inv, TypeOK, TablesAgree
  <2>4. HandFits' /\ LateFits'
    BY <1>1, <2>1 DEF Inv, HandFits, LateFits
  <2>5. ClientFits'
    BY <1>1, <2>1 DEF Inv, ClientFits
  <2>6. ConnFits' /\ MainFits'
    BY <1>1, <2>1, UDPFrame
  <2>7. QED
    BY <2>2, <2>3, <2>4, <2>5, <2>6 DEF Inv
<1>4. ASSUME NEW s \in Clients, GrowOld(s)
      PROVE  Inv'
  <2>1. /\ s \in clients /\ called[s] = "connect" /\ old' = old \cup {s}
        /\ UNCHANGED <<known, called, clients, addrToSess, evicted, loops>>
    BY <1>4 DEF GrowOld, tables
  <2>2. TypeOK'
    BY <1>1, <2>1 DEF Inv, TypeOK, tcpVars
  <2>3. TablesAgree' /\ HandFits' /\ LateFits'
    BY <1>1, <2>1 DEF Inv, TablesAgree, HandFits, LateFits
  <2>4. ClientFits'
    BY <1>1, <2>1 DEF Inv, ClientFits
  <2>5. ConnFits' /\ MainFits'
    BY <1>1, <2>1, UDPFrame
  <2>6. QED
    BY <2>2, <2>3, <2>4, <2>5 DEF Inv
<1>5. ASSUME NEW s \in Clients, DisconnectEvicted(s)
      PROVE  Inv'
  <2>1. /\ s \in evicted /\ called' = [called EXCEPT ![s] = "disconnect"]
        /\ UNCHANGED <<known, clients, addrToSess, old, evicted, loops>>
    BY <1>5 DEF DisconnectEvicted, OnDisconnect, udpVars, tables
  <2>2. s \in Sessions /\ s \in 1..made /\ s \notin clients /\ called[s] # "nothing"
    BY <2>1, Disjoint DEF Inv, TypeOK, ClientFits
  <2>3. \A x \in Sessions : called'[x] = IF x = s THEN "disconnect" ELSE called[x]
    BY <2>1 DEF Inv, TypeOK
  <2>4. \A c \in Conns : called'[c] = called[c]
    BY <2>3, Disjoint
  <2>5. TypeOK'
    BY <1>1, <2>1, <2>2, <2>4 DEF Inv, TypeOK, tcpVars
  <2>6. TablesAgree'
    BY <1>1, <2>1 DEF Inv, TablesAgree
  <2>7. HandFits'
    BY <1>1, <1>2, <2>1, <2>2, <2>3, Disjoint DEF Inv, HandFits
  <2>8. LateFits'
    BY <1>1, <2>2, <2>3, Disjoint DEF Inv, LateFits
  <2>9. ClientFits'
    BY <1>1, <2>1, <2>2, <2>3, Disjoint DEF Inv, ClientFits, Clients
  <2>10. ConnFits' /\ MainFits'
    BY <1>1, <2>1, <2>4, UDPFrame
  <2>11. QED
    BY <2>5, <2>6, <2>7, <2>8, <2>9, <2>10 DEF Inv
<1>6. ASSUME NEW s \in Clients, RemoveEvicted(s)
      PROVE  Inv'
  <2>1. /\ s \in evicted /\ called[s] = "disconnect"
        /\ known' = known \ {s} /\ evicted' = evicted \ {s}
        /\ UNCHANGED <<called, clients, addrToSess, old, loops>>
    BY <1>6 DEF RemoveEvicted, tables
  <2>2. TypeOK'
    BY <1>1, <2>1 DEF Inv, TypeOK, tcpVars
  <2>3. TablesAgree' /\ HandFits' /\ LateFits'
    BY <1>1, <2>1 DEF Inv, TablesAgree, HandFits, LateFits
  <2>4. ClientFits'
    BY <1>1, <2>1 DEF Inv, ClientFits
  <2>5. ConnFits' /\ MainFits'
    BY <1>1, <2>1, Disjoint, UDPFrame
  <2>6. QED
    BY <2>2, <2>3, <2>4, <2>5 DEF Inv
<1>7. ASSUME NEW l \in Loops, LoopEnds(l)
      PROVE  Inv'
  <2>1. /\ l = "readLoop" => reading = {}
        /\ l = "timeoutLoop" => evicted = {}
        /\ loops' = loops \ {l}
        /\ UNCHANGED <<known, called, clients, addrToSess, old, evicted>>
    BY <1>7 DEF LoopEnds, tables
  <2>2. TypeOK'
    BY <1>1, <2>1 DEF Inv, TypeOK, tcpVars
  <2>3. TablesAgree' /\ HandFits' /\ LateFits'
    BY <1>1, <2>1 DEF Inv, TablesAgree, HandFits, LateFits
  <2>4. ClientFits'
    BY <1>1, <2>1 DEF Inv, ClientFits
  <2>5. ConnFits' /\ MainFits'
    BY <1>1, <2>1, UDPFrame
  <2>6. QED
    BY <2>2, <2>3, <2>4, <2>5 DEF Inv
<1>8. QED
  BY <1>3, <1>4, <1>5, <1>6, <1>7

LEMMA InvHolds == Spec => []Inv
<1>1. Init => Inv
  <2> SUFFICES ASSUME Init
               PROVE  Inv
    OBVIOUS
  <2>1. TypeOK
    BY Disjoint DEF Init, TypeOK, Loops, Main, Stage, NoClient
  <2>2. ConnFits /\ MainFits
    BY Disjoint DEF Init, ConnFits, MainFits, UDPStopped
  <2>3. TablesAgree /\ HandFits /\ ClientFits /\ LateFits
    BY DEF Init, TablesAgree, HandFits, ClientFits, LateFits, Clients, Sessions, Loops
  <2>4. QED
    BY <2>1, <2>2, <2>3 DEF Inv
<1>2. Inv /\ [Next]_vars => Inv'
  BY TCPSteps, StopSteps, LookupStep, DatagramSteps, TimeoutSteps
     DEF Next, ReadLoop, TimeoutLoop, Loops
<1>3. QED
  BY <1>1, <1>2, PTL DEF Spec

-----------------------------------------------------------------------------
(* The safety theorems *)

\* The state of the transports keeps its types, and onConnect and onDisconnect
\* are called where the life of a connection has come to them.
THEOREM TypeCorrect == Spec => []TypeOK
BY InvHolds, PTL DEF Inv

\* No session is left in the manager with nobody to remove it.
THEOREM SessionsEnd == Spec => []EverySessionHasAnEnd
<1>1. Inv => EverySessionHasAnEnd
  <2> SUFFICES ASSUME Inv, NEW s \in known
               PROVE  EverySessionHasAnEnd!(s)
    BY DEF EverySessionHasAnEnd
  <2>1. CASE s \in Conns
    BY <2>1 DEF Inv, ConnFits, Stage
  <2>2. CASE s \in Clients
    BY <2>2 DEF Inv, ClientFits, TablesAgree
  <2>3. QED
    BY <2>1, <2>2 DEF Inv, TypeOK, Sessions
<1>2. QED
  BY <1>1, InvHolds, PTL

\* When main returns nothing of the transports runs any more: Stop of each
\* server has waited for its goroutines, and a goroutine does not return in the
\* middle of a request or of an eviction.
THEOREM ExitIsQuiet == Spec => []NothingRunsAfterExit
<1>1. Inv => NothingRunsAfterExit
  <2> SUFFICES ASSUME Inv, main = "exited"
               PROVE  NothingRunsAfterExit
    BY DEF NothingRunsAfterExit
  <2>1. loops = {} /\ \A c \in Conns : stage[c] \in {"none", "ended"}
    BY DEF Inv, MainFits, UDPStopped
  <2>2. reading = {} /\ evicted = {}
    BY <2>1 DEF Inv, HandFits, ClientFits
  <2>3. \A c \in Conns : c \notin known
    BY <2>1 DEF Inv, ConnFits
  <2>4. known \subseteq clients
    BY <2>2, <2>3 DEF Inv, TypeOK, ClientFits, Sessions
  <2>5. QED
    BY <2>1, <2>2, <2>4 DEF NothingRunsAfterExit
<1>2. QED
  BY <1>1, InvHolds, PTL

-----------------------------------------------------------------------------
(* Refinement *)

Phases   == [s \in Sessions |-> PhaseOf(s)]
Handling == {c \in Conns : stage[c] = "handling"}
            \cup {r.client : r \in {x \in reading : x.step = "handling"}}

LEMMA StutterStep ==
    ASSUME \A s \in Sessions : PhaseOf(s)' = PhaseOf(s), Handling' = Handling, UNCHANGED late
    PROVE  UNCHANGED Life!vars
BY DEF Life!vars, Handling

LEMMA MoveStep ==
    ASSUME NEW s \in Sessions, NEW from, NEW to,
           PhaseOf(s) = from, PhaseOf(s)' = to,
           \A x \in Sessions \ {s} : PhaseOf(x)' = PhaseOf(x),
           Handling' = Handling, UNCHANGED late
    PROVE  Life!Move(s, from, to)
<1>1. Phases' = [Phases EXCEPT ![s] = to]
  BY DEF Phases
<1>2. QED
  BY <1>1 DEF Life!Move, Phases, Handling

LEMMA TCPRefines ==
    ASSUME Inv, NEW c \in Conns, Accept(c) \/ ReadLine(c) \/ Shut(c) \/ Serve(c)
    PROVE  [Life!Next]_(Life!vars)
<1>1. UNCHANGED <<reading, late>> /\ c \in Sessions /\ \A d \in Conns : d \in Sessions
  BY Disjoint
     DEF Accept, ReadLine, Shut, Serve, AddSession, Enter, HandleLine, ReadError,
         Disconnect, End, udpVars
<1>2. ASSUME NEW s \in Sessions \ {c}
      PROVE  PhaseOf(s)' = PhaseOf(s)
  <2>1. called'[s] = called[s] /\ (s \in known' <=> s \in known)
    BY DEF Accept, ReadLine, Shut, Serve, AddSession, Enter, HandleLine, ReadError,
           Disconnect, End, OnConnect, OnDisconnect, Inv, TypeOK
  <2>2. QED
    BY <2>1 DEF PhaseOf
<1>3. /\ stage[c] # "handling" /\ stage'[c] # "handling" => Handling' = Handling
      /\ stage[c] # "handling" /\ stage'[c] = "handling" => Handling' = Handling \cup {c}
      /\ stage[c] = "handling" /\ stage'[c] # "handling" => Handling' = Handling \ {c}
  <2>1. \A d \in Conns \ {c} : stage'[d] = stage[d]
    BY DEF Accept, ReadLine, Shut, Serve, AddSession, Enter, HandleLine, ReadError,
           Disconnect, End, Reach, NextRound, Inv, TypeOK
  <2>2. \A r \in {x \in reading : x.step = "handling"} : r.client \in Clients
    BY DEF Inv, TypeOK, HandFits, Clients
  <2>3. c \notin Clients
    BY Disjoint
  <2>4. QED
    BY <1>1, <2>1, <2>2, <2>3 DEF Handling
<1>4. PhaseOf(c) = CASE stage[c] \in {"none", "accepted"} -> "new"
                     [] stage[c] \in {"added", "reading", "handling", "leaving"} -> "open"
                     [] stage[c] = "left" -> "leaving"
                     [] stage[c] = "ended" -> "gone"
  BY DEF PhaseOf, Inv, TypeOK, Stage, ConnFits
<1>5. PhaseOf(c)' = CASE stage'[c] \in {"none", "accepted"} -> "new"
                      [] stage'[c] \in {"added", "reading", "handling", "leaving"} -> "open"
                      [] stage'[c] = "left" -> "leaving"
                      [] stage'[c] = "ended" -> "gone"
  BY TCPSteps DEF PhaseOf, Inv, TypeOK, Stage, ConnFits
<1> DEFINE before == stage[c]
           then   == stage'[c]
<1>6. CASE AddSession(c)
  <2>1. before = "accepted" /\ then = "added"
    BY <1>6 DEF AddSession, Reach, Inv, TypeOK
  <2>2. Life!Open(c)
    BY <1>1, <1>2, <1>3, <1>4, <1>5, <2>1, MoveStep DEF Life!Open
  <2>3. QED
    BY <1>1, <2>2 DEF Life!Next
<1>7. CASE Disconnect(c)
  <2>1. before = "leaving" /\ then = "left"
    BY <1>7 DEF Disconnect, Reach, Inv, TypeOK
  <2>2. Life!Move(c, "open", "leaving")
    BY <1>1, <1>2, <1>3, <1>4, <1>5, <2>1, MoveStep
  <2>3. c \notin Handling
    <3>1. \A r \in {x \in reading : x.step = "handling"} : r.client \in Clients
      BY DEF Inv, TypeOK, HandFits, Clients
    <3>2. QED
      BY <2>1, <3>1, Disjoint DEF Handling
  <2>4. Life!Leave(c)
    BY <2>2, <2>3 DEF Life!Leave, Handling
  <2>5. QED
    BY <1>1, <2>4 DEF Life!Next
<1>8. CASE End(c)
  <2>1. before = "left" /\ then = "ended"
    BY <1>8 DEF End, Reach, Inv, TypeOK
  <2>2. Life!Remove(c)
    BY <1>1, <1>2, <1>3, <1>4, <1>5, <2>1, MoveStep DEF Life!Remove
  <2>3. QED
    BY <1>1, <2>2 DEF Life!Next
<1>9. CASE HandleLine(c)
  <2>1. before = "handling" /\ then \in {"reading", "leaving"}
    BY <1>9 DEF HandleLine, NextRound, Reach, Inv, TypeOK
  <2>2. c \in Handling /\ Handling' = Handling \ {c}
    BY <1>3, <2>1 DEF Handling
  <2>3. Phases' = Phases
    BY <1>2, <1>4, <1>5, <2>1 DEF Phases
  <2>4. Life!Finish(c)
    BY <1>1, <2>2, <2>3 DEF Life!Finish, Handling, Phases
  <2>5. QED
    BY <1>1, <2>4 DEF Life!Next
<1>10. CASE ReadLine(c) /\ then = "handling"
  <2>1. before = "reading"
    BY <1>10 DEF ReadLine
  <2>2. c \notin Handling /\ Handling' = Handling \cup {c}
    <3>1. \A r \in {x \in reading : x.step = "handling"} : r.client \in Clients
      BY DEF Inv, TypeOK, HandFits, Clients
    <3>2. QED
      BY <1>3, <1>10, <2>1, <3>1, Disjoint DEF Handling
  <2>3. Phases' = Phases /\ Phases[c] = "open"
    BY <1>1, <1>2, <1>4, <1>5, <1>10, <2>1 DEF Phases
  <2>4. Life!Begin(c)
    BY <1>1, <2>2, <2>3 DEF Life!Begin, Handling, Phases
  <2>5. QED
    BY <1>1, <2>4 DEF Life!Next
<1>11. CASE Accept(c) \/ Shut(c) \/ Enter(c) \/ ReadError(c) \/ (ReadLine(c) /\ then # "handling")
  <2>1. \/ before = then
        \/ before = "none" /\ then = "accepted"
        \/ before = "added" /\ then \in {"reading", "leaving"}
        \/ before = "reading" /\ then \in {"reading", "leaving"}
    BY <1>11 DEF Accept, Shut, Enter, ReadError, ReadLine, NextRound, Reach, Inv, TypeOK
  <2>2. PhaseOf(c)' = PhaseOf(c)
    BY <1>4, <1>5, <2>1
  <2>3. Handling' = Handling
    <3>1. \A d \in Conns \ {c} : stage'[d] = stage[d]
      BY <1>11 DEF Accept, ReadLine, Shut, Enter, ReadError, Reach, NextRound, Inv, TypeOK
    <3>2. stage'[c] = "handling" <=> stage[c] = "handling"
      BY <1>11, <2>1
    <3>3. QED
      BY <1>1, <3>1, <3>2 DEF Handling
  <2>4. QED
    BY <1>1, <1>2, <2>2, <2>3, StutterStep
<1>12. QED
  BY <1>6, <1>7, <1>8, <1>9, <1>10, <1>11 DEF Serve

LEMMA UDPRefines ==
    ASSUME Inv, Inv',
           \/ ReadLoop \/ TimeoutLoop \/ LoopEnds("writeLoop")
           \/ \E a \in Addrs : Receive(a)
           \/ \E s \in Clients : GrowOld(s)
    PROVE  [Life!Next]_(Life!vars)
<1>1. /\ UNCHANGED <<stage, main>>
      /\ 1..made \subseteq Clients /\ 1..made' \subseteq Clients
      /\ Clients \subseteq Sessions
  <2>1. UNCHANGED <<stage, main>>
    <3>1. CASE Lookup \/ Welcome \/ BeginDatagram \/ HandleDatagram
      BY <3>1 DEF Lookup, Welcome, BeginDatagram, HandleDatagram, tcpVars
    <3>2. CASE EvictExpired \/ \E s \in Clients : DisconnectEvicted(s) \/ RemoveEvicted(s)
      BY <3>2 DEF EvictExpired, DisconnectEvicted, RemoveEvicted, tcpVars
    <3>3. CASE \E l \in {"readLoop", "timeoutLoop", "writeLoop"} : LoopEnds(l)
      BY <3>3 DEF LoopEnds, tcpVars
    <3>4. CASE \E a \in Addrs : Receive(a)
      BY <3>4 DEF Receive, tcpVars
    <3>5. CASE \E s \in Clients : GrowOld(s)
      BY <3>5 DEF GrowOld, tcpVars
    <3>6. QED
      BY <3>1, <3>2, <3>3, <3>4, <3>5 DEF ReadLoop, TimeoutLoop
  <2>2. 1..made \subseteq Clients /\ 1..made' \subseteq Clients
    <3>1. made \in 0..MaxClients /\ made' \in 0..MaxClients
      BY DEF Inv, TypeOK
    <3>2. QED
      BY <3>1 DEF Clients
  <2>3. QED
    BY <2>1, <2>2 DEF Sessions
<1>2. ASSUME UNCHANGED <<known, called>>
      PROVE  Phases' = Phases /\ \A s \in Sessions : PhaseOf(s)' = PhaseOf(s)
  BY <1>2 DEF Phases, PhaseOf
<1> DEFINE Busy == {r.client : r \in {x \in reading : x.step = "handling"}}
<1>3. Busy' = Busy => Handling' = Handling
  BY <1>1 DEF Handling
<1>4. CASE UNCHANGED <<known, called, late>> /\ Busy' = Busy
  BY <1>2, <1>3, <1>4, StutterStep
<1>5. CASE LoopEnds("writeLoop") \/ LoopEnds("readLoop") \/ LoopEnds("timeoutLoop")
           \/ EvictExpired \/ \E s \in Clients : GrowOld(s)
  BY <1>4, <1>5 DEF LoopEnds, EvictExpired, GrowOld, tables
<1>6. ASSUME NEW a \in Addrs, Receive(a)
      PROVE  [Life!Next]_(Life!vars)
  <2>1. Busy' = Busy
    BY <1>6 DEF Receive
  <2>2. QED
    BY <1>4, <1>6, <2>1 DEF Receive
<1>7. CASE Lookup
  <2>1. PICK r \in reading : r.step = "read" /\ reading = {r}
    BY <1>7 DEF Lookup, Inv, TypeOK
  <2>2. \A x \in reading' : x.step \in {"new", "found"}
    <3>1. r \in [from : Addrs, client : 0..made, step : {"read", "new", "found", "handling"}]
      BY DEF Inv, TypeOK
    <3>2. \/ reading' = {[r EXCEPT !.client = made + 1, !.step = "new"]}
          \/ reading' = {[r EXCEPT !.client = addrToSess[r.from], !.step = "found"]}
      BY <1>7, <2>1 DEF Lookup
    <3>3. ASSUME NEW c, NEW next
          PROVE  [r EXCEPT !.client = c, !.step = next].step = next
      BY <3>1
    <3>4. \E c, next : /\ next \in {"new", "found"}
                      /\ reading' = {[r EXCEPT !.client = c, !.step = next]}
      BY <3>2
    <3>5. PICK c, next : /\ next \in {"new", "found"}
                         /\ reading' = {[r EXCEPT !.client = c, !.step = next]}
      BY <3>4
    <3>6. QED
      BY <3>3, <3>5
  <2>3. Busy' = Busy
    BY <2>1, <2>2
  <2>4. UNCHANGED <<called, late>>
    BY <1>7 DEF Lookup
  <2>5. CASE UNCHANGED known
    BY <1>4, <2>3, <2>4, <2>5
  <2>6. CASE ~UNCHANGED known
    <3>1. PICK s \in Clients : s = made + 1 /\ made' = s /\ known' = known \cup {s}
      BY <1>1, <1>7, <2>1, <2>6 DEF Lookup, Inv, TypeOK
    <3>2. s \in Sessions /\ s \notin 1..made /\ s > made
      BY <1>1, <3>1 DEF Inv, TypeOK
    <3>3. s \notin known /\ called[s] = "nothing"
      BY <3>2 DEF Inv, TypeOK, ClientFits
    <3>4. PhaseOf(s) = "new" /\ PhaseOf(s)' = "open"
      BY <2>4, <3>1, <3>3 DEF PhaseOf
    <3>5. \A x \in Sessions \ {s} : PhaseOf(x)' = PhaseOf(x)
      BY <2>4, <3>1 DEF PhaseOf
    <3>6. Life!Open(s)
      BY <1>3, <2>3, <2>4, <3>2, <3>4, <3>5, MoveStep DEF Life!Open
    <3>7. QED
      BY <3>2, <3>6 DEF Life!Next
  <2>7. QED
    BY <2>5, <2>6
<1>8. CASE Welcome
  <2>1. PICK r \in reading : /\ r.step = "new"
                             /\ OnConnect(r.client)
                             /\ reading' = {[r EXCEPT !.step = "found"]}
    BY <1>8 DEF Welcome
  <2>2. /\ reading = {r} /\ r.client \in 1..made /\ r.client \in Sessions
        /\ called[r.client] = "nothing"
    BY <1>1, <2>1 DEF Inv, TypeOK, HandFits
  <2>3. Busy' = Busy
    <3>1. r \in [from : Addrs, client : 0..made, step : {"read", "new", "found", "handling"}]
      BY DEF Inv, TypeOK
    <3>2. QED
      BY <2>1, <2>2, <3>1
  <2>4. \A s \in Sessions : PhaseOf(s)' = PhaseOf(s)
    BY <1>8, <2>1, <2>2 DEF Welcome, OnConnect, PhaseOf, Inv, TypeOK
  <2>5. QED
    BY <1>3, <1>8, <2>3, <2>4, StutterStep DEF Welcome
<1>9. CASE BeginDatagram
  <2>1. PICK r \in reading :
           /\ r.step = "found"
           /\ \/ reading' = {} /\ UNCHANGED late
              \/ /\ reading' = {[r EXCEPT !.step = "handling"]}
                 /\ late' = IF called[r.client] = "disconnect"
                              THEN late \cup {r.client} ELSE late
    BY <1>9 DEF BeginDatagram
  <2> DEFINE s == r.client
             q == [r EXCEPT !.step = "handling"]
  <2>2. /\ reading = {r} /\ s \in 1..made /\ s \in Clients /\ s \in Sessions
        /\ r \in [from : Addrs, client : 0..made, step : {"read", "new", "found", "handling"}]
    BY <1>1, <2>1 DEF Inv, TypeOK, HandFits
  <2>3. q.step = "handling" /\ q.client = s
    BY <2>2
  <2>4. UNCHANGED <<known, called>> /\ Phases' = Phases
    BY <1>2, <1>9 DEF BeginDatagram
  <2>5. Busy = {}
    BY <2>1, <2>2
  <2> HIDE DEF q
  <2>6. CASE reading' = {}
    <3>1. Busy' = Busy /\ UNCHANGED late
      BY <2>1, <2>5, <2>6
    <3>2. QED
      BY <1>4, <2>4, <3>1
  <2>7. CASE reading' # {}
    <3>1. reading' = {q} /\ late' = IF called[s] = "disconnect" THEN late \cup {s} ELSE late
      BY <2>1, <2>7 DEF q
    <3>2. Busy' = {s}
      BY <2>3, <3>1
    <3>3. Handling' = Handling \cup {s} /\ s \notin Handling
      BY <1>1, <2>2, <2>5, <3>2, Disjoint DEF Handling
    <3>4. s \notin late
      BY <2>1, <2>2 DEF Inv, LateFits
    <3>5. called[s] # "disconnect" => Phases[s] = "open"
      BY <2>2 DEF Phases, PhaseOf, Inv, ClientFits
    <3>6. called[s] = "disconnect" => Phases[s] \in {"leaving", "gone"}
      BY <2>2 DEF Phases, PhaseOf
    <3>7. Life!Begin(s)
      BY <2>2, <2>4, <3>1, <3>3, <3>4, <3>5, <3>6 DEF Life!Begin, Handling, Phases
    <3>8. QED
      BY <2>2, <3>7 DEF Life!Next
  <2>8. QED
    BY <2>6, <2>7
<1>10. CASE HandleDatagram
  <2>1. PICK r \in reading : r.step = "handling" /\ reading = {r} /\ r.client \in 1..made
    BY <1>10 DEF HandleDatagram, Inv, TypeOK, HandFits
  <2> DEFINE s == r.client
  <2>2. Busy = {s} /\ Busy' = {} /\ s \in Clients /\ s \in Sessions
    BY <1>1, <1>10, <2>1 DEF HandleDatagram
  <2>3. s \in Handling /\ Handling' = Handling \ {s}
    BY <1>1, <2>2, Disjoint DEF Handling
  <2>4. UNCHANGED late /\ Phases' = Phases
    BY <1>2, <1>10 DEF HandleDatagram
  <2>5. Life!Finish(s)
    BY <2>3, <2>4 DEF Life!Finish, Handling, Phases
  <2>6. QED
    BY <2>2, <2>5 DEF Life!Next
<1>11. ASSUME NEW s \in Clients, DisconnectEvicted(s)
       PROVE  [Life!Next]_(Life!vars)
  <2>1. /\ s \in evicted /\ called[s] # "disconnect"
        /\ called' = [called EXCEPT ![s] = "disconnect"]
        /\ UNCHANGED <<known, reading, late>>
    BY <1>11 DEF DisconnectEvicted, OnDisconnect, udpVars
  <2>2. s \in known /\ s \in Sessions /\ Busy' = Busy
    BY <1>1, <2>1 DEF Inv, ClientFits
  <2>3. PhaseOf(s) = "open" /\ PhaseOf(s)' = "leaving"
    BY <2>1, <2>2 DEF PhaseOf, Inv, TypeOK
  <2>4. \A x \in Sessions \ {s} : PhaseOf(x)' = PhaseOf(x)
    BY <2>1 DEF PhaseOf, Inv, TypeOK
  <2>5. Life!Leave(s)
    BY <1>3, <2>1, <2>2, <2>3, <2>4, MoveStep DEF Life!Leave
  <2>6. QED
    BY <2>2, <2>5 DEF Life!Next
<1>12. ASSUME NEW s \in Clients, RemoveEvicted(s)
       PROVE  [Life!Next]_(Life!vars)
  <2>1. /\ s \in evicted /\ called[s] = "disconnect"
        /\ known' = known \ {s}
        /\ UNCHANGED <<called, reading, late>>
    BY <1>12 DEF RemoveEvicted
  <2>2. s \in known /\ s \in Sessions /\ Busy' = Busy
    BY <1>1, <2>1 DEF Inv, ClientFits
  <2>3. PhaseOf(s) = "leaving" /\ PhaseOf(s)' = "gone"
    BY <2>1, <2>2 DEF PhaseOf
  <2>4. \A x \in Sessions \ {s} : PhaseOf(x)' = PhaseOf(x)
    BY <2>1 DEF PhaseOf
  <2>5. Life!Remove(s)
    BY <1>3, <2>1, <2>2, <2>3, <2>4, MoveStep DEF Life!Remove
  <2>6. QED
    BY <2>2, <2>5 DEF Life!Next
<1>13. QED
  BY <1>5, <1>6, <1>7, <1>8, <1>9, <1>10, <1>11, <1>12 DEF ReadLoop, TimeoutLoop

\* The transports implement the abstract life of a session, whatever the
\* clients do and wherever a signal finds the goroutines: requests of a session
\* come one at a time and while it is open, but for the one datagram readLoop
\* may have in hand when timeoutLoop closes a UDP session.
THEOREM Refinement == Spec => ImplementsSessionLife
<1>1. Init => Life!Init
  <2> SUFFICES ASSUME Init
               PROVE  Life!Init
    OBVIOUS
  <2>1. \A s \in Sessions : PhaseOf(s) = "new"
    BY DEF Init, PhaseOf
  <2>2. Handling = {} /\ late = {}
    BY DEF Init, Handling
  <2>3. QED
    BY <2>1, <2>2 DEF Life!Init, Handling
<1>2. Inv /\ Inv' /\ [Next]_vars => [Life!Next]_(Life!vars)
  <2> SUFFICES ASSUME Inv, Inv', [Next]_vars
               PROVE  [Life!Next]_(Life!vars)
    OBVIOUS
  <2>1. CASE AcceptLoopEnds \/ Signal \/ TCPStops \/ UDPStops \/ UNCHANGED vars
    <3>1. UNCHANGED <<known, called, stage, reading, late>>
      BY <2>1 DEF AcceptLoopEnds, Signal, TCPStops, UDPStops, Proceed, vars, tcpVars, udpVars
    <3>2. QED
      BY <3>1, StutterStep DEF PhaseOf, Handling
  <2>2. QED
    BY <2>1, TCPRefines, UDPRefines DEF Next
<1>3. QED
  BY <1>1, <1>2, InvHolds, PTL DEF Spec, ImplementsSessionLife, Life!Spec

=============================================================================
