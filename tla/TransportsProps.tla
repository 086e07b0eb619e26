--------------------------- MODULE TransportsProps ---------------------------
(***************************************************************************)
(* The properties of the transports of server mode and of its end.         *)
(***************************************************************************)
EXTENDS Transports

\* The state keeps its types, and a connection or client is in the middle of
\* its life exactly when onConnect was called for it and onDisconnect was not.
TypeOK ==
    /\ known \in SUBSET Sessions
    /\ called \in [Sessions -> {"nothing", "connect", "disconnect"}]
    /\ stage \in [Conns -> Stage]
    /\ socket \in [Conns -> {"open", "shut"}]
    /\ accepting \in BOOLEAN
    /\ made \in 0..MaxClients
    /\ addr \in [Clients -> Addrs]
    /\ clients \in SUBSET (1..made)
    /\ addrToSess \in [Addrs -> 0..MaxClients]
    /\ old \in SUBSET (1..made)
    /\ reading \in SUBSET [from : Addrs, client : 0..made,
                           step : {"read", "new", "found", "handling"}]
    /\ \A q, r \in reading : q = r
    /\ evicted \in SUBSET (1..made)
    /\ loops \in SUBSET Loops
    /\ main \in Main
    /\ late \in SUBSET Sessions
    /\ \A c \in Conns :
          called[c] = "connect" <=> stage[c] \in {"reading", "handling", "leaving"}

\* Every session in the manager has somebody who will remove it: the goroutine
\* of its connection, an entry that timeoutLoop will find, or timeoutLoop
\* itself, which is not done with it (transport.go:97-106, udp.go:256-276).
\* Otherwise broadcasts would be queued for it for ever.
EverySessionHasAnEnd ==
    \A s \in known :
        \/ s \in Conns /\ stage[s] \in Stage \ {"none", "accepted", "ended"}
        \/ s \in clients /\ addrToSess[addr[s]] = s
        \/ s \in evicted /\ "timeoutLoop" \in loops

\* When main returns, and by that closes the registry and the projector, no
\* request is handled and no callback of a transport is under way, and only
\* UDP sessions are left in the manager (cmd/server/main.go:137-145).
NothingRunsAfterExit ==
    main = "exited" =>
        /\ \A c \in Conns : stage[c] \in {"none", "ended"}
        /\ reading = {} /\ evicted = {}
        /\ known \subseteq clients

-----------------------------------------------------------------------------
(* The transports implement the abstract life of a session. *)

PhaseOf(s) ==
    IF called[s] = "disconnect" THEN IF s \in known THEN "leaving" ELSE "gone"
                                ELSE IF s \in known THEN "open" ELSE "new"

Life == INSTANCE SessionLife WITH
    Shared <- Clients,
    phase <- [s \in Sessions |-> PhaseOf(s)],
    handling <- {c \in Conns : stage[c] = "handling"}
                \cup {r.client : r \in {x \in reading : x.step = "handling"}}

\* A TCP session's requests are all handled while it is open.  A UDP session may
\* be closed by timeoutLoop while readLoop has a datagram of it in hand
\* (udp.go:138-153, 183, 264-275): one request may begin after onDisconnect, but
\* no second one, and no session is opened or closed twice.
ImplementsSessionLife == Life!Spec

-----------------------------------------------------------------------------
(* Liveness, under FairSpec *)

\* After a signal main returns, unless a TCP client keeps its connection open
\* and sends nothing: nobody closes the connections, and handleConn looks at
\* stopChan between two lines only (transport.go:73-79, 113-119).
ServerStops ==
    main = "stopping TCP"
    ~> \/ main = "exited"
       \/ [](\E c \in Conns : stage[c] = "reading" /\ socket[c] = "open")

=============================================================================
