-------------------------------- MODULE Peering --------------------------------
(***************************************************************************)
(* The TCP peering manager of internal/peering/peering.go: connections that *)
(* are accepted or dialled, the table of peers, and Stop.                  *)
(*                                                                         *)
(* An accepted connection is served by handleInbound on a goroutine that   *)
(* the WaitGroup counts from the start.  A dialled one is announced by     *)
(* Dial, which nothing counts, and served by handleOutbound, which is      *)
(* counted.  Stop may be called at any moment of either.                   *)
(*                                                                         *)
(* The outbox and the channel of events, which drop what does not fit, are *)
(* those of Gossip.  Here said[c] is what was last emitted of c, whether   *)
(* or not the channel took it: it keeps the order.                         *)
(***************************************************************************)
EXTENDS Naturals, FiniteSets

CONSTANTS
    Inbound,    \* connections a remote peer opens, and that acceptLoop accepts
    Outbound    \* connections that Dial opens

ASSUME PeeringAssumption == Inbound \cap Outbound = {}

Conns == Inbound \cup Outbound

VARIABLES
    stage,      \* how far the goroutine that serves a connection has come
    socket,     \* the connection itself: "shut" by the remote, "closed" by Peer.Close
    id,         \* peer IDs: <<the clock's reading, len(m.peers)>>
    clock,      \* the last reading of the clock
    tcpPeers,   \* the connections whose peer is in m.peers
    said,       \* the last event of each connection
    accepting,  \* acceptLoop has not returned
    tcpStop,    \* how far Stop has come
    found       \* history: the peers Stop has found in the table

tcpVars == <<stage, socket, id, clock, tcpPeers, said, accepting, tcpStop, found>>

Stage == {"none", "open", "named", "added", "reading", "removed", "ended"}

NoTCPId == <<0, 0>>
TCPIds  == Nat \X Nat

\* The goroutines m.wg counts.
Counted == {c \in Inbound : stage[c] \notin {"none", "ended"}}
           \cup {c \in Outbound : stage[c] \in {"reading", "removed"}}

TCPInit ==
    /\ stage = [c \in Conns |-> "none"]
    /\ socket = [c \in Conns |-> "none"]
    /\ id = [c \in Conns |-> NoTCPId]
    /\ clock = 0
    /\ tcpPeers = {}
    /\ said = [c \in Conns |-> "nothing"]
    /\ accepting = TRUE
    /\ tcpStop = "no"
    /\ found = {}

-----------------------------------------------------------------------------
(* The life of a connection *)

Open(c) ==
    /\ stage[c] = "none"
    /\ stage' = [stage EXCEPT ![c] = "open"]
    /\ socket' = [socket EXCEPT ![c] = "open"]
    /\ UNCHANGED <<id, clock, tcpPeers, said, accepting, tcpStop, found>>

\* acceptLoop: Accept fails once Stop has closed the listener.
Accept(c) == c \in Inbound /\ accepting /\ tcpStop = "no" /\ Open(c)

\* Dial never looks at stopChan.
TCPDial(c) == c \in Outbound /\ Open(c)

\* The ID is made before the lock is taken; two goroutines may read the same
\* instant from the clock.
MakeId(c) ==
    /\ stage[c] = "open"
    /\ stage' = [stage EXCEPT ![c] = "named"]
    /\ \E instant \in {clock, clock + 1} \ {0} :
          /\ clock' = instant
          /\ id' = [id EXCEPT ![c] = <<instant, Cardinality(tcpPeers)>>]
    /\ UNCHANGED <<socket, tcpPeers, said, accepting, tcpStop, found>>

\* addPeer replaces the peer that has the same ID.
AddPeer(c) ==
    /\ stage[c] = "named"
    /\ stage' = [stage EXCEPT ![c] = "added"]
    /\ tcpPeers' = {d \in tcpPeers : id[d] # id[c]} \cup {c}
    /\ UNCHANGED <<socket, id, clock, said, accepting, tcpStop, found>>

\* A variant: Dial starts the reader before it emits the event.
ServeFirst(c) ==
    /\ stage[c] = "added"
    /\ stage' = [stage EXCEPT ![c] = "reading"]
    /\ said' = IF c \in Inbound THEN [said EXCEPT ![c] = "connected"] ELSE said
    /\ UNCHANGED <<socket, id, clock, tcpPeers, accepting, tcpStop, found>>

\* The connected event, and the start of handleOutbound.
Announce(c) ==
    /\ stage[c] = "added"
    /\ stage' = [stage EXCEPT ![c] = "reading"]
    /\ said' = [said EXCEPT ![c] = "connected"]
    /\ UNCHANGED <<socket, id, clock, tcpPeers, accepting, tcpStop, found>>

Read(c) ==
    /\ stage[c] = "reading"
    /\ socket[c] = "open"
    /\ said' = [said EXCEPT ![c] = "message"]
    /\ UNCHANGED <<stage, socket, id, clock, tcpPeers, accepting, tcpStop, found>>

\* The remote peer ends the connection, or it breaks.
Shut(c) ==
    /\ socket[c] = "open"
    /\ socket' = [socket EXCEPT ![c] = "shut"]
    /\ UNCHANGED <<stage, id, clock, tcpPeers, said, accepting, tcpStop, found>>

\* Peer.Close of everybody in S, by the goroutine that holds them.
CloseAll(S) == socket' = [c \in Conns |-> IF c \in S THEN "closed" ELSE socket[c]]

\* A variant: the peer that the reader serves is closed and the table's entry
\* is deleted whoever it belongs to.
RemoveOwn(c) ==
    /\ stage[c] = "reading"
    /\ socket[c] # "open"
    /\ stage' = [stage EXCEPT ![c] = "removed"]
    /\ tcpPeers' = tcpPeers \ {c}
    /\ UNCHANGED <<socket, id, clock, said, accepting, tcpStop, found>>

\* The reader gets an error; removePeer closes the peer it finds under the ID.
RemovePeer(c) ==
    /\ stage[c] = "reading"
    /\ socket[c] # "open"
    /\ stage' = [stage EXCEPT ![c] = "removed"]
    /\ LET entry == {d \in tcpPeers : id[d] = id[c]}
       IN  tcpPeers' = tcpPeers \ entry /\ CloseAll(entry)
    /\ UNCHANGED <<id, clock, said, accepting, tcpStop, found>>

\* The closed event; the goroutine is done.
End(c) ==
    /\ stage[c] = "removed"
    /\ stage' = [stage EXCEPT ![c] = "ended"]
    /\ said' = [said EXCEPT ![c] = "closed"]
    /\ UNCHANGED <<socket, id, clock, tcpPeers, accepting, tcpStop, found>>

-----------------------------------------------------------------------------
(* Stop *)

\* stopChan and the listener are closed.
TCPStop ==
    /\ tcpStop = "no"
    /\ tcpStop' = "closing"
    /\ UNCHANGED <<stage, socket, id, clock, tcpPeers, said, accepting, found>>

AcceptLoopEnds ==
    /\ accepting
    /\ tcpStop # "no"
    /\ accepting' = FALSE
    /\ UNCHANGED <<stage, socket, id, clock, tcpPeers, said, tcpStop, found>>

\* A variant: only the connections this side has dialled are closed.
CloseDialled ==
    /\ tcpStop = "closing"
    /\ tcpStop' = "waiting"
    /\ CloseAll(tcpPeers \cap Outbound)
    /\ found' = tcpPeers
    /\ UNCHANGED <<stage, id, clock, tcpPeers, said, accepting>>

ClosePeers ==
    /\ tcpStop = "closing"
    /\ tcpStop' = "waiting"
    /\ CloseAll(tcpPeers)
    /\ found' = tcpPeers
    /\ UNCHANGED <<stage, id, clock, tcpPeers, said, accepting>>

\* A variant: nobody waits for acceptLoop.
ReturnWithoutLoop ==
    /\ tcpStop = "waiting"
    /\ Counted = {}
    /\ tcpStop' = "returned"
    /\ UNCHANGED <<stage, socket, id, clock, tcpPeers, said, accepting, found>>

\* m.wg.Wait has returned.
TCPReturn ==
    /\ tcpStop = "waiting"
    /\ ~accepting
    /\ Counted = {}
    /\ tcpStop' = "returned"
    /\ UNCHANGED <<stage, socket, id, clock, tcpPeers, said, accepting, found>>

-----------------------------------------------------------------------------
\* What the goroutine of a connection does of its own accord.
Serve(c) == MakeId(c) \/ AddPeer(c) \/ Announce(c) \/ RemovePeer(c) \/ End(c)

TCPNext ==
    \/ \E c \in Conns : Accept(c) \/ TCPDial(c) \/ Read(c) \/ Shut(c) \/ Serve(c)
    \/ TCPStop \/ AcceptLoopEnds \/ ClosePeers \/ TCPReturn

TCPSpec == TCPInit /\ [][TCPNext]_tcpVars

\* Goroutines are scheduled, Stop goes on once it was called; nothing is
\* assumed of the remote peers.
TCPFairness ==
    /\ \A c \in Conns : WF_tcpVars(Serve(c))
    /\ WF_tcpVars(AcceptLoopEnds)
    /\ WF_tcpVars(ClosePeers \/ TCPReturn)

TCPFairSpec == TCPSpec /\ TCPFairness

=============================================================================
