------------------------------ MODULE UDPPeering ------------------------------
(***************************************************************************)
(* The UDP peering manager of internal/peering/udp.go.  There are no       *)
(* connections: an address becomes a peer when it is dialled or when its   *)
(* first datagram arrives, and ceases to be one after 30 s of silence.     *)
(*                                                                         *)
(* readLoop handles the datagrams, timeoutLoop evicts, and every Dial has  *)
(* a goroutine of its own; the three meet at m.mu, and hold the peers they *)
(* have found there after they have let go of it.  Events are emitted      *)
(* without the lock; told[p] are the kinds emitted of peer p, whether or   *)
(* not the channel took them.                                              *)
(*                                                                         *)
(* Silence is abstract here: any peer may grow old at any moment.  Its     *)
(* length, the heartbeats and their loss are the subject of Heartbeat.     *)
(***************************************************************************)
EXTENDS Naturals, FiniteSets

CONSTANTS
    Addrs,      \* the addresses of remote peers
    MaxPeers    \* bound: how many peers are made

ASSUME UDPPeeringAssumption == Addrs # {} /\ MaxPeers \in Nat

Ids  == 1..MaxPeers
NoId == 0

VARIABLES
    made,       \* m.counter
    addr,       \* the address each peer was made for
    peers,      \* the IDs in m.peers
    addrToPeer, \* m.addrToPeer, NoId when the address has no entry
    old,        \* peers not heard of for more than udpPeerTimeout
    reading,    \* the datagram readLoop has in hand, if any: where it is from,
                \* its peer once that was looked up, and whether the peer is new
    dialing,    \* the peers Dial calls have made and not yet announced
    evicted,    \* the peers timeoutLoop has evicted and not yet announced
    told,       \* per peer: the kinds of events emitted of it
    after,      \* history: how many messages followed its closed event
    loops,      \* the goroutines that have not returned
    stop        \* how far Stop has come

tables == <<made, addr, peers, addrToPeer>>
events == <<told, after>>
vars == <<tables, old, reading, dialing, evicted, events, loops, stop>>

Loops == {"readLoop", "writeLoop", "timeoutLoop"}
Kinds == {"connected", "message", "closed"}

Init ==
    /\ made = 0
    /\ addr = [p \in Ids |-> CHOOSE a \in Addrs : TRUE]
    /\ peers = {}
    /\ addrToPeer = [a \in Addrs |-> NoId]
    /\ old = {}
    /\ reading = {}
    /\ dialing = {}
    /\ evicted = {}
    /\ told = [p \in Ids |-> {}]
    /\ after = [p \in Ids |-> 0]
    /\ loops = Loops
    /\ stop = "no"

-----------------------------------------------------------------------------
(* Pieces of the critical sections *)

\* The bound: room for another peer besides the one readLoop may have to make.
Room == made + Cardinality({r \in reading : r.peer = NoId}) < MaxPeers

\* newPeer, with m.mu held.
NewPeer(a) ==
    /\ made' = made + 1
    /\ addr' = [addr EXCEPT ![made + 1] = a]
    /\ peers' = peers \cup {made + 1}
    /\ addrToPeer' = [addrToPeer EXCEPT ![a] = made + 1]

Emit(p, kind) ==
    /\ told' = [told EXCEPT ![p] = @ \cup {kind}]
    /\ after' = IF kind = "message" /\ "closed" \in told[p]
                  THEN [after EXCEPT ![p] = @ + 1] ELSE after

-----------------------------------------------------------------------------
(* Dial *)

\* A variant: whether the address has a peer is looked up before m.mu is taken
\* for the insertion.
DialUnchecked(a) ==
    /\ Room
    /\ NewPeer(a)
    /\ dialing' = dialing \cup {made + 1}
    /\ UNCHANGED <<old, reading, evicted, events, loops, stop>>

\* Nothing happens if the address has a peer.
Dial(a) ==
    /\ addrToPeer[a] = NoId
    /\ Room
    /\ NewPeer(a)
    /\ dialing' = dialing \cup {made + 1}
    /\ UNCHANGED <<old, reading, evicted, events, loops, stop>>

AnnounceDialled(p) ==
    /\ p \in dialing
    /\ Emit(p, "connected")
    /\ dialing' = dialing \ {p}
    /\ UNCHANGED <<tables, old, reading, evicted, loops, stop>>

-----------------------------------------------------------------------------
(* readLoop *)

\* ReadFromUDP has returned a datagram; it fails once Stop has closed the socket.
Receive(a) ==
    /\ "readLoop" \in loops
    /\ reading = {}
    /\ stop = "no"
    /\ Room
    /\ reading' = {[from |-> a, peer |-> NoId, new |-> FALSE]}
    /\ UNCHANGED <<tables, old, dialing, evicted, events, loops, stop>>

\* handleDatagram finds the peer of the address or makes one.
Lookup ==
    /\ \E r \in reading :
          /\ r.peer = NoId
          /\ IF addrToPeer[r.from] = NoId
               THEN /\ NewPeer(r.from)
                    /\ reading' = {[r EXCEPT !.peer = made + 1, !.new = TRUE]}
               ELSE /\ reading' = {[r EXCEPT !.peer = addrToPeer[r.from]]}
                    /\ UNCHANGED tables
    /\ UNCHANGED <<old, dialing, evicted, events, loops, stop>>

\* A variant: the peer that was made is not announced.
AnnounceNobody ==
    /\ \E r \in reading :
          /\ r.new
          /\ reading' = {[r EXCEPT !.new = FALSE]}
    /\ UNCHANGED <<tables, old, dialing, evicted, events, loops, stop>>

AnnounceNew ==
    /\ \E r \in reading :
          /\ r.new
          /\ Emit(r.peer, "connected")
          /\ reading' = {[r EXCEPT !.new = FALSE]}
    /\ UNCHANGED <<tables, old, dialing, evicted, loops, stop>>

\* The peer in hand is touched and its message emitted, whatever became of it
\* since it was looked up.  Pings, pongs and what is no JSON emit nothing.
Handle ==
    /\ \E r \in reading :
          /\ r.peer # NoId /\ ~r.new
          /\ old' = old \ {r.peer}
          /\ Emit(r.peer, "message") \/ UNCHANGED events
    /\ reading' = {}
    /\ UNCHANGED <<tables, dialing, evicted, loops, stop>>

-----------------------------------------------------------------------------
(* timeoutLoop *)

\* Thirty seconds pass without a datagram.  A goroutine is not held up for so
\* long between two statements: not while a new peer is being announced.
GrowOld(p) ==
    /\ p \in peers \ (old \cup dialing)
    /\ \A r \in reading : ~(r.peer = p /\ r.new)
    /\ old' = old \cup {p}
    /\ UNCHANGED <<tables, reading, dialing, evicted, events, loops, stop>>

\* A variant: the entry of the address is left behind.
EvictFromOneTable ==
    /\ "timeoutLoop" \in loops
    /\ evicted = {}
    /\ old \cap peers # {}
    /\ evicted' = old \cap peers
    /\ peers' = peers \ old
    /\ UNCHANGED <<made, addr, addrToPeer, old, reading, dialing, events, loops, stop>>

EvictExpired ==
    /\ "timeoutLoop" \in loops
    /\ evicted = {}
    /\ old \cap peers # {}
    /\ evicted' = old \cap peers
    /\ peers' = peers \ old
    /\ addrToPeer' = [a \in Addrs |-> IF \E p \in evicted' : addr[p] = a
                                        THEN NoId ELSE addrToPeer[a]]
    /\ UNCHANGED <<made, addr, old, reading, dialing, events, loops, stop>>

AnnounceEvicted(p) ==
    /\ p \in evicted
    /\ Emit(p, "closed")
    /\ evicted' = evicted \ {p}
    /\ UNCHANGED <<tables, old, reading, dialing, loops, stop>>

-----------------------------------------------------------------------------
(* Stop *)

\* stopChan and the socket are closed.
Stop ==
    /\ stop = "no"
    /\ stop' = "waiting"
    /\ UNCHANGED <<tables, old, reading, dialing, evicted, events, loops>>

\* A loop returns between two rounds.
LoopEnds(l) ==
    /\ l \in loops
    /\ stop = "waiting"
    /\ l = "readLoop" => reading = {}
    /\ l = "timeoutLoop" => evicted = {}
    /\ loops' = loops \ {l}
    /\ UNCHANGED <<tables, old, reading, dialing, evicted, events, stop>>

\* m.wg.Wait has returned.
Return ==
    /\ stop = "waiting"
    /\ loops = {}
    /\ stop' = "returned"
    /\ UNCHANGED <<tables, old, reading, dialing, evicted, events, loops>>

-----------------------------------------------------------------------------
\* What the goroutines do of their own accord.
ReadLoop    == Lookup \/ AnnounceNew \/ Handle \/ LoopEnds("readLoop")
TimeoutLoop == EvictExpired \/ (\E p \in Ids : AnnounceEvicted(p)) \/ LoopEnds("timeoutLoop")
Internal == ReadLoop \/ TimeoutLoop \/ LoopEnds("writeLoop") \/ Return
            \/ \E p \in Ids : AnnounceDialled(p)

Next ==
    \/ \E a \in Addrs : Dial(a) \/ Receive(a)
    \/ \E p \in Ids : GrowOld(p)
    \/ Stop
    \/ Internal

Spec == Init /\ [][Next]_vars

\* The goroutines are scheduled, and the loops look at stopChan at every round.
Fairness ==
    /\ WF_vars(ReadLoop)
    /\ WF_vars(TimeoutLoop)
    /\ WF_vars(LoopEnds("writeLoop"))
    /\ \A p \in Ids : WF_vars(AnnounceDialled(p))
    /\ WF_vars(Return)

FairSpec == Spec /\ Fairness

=============================================================================
