----------------------------- MODULE PeeringProofs -----------------------------
(***************************************************************************)
(* Proofs about the peering managers: UDP and TCP, each by itself and both *)
(* behind NewFanInManager, for any number of connections and of addresses  *)
(* and any number of peers made; and the heartbeats between two UDP        *)
(* managers, for any period and any timeout.                               *)
(***************************************************************************)
EXTENDS FanInProps, HeartbeatProps, FiniteSetTheorems, TLAPS

USE UDPPeeringAssumption, PeeringAssumption

\* A datagram whose peer is still looked up has room for a new one.
HandFits ==
    \A r \in reading : r.peer = NoId => made < MaxPeers /\ ~r.new

\* Nothing was said of the peers still to be made.
FutureUntold ==
    \A p \in Ids : p > made => told[p] = {} /\ after[p] = 0

\* The last word of a peer takes the datagram in hand with it.
LastWordIsOut ==
    \A p \in Ids :
        /\ after[p] <= 1
        /\ after[p] = 1 => "closed" \in told[p] /\ \A r \in reading : r.peer # p

\* The inductive invariant.
Inv ==
    /\ TypeOK
    /\ TablesAgree
    /\ NobodyVanishes
    /\ HandFits
    /\ FutureUntold
    /\ LastWordIsOut

-----------------------------------------------------------------------------
(* UDP: the bound on the peers that are made *)

LEMMA RoomIsRoom ==
    ASSUME TypeOK, Room
    PROVE  /\ made + 1 \in Ids
           /\ (\E r \in reading : r.peer = NoId) => made + 1 < MaxPeers
<1> DEFINE unknown == {r \in reading : r.peer = NoId}
<1>1. made + Cardinality(unknown) < MaxPeers
  BY DEF Room
<1>2. CASE unknown = {}
  <2>1. Cardinality(unknown) = 0
    BY <1>2, FS_EmptySet
  <2>2. QED
    BY <1>1, <1>2, <2>1 DEF TypeOK, Ids
<1>3. ASSUME NEW r \in unknown
      PROVE  made + 1 < MaxPeers
  <2>1. unknown = {r}
    BY <1>3 DEF TypeOK
  <2>2. Cardinality(unknown) = 1
    BY <2>1, FS_Singleton
  <2>3. QED
    BY <1>1, <2>2 DEF TypeOK
<1>4. QED
  BY <1>2, <1>3 DEF TypeOK, Ids

LEMMA NewPeerFacts ==
    ASSUME Inv, NEW a \in Addrs, addrToPeer[a] = NoId, made + 1 \in Ids,
           NewPeer(a)
    PROVE  /\ made' \in 0..MaxPeers /\ made' = made + 1
           /\ addr' \in [Ids -> Addrs]
           /\ peers' \in SUBSET (1..made')
           /\ addrToPeer' \in [Addrs -> {NoId} \cup Ids]
           /\ TablesAgree'
<1>1. /\ made \in Nat /\ made + 1 # NoId /\ made + 1 \notin peers
      /\ NoId \notin Ids
  BY DEF Inv, TypeOK, NoId, Ids
<1> DEFINE new == made + 1
<1>2. /\ new \in Ids /\ new # NoId /\ new \notin peers
      /\ made' = new
      /\ addr' = [addr EXCEPT ![new] = a]
      /\ peers' = peers \cup {new}
      /\ addrToPeer' = [addrToPeer EXCEPT ![a] = new]
  BY <1>1 DEF NewPeer
<1>3. made' \in 0..MaxPeers /\ peers' \in SUBSET (1..made')
  BY <1>1, <1>2 DEF Inv, TypeOK, Ids
<1>4. peers \subseteq Ids
  BY DEF Inv, TypeOK, Ids
<1> HIDE DEF new
<1>5. addr' \in [Ids -> Addrs] /\ addrToPeer' \in [Addrs -> {NoId} \cup Ids]
  BY <1>2 DEF Inv, TypeOK
<1>6. ASSUME NEW p \in peers'
      PROVE  addrToPeer'[addr'[p]] = p
  <2>1. CASE p = new
    BY <1>2, <2>1 DEF Inv, TypeOK
  <2>2. CASE p \in peers
    <3>1. p # new /\ p # NoId /\ addrToPeer[addr[p]] = p
      BY <1>1, <1>2, <1>4, <2>2 DEF Inv, TablesAgree
    <3>2. addr[p] # a /\ addr'[p] = addr[p] /\ addr[p] \in Addrs
      BY <1>2, <1>4, <2>2, <3>1 DEF Inv, TypeOK
    <3>3. QED
      BY <1>2, <3>1, <3>2 DEF Inv, TypeOK
  <2>3. QED
    BY <1>2, <2>1, <2>2
<1>7. ASSUME NEW b \in Addrs, addrToPeer'[b] # NoId
      PROVE  addrToPeer'[b] \in peers' /\ addr'[addrToPeer'[b]] = b
  <2>1. CASE b = a
    BY <1>2, <2>1 DEF Inv, TypeOK
  <2>2. CASE b # a
    BY <1>2, <1>4, <1>7, <2>2 DEF Inv, TypeOK, TablesAgree
  <2>3. QED
    BY <2>1, <2>2
<1>8. QED
  BY <1>2, <1>3, <1>5, <1>6, <1>7 DEF TablesAgree, new

-----------------------------------------------------------------------------
(* The invariant is inductive *)

LEMMA InvHolds == Spec => []Inv
<1>1. Init => Inv
  BY DEF Init, Inv, TypeOK, TablesAgree, NobodyVanishes, HandFits, FutureUntold,
         LastWordIsOut, Loops, Kinds, Ids, NoId
<1>2. Inv /\ [Next]_vars => Inv'
  <2> SUFFICES ASSUME Inv, [Next]_vars
               PROVE  Inv'
    OBVIOUS
  <2>1. ASSUME NEW a \in Addrs, Dial(a)
        PROVE  Inv'
    <3>1. /\ addrToPeer[a] = NoId
          /\ made + 1 \in Ids
          /\ NewPeer(a)
          /\ (\E r \in reading : r.peer = NoId) => made + 1 < MaxPeers
      BY <2>1, RoomIsRoom DEF Dial, Inv
    <3>2. /\ made' \in 0..MaxPeers /\ made' = made + 1
          /\ addr' \in [Ids -> Addrs]
          /\ peers' \in SUBSET (1..made')
          /\ addrToPeer' \in [Addrs -> {NoId} \cup Ids]
          /\ TablesAgree'
      BY <3>1, NewPeerFacts
    <3>3. /\ dialing' = dialing \cup {made + 1}
          /\ peers' = peers \cup {made + 1}
          /\ UNCHANGED <<old, reading, evicted, events, loops, stop>>
      BY <2>1 DEF Dial, NewPeer
    <3>4. TypeOK'
      BY <3>2, <3>3 DEF Inv, TypeOK, Ids, events
    <3>5. NobodyVanishes'
      <4> SUFFICES ASSUME NEW p \in 1..made'
                   PROVE  NobodyVanishes!(p)'
        BY DEF NobodyVanishes
      <4>1. CASE p = made + 1
        BY <3>1, <3>2, <3>3, <4>1 DEF Inv, TypeOK, FutureUntold, events, Ids
      <4>2. CASE p \in 1..made
        BY <3>3, <4>2 DEF Inv, NobodyVanishes, TypeOK, events
      <4>3. QED
        BY <3>2, <4>1, <4>2 DEF Inv, TypeOK
    <3>6. HandFits' /\ FutureUntold' /\ LastWordIsOut'
      BY <3>1, <3>2, <3>3
         DEF Inv, HandFits, FutureUntold, LastWordIsOut, TypeOK, events, Ids
    <3>7. QED
      BY <3>2, <3>4, <3>5, <3>6 DEF Inv
  <2>2. ASSUME NEW p \in Ids, AnnounceDialled(p)
        PROVE  Inv'
    BY <2>2
       DEF AnnounceDialled, Emit, Inv, TypeOK, TablesAgree, NobodyVanishes,
           HandFits, FutureUntold, LastWordIsOut, Kinds, tables, Ids
  <2>3. ASSUME NEW a \in Addrs, Receive(a)
        PROVE  Inv'
    <3>1. made + 1 \in Ids
      BY <2>3, RoomIsRoom DEF Receive, Inv
    <3>2. QED
      BY <2>3, <3>1
         DEF Receive, Inv, TypeOK, TablesAgree, NobodyVanishes,
             HandFits, FutureUntold, LastWordIsOut, tables, events, Ids, NoId
  <2>4. CASE Lookup
    <3>1. PICK r \in reading :
             /\ r.peer = NoId
             /\ IF addrToPeer[r.from] = NoId
                  THEN /\ NewPeer(r.from)
                       /\ reading' = {[r EXCEPT !.peer = made + 1, !.new = TRUE]}
                  ELSE /\ reading' = {[r EXCEPT !.peer = addrToPeer[r.from]]}
                       /\ UNCHANGED tables
      BY <2>4 DEF Lookup
    <3>2. UNCHANGED <<old, dialing, evicted, events, loops, stop>>
      BY <2>4 DEF Lookup
    <3>3. /\ r \in [from : Addrs, peer : 0..made, new : BOOLEAN]
          /\ reading = {r}
          /\ ~r.new
          /\ made + 1 \in Ids
      BY <3>1 DEF Inv, TypeOK, HandFits, Ids
    <3>4. CASE addrToPeer[r.from] = NoId
      <4>1. /\ made' \in 0..MaxPeers /\ made' = made + 1
            /\ addr' \in [Ids -> Addrs]
            /\ peers' \in SUBSET (1..made')
            /\ addrToPeer' \in [Addrs -> {NoId} \cup Ids]
            /\ TablesAgree'
        BY <3>1, <3>3, <3>4, NewPeerFacts
      <4>2. PICK s \in reading' :
               /\ peers' = peers \cup {made + 1}
               /\ reading' = {s}
               /\ s \in [from : Addrs, peer : 0..made', new : BOOLEAN]
               /\ s.peer = made + 1 /\ s.new
        <5> DEFINE s == [r EXCEPT !.peer = made + 1, !.new = TRUE]
        <5>1. reading' = {s} /\ peers' = peers \cup {made + 1}
          BY <3>1, <3>4 DEF NewPeer
        <5>2. s.peer = made + 1 /\ s.new = TRUE
          BY <3>3
        <5>3. made + 1 \in 0..made'
          BY <4>1 DEF Inv, TypeOK
        <5>4. s \in [from : Addrs, peer : 0..made', new : BOOLEAN]
          BY <3>3, <5>3
        <5>5. QED
          BY <5>1, <5>2, <5>4
      <4>3. TypeOK'
        BY <3>2, <3>3, <4>1, <4>2 DEF Inv, TypeOK, Ids, events
      <4>4. NobodyVanishes'
        <5> SUFFICES ASSUME NEW p \in 1..made'
                     PROVE  NobodyVanishes!(p)'
          BY DEF NobodyVanishes
        <5>1. CASE p = made + 1
          BY <3>2, <3>3, <4>1, <4>2, <5>1
             DEF Inv, TypeOK, FutureUntold, events, Ids
        <5>2. CASE p \in 1..made
          BY <3>2, <3>3, <4>2, <5>2 DEF Inv, NobodyVanishes, TypeOK, events
        <5>3. QED
          BY <4>1, <5>1, <5>2 DEF Inv, TypeOK
      <4>5. HandFits' /\ FutureUntold'
        BY <3>2, <3>3, <4>1, <4>2
           DEF Inv, HandFits, FutureUntold, TypeOK, events, Ids, NoId
      <4>6. LastWordIsOut'
        BY <3>2, <3>3, <4>1, <4>2
           DEF Inv, FutureUntold, LastWordIsOut, TypeOK, events, Ids
      <4>7. QED
        BY <4>1, <4>3, <4>4, <4>5, <4>6 DEF Inv
    <3>5. CASE addrToPeer[r.from] # NoId
      <4> DEFINE q == addrToPeer[r.from]
      <4>1. /\ q \in peers /\ q \in 1..made /\ q \in Ids
            /\ reading' = {[r EXCEPT !.peer = q]}
            /\ UNCHANGED tables
        BY <3>1, <3>3, <3>5 DEF Inv, TypeOK, TablesAgree
      <4>2. "closed" \notin told[q]
        BY <4>1 DEF Inv, NobodyVanishes
      <4> HIDE DEF q
      <4> DEFINE s == [r EXCEPT !.peer = q]
      <4>3. /\ s \in [from : Addrs, peer : 0..made, new : BOOLEAN]
            /\ s.peer = q /\ ~s.new /\ reading' = {s}
        BY <3>3, <4>1 DEF Inv, TypeOK
      <4> HIDE DEF s
      <4>4. TypeOK' /\ TablesAgree'
        BY <3>2, <3>3, <4>1, <4>3 DEF Inv, TypeOK, TablesAgree, tables, events
      <4>5. NobodyVanishes'
        BY <3>2, <3>3, <4>1, <4>3 DEF Inv, NobodyVanishes, tables, events
      <4>6. HandFits' /\ FutureUntold' /\ LastWordIsOut'
        BY <3>2, <3>3, <4>1, <4>3, <4>2
           DEF Inv, HandFits, FutureUntold, LastWordIsOut, tables, events, NoId
      <4>7. QED
        BY <4>4, <4>5, <4>6 DEF Inv
    <3>6. QED
      BY <3>4, <3>5
  <2>5. CASE AnnounceNew
    <3>1. PICK r \in reading :
             r.new /\ Emit(r.peer, "connected") /\ reading' = {[r EXCEPT !.new = FALSE]}
      BY <2>5 DEF AnnounceNew
    <3>2. UNCHANGED <<tables, old, dialing, evicted, loops, stop>>
      BY <2>5 DEF AnnounceNew
    <3> DEFINE q == r.peer
               s == [r EXCEPT !.new = FALSE]
    <3>3. /\ q \in 1..made /\ q \in Ids /\ reading = {r}
          /\ s \in [from : Addrs, peer : 0..made, new : BOOLEAN]
          /\ s.peer = q /\ ~s.new /\ reading' = {s}
      <4>1. r \in [from : Addrs, peer : 0..made, new : BOOLEAN] /\ reading = {r}
        BY <3>1 DEF Inv, TypeOK
      <4>2. q # 0
        BY <3>1 DEF Inv, HandFits, NoId
      <4>3. q \in 1..made /\ q \in Ids
        BY <4>1, <4>2 DEF Inv, TypeOK, Ids
      <4>4. QED
        BY <3>1, <4>1, <4>3
    <3>4. /\ told' = [told EXCEPT ![q] = @ \cup {"connected"}]
          /\ UNCHANGED after
      BY <3>1 DEF Emit
    <3> HIDE DEF s
    <3>5. TypeOK' /\ TablesAgree'
      BY <3>2, <3>3, <3>4 DEF Inv, TypeOK, TablesAgree, Kinds, tables
    <3>6. NobodyVanishes'
      BY <3>2, <3>3, <3>4 DEF Inv, TypeOK, NobodyVanishes, tables, Ids
    <3>7. HandFits' /\ FutureUntold' /\ LastWordIsOut'
      BY <3>2, <3>3, <3>4
         DEF Inv, TypeOK, HandFits, FutureUntold, LastWordIsOut, tables, NoId
    <3>8. QED
      BY <3>5, <3>6, <3>7 DEF Inv
  <2>6. CASE Handle
    <3>1. PICK r \in reading :
             /\ r.peer # NoId /\ ~r.new
             /\ old' = old \ {r.peer}
             /\ Emit(r.peer, "message") \/ UNCHANGED events
      BY <2>6 DEF Handle
    <3>2. reading' = {} /\ UNCHANGED <<tables, dialing, evicted, loops, stop>>
      BY <2>6 DEF Handle
    <3> DEFINE q == r.peer
    <3>3. q \in 1..made /\ q \in Ids /\ reading = {r}
      BY <3>1 DEF Inv, TypeOK, Ids, NoId
    <3>4. after[q] = 0
      BY <3>3 DEF Inv, TypeOK, LastWordIsOut
    <3>5. /\ told' \in [Ids -> SUBSET Kinds]
          /\ \A p \in Ids : told'[p] = told[p] \/ told'[p] = told[p] \cup {"message"}
          /\ \A p \in Ids : p # q => told'[p] = told[p] /\ after'[p] = after[p]
          /\ after' \in [Ids -> Nat]
          /\ after'[q] \in {0, 1}
          /\ after'[q] = 1 => "closed" \in told[q]
      BY <3>1, <3>3, <3>4 DEF Emit, Inv, TypeOK, Kinds, events
    <3>6. TypeOK' /\ TablesAgree'
      BY <3>1, <3>2, <3>5 DEF Inv, TypeOK, TablesAgree, tables
    <3>7. NobodyVanishes'
      <4>1. \A p \in 1..made : ~ \E s \in reading : s.peer = p /\ s.new
        BY <3>1, <3>3
      <4>2. ASSUME NEW p \in 1..made
            PROVE  /\ "connected" \in told[p] => "connected" \in told'[p]
                   /\ "closed" \in told'[p] <=> "closed" \in told[p]
        <5>1. p \in Ids
          BY DEF Inv, TypeOK, Ids
        <5>2. told'[p] = told[p] \/ told'[p] = told[p] \cup {"message"}
          BY <3>5, <5>1
        <5>3. QED
          BY <5>2
      <4>3. QED
        BY <3>2, <4>1, <4>2 DEF Inv, NobodyVanishes, tables
    <3> HIDE DEF q
    <3>8. HandFits'
      BY <3>2 DEF HandFits
    <3>9. FutureUntold'
      <4> SUFFICES ASSUME NEW p \in Ids, p > made
                   PROVE  told'[p] = {} /\ after'[p] = 0
        BY <3>2 DEF FutureUntold, tables
      <4>1. p # q
        BY <3>3 DEF Inv, TypeOK
      <4>2. QED
        BY <3>5, <4>1 DEF Inv, FutureUntold
    <3>10. LastWordIsOut'
      <4> SUFFICES ASSUME NEW p \in Ids
                   PROVE  /\ after'[p] <= 1
                          /\ after'[p] = 1 => "closed" \in told'[p]
        BY <3>2 DEF LastWordIsOut
      <4>1. CASE p = q
        BY <3>5, <4>1
      <4>2. CASE p # q
        BY <3>5, <4>2 DEF Inv, LastWordIsOut
      <4>3. QED
        BY <4>1, <4>2
    <3>11. QED
      BY <3>6, <3>7, <3>8, <3>9, <3>10 DEF Inv
  <2>7. ASSUME NEW p \in Ids, GrowOld(p)
        PROVE  Inv'
    BY <2>7
       DEF GrowOld, Inv, TypeOK, TablesAgree, NobodyVanishes,
           HandFits, FutureUntold, LastWordIsOut, tables, events
  <2>8. CASE EvictExpired
    <3>1. TypeOK' /\ HandFits' /\ FutureUntold' /\ LastWordIsOut'
      BY <2>8
         DEF EvictExpired, Inv, TypeOK, HandFits, FutureUntold, LastWordIsOut,
             events, Ids, NoId
    <3>2. TablesAgree'
      BY <2>8 DEF EvictExpired, Inv, TypeOK, TablesAgree, Ids, NoId
    <3>3. NobodyVanishes'
      BY <2>8 DEF EvictExpired, Inv, TypeOK, NobodyVanishes, events
    <3>4. QED
      BY <3>1, <3>2, <3>3 DEF Inv
  <2>9. ASSUME NEW p \in Ids, AnnounceEvicted(p)
        PROVE  Inv'
    BY <2>9
       DEF AnnounceEvicted, Emit, Inv, TypeOK, TablesAgree, NobodyVanishes,
           HandFits, FutureUntold, LastWordIsOut, Kinds, tables, Ids
  <2>10. CASE Stop \/ Return \/ UNCHANGED vars \/ \E l \in Loops : LoopEnds(l)
    <3>1. /\ UNCHANGED <<tables, old, reading, dialing, evicted, events>>
          /\ loops' \in SUBSET Loops
          /\ stop' \in {"no", "waiting", "returned"}
      BY <2>10 DEF Stop, Return, vars, LoopEnds, Inv, TypeOK
    <3>2. TypeOK' /\ TablesAgree' /\ NobodyVanishes'
      BY <3>1 DEF Inv, TypeOK, TablesAgree, NobodyVanishes, tables, events
    <3>3. HandFits' /\ FutureUntold' /\ LastWordIsOut'
      BY <3>1 DEF Inv, HandFits, FutureUntold, LastWordIsOut, tables, events
    <3>4. QED
      BY <3>2, <3>3 DEF Inv
  <2>11. QED
    BY <2>1, <2>2, <2>3, <2>4, <2>5, <2>6, <2>7, <2>8, <2>9, <2>10
       DEF Next, Internal, ReadLoop, TimeoutLoop, Loops
<1>3. QED
  BY <1>1, <1>2, PTL DEF Spec

-----------------------------------------------------------------------------
(* The theorems *)

\* The manager's data keep their types, and no more peers are made than the
\* bound of the model allows.
THEOREM UDPTypes == Spec => []TypeOK
BY InvHolds, PTL DEF Inv

\* The two tables agree in every interleaving of Dial, readLoop and
\* timeoutLoop: each inserts into both, or deletes from both, in one critical
\* section.
THEOREM Agreement == Spec => []TablesAgree
BY InvHolds, PTL DEF Inv

\* No peer appears or disappears in silence: the goroutine that inserts a peer
\* announces it, and the one that evicts it says so, exactly one of each.
THEOREM Announcement == Spec => []NobodyVanishes
BY InvHolds, PTL DEF Inv

\* At most one message follows the closed event of a peer: that of the datagram
\* which readLoop had in hand when the peer was evicted.  No address leads to
\* the peer afterwards.
THEOREM LastWord == Spec => []OneLastWord
<1>1. Inv => OneLastWord
  BY DEF Inv, LastWordIsOut, OneLastWord
<1>2. QED
  BY <1>1, InvHolds, PTL

-----------------------------------------------------------------------------
(* TCP: type correctness *)

LEMMA MakeIdTypes ==
    ASSUME TCPTypeOK, NEW c \in Conns, MakeId(c)
    PROVE  TCPTypeOK'
<1>1. Cardinality(tcpPeers) \in Nat
  BY FS_CardinalityType DEF TCPTypeOK
<1>2. PICK instant \in {clock, clock + 1} \ {0} :
         /\ clock' = instant
         /\ id' = [id EXCEPT ![c] = <<instant, Cardinality(tcpPeers)>>]
  BY DEF MakeId
<1>3. instant \in Nat /\ instant # 0
  BY DEF TCPTypeOK
<1> DEFINE new == <<instant, Cardinality(tcpPeers)>>
<1>4. new \in TCPIds /\ new # NoTCPId
  BY <1>1, <1>3 DEF TCPIds, NoTCPId
<1> HIDE DEF new
<1>5. id' = [id EXCEPT ![c] = new]
  BY <1>2 DEF new
<1>6. /\ stage[c] = "open"
      /\ stage' = [stage EXCEPT ![c] = "named"]
      /\ UNCHANGED <<socket, tcpPeers, said, accepting, tcpStop, found>>
  BY DEF MakeId
<1>7. /\ clock' \in Nat
      /\ id' \in [Conns -> TCPIds]
      /\ stage' \in [Conns -> Stage]
  BY <1>2, <1>3, <1>4, <1>5, <1>6 DEF TCPTypeOK, Stage
<1>8. ASSUME NEW d \in Conns
      PROVE  /\ socket'[d] = "none" <=> stage'[d] = "none"
             /\ id'[d] = NoTCPId <=> stage'[d] \in {"none", "open"}
             /\ d \in tcpPeers' => stage'[d] \in Served
  <2>1. CASE d = c
    BY <2>1, <1>4, <1>5, <1>6 DEF TCPTypeOK, Served
  <2>2. CASE d # c
    BY <2>2, <1>5, <1>6 DEF TCPTypeOK
  <2>3. QED
    BY <2>1, <2>2
<1>9. QED
  BY <1>6, <1>7, <1>8 DEF TCPTypeOK

\* The manager's data keep their types, a connection has its ID from the moment
\* it is made on, and the table stays finite.
THEOREM TCPTypes == TCPSpec => []TCPTypeOK
<1>1. TCPInit => TCPTypeOK
  BY FS_EmptySet DEF TCPInit, TCPTypeOK, Stage, NoTCPId, TCPIds
<1>2. TCPTypeOK /\ [TCPNext]_tcpVars => TCPTypeOK'
  <2> SUFFICES ASSUME TCPTypeOK, [TCPNext]_tcpVars
               PROVE  TCPTypeOK'
    OBVIOUS
  <2>1. ASSUME NEW c \in Conns, Accept(c) \/ TCPDial(c)
        PROVE  TCPTypeOK'
    BY <2>1
       DEF Accept, TCPDial, Open, TCPTypeOK, Stage, Served
  <2>2. ASSUME NEW c \in Conns, Read(c) \/ Announce(c) \/ End(c)
        PROVE  TCPTypeOK'
    BY <2>2
       DEF Read, Announce, End, TCPTypeOK, Stage, Served
  <2>3. ASSUME NEW c \in Conns, Shut(c)
        PROVE  TCPTypeOK'
    BY <2>3 DEF Shut, TCPTypeOK
  <2>4. ASSUME NEW c \in Conns, AddPeer(c)
        PROVE  TCPTypeOK'
    <3>1. IsFiniteSet({d \in tcpPeers : id[d] # id[c]})
      BY FS_Subset DEF TCPTypeOK
    <3>2. IsFiniteSet(tcpPeers')
      BY <2>4, <3>1, FS_AddElement DEF AddPeer
    <3>3. QED
      BY <2>4, <3>2 DEF AddPeer, TCPTypeOK, Stage, Served
  <2>5. ASSUME NEW c \in Conns, RemovePeer(c)
        PROVE  TCPTypeOK'
    <3> DEFINE entry == {d \in tcpPeers : id[d] = id[c]}
    <3>1. /\ stage[c] = "reading"
          /\ stage' = [stage EXCEPT ![c] = "removed"]
          /\ tcpPeers' = tcpPeers \ entry
          /\ CloseAll(entry)
          /\ UNCHANGED <<id, clock, said, accepting, tcpStop, found>>
      BY <2>5 DEF RemovePeer
    <3>2. IsFiniteSet(tcpPeers')
      BY <3>1, FS_Subset DEF TCPTypeOK
    <3>3. c \notin tcpPeers' /\ entry \subseteq tcpPeers
      BY <3>1
    <3> HIDE DEF entry
    <3>4. socket' \in [Conns -> {"none", "open", "shut", "closed"}]
      BY <3>1 DEF CloseAll, TCPTypeOK
    <3>5. ASSUME NEW d \in Conns
          PROVE  /\ socket'[d] = "none" <=> stage'[d] = "none"
                 /\ id'[d] = NoTCPId <=> stage'[d] \in {"none", "open"}
      <4>1. d \in entry => stage[d] # "none"
        BY <3>3 DEF TCPTypeOK, Served
      <4>2. QED
        BY <3>1, <4>1 DEF CloseAll, TCPTypeOK
    <3>6. \A d \in tcpPeers' : stage'[d] \in Served
      BY <3>1, <3>3 DEF TCPTypeOK
    <3>7. QED
      BY <3>1, <3>2, <3>4, <3>5, <3>6 DEF TCPTypeOK, Stage
  <2>6. CASE ClosePeers
    BY <2>6 DEF ClosePeers, CloseAll, TCPTypeOK, Served
  <2>7. CASE TCPStop \/ AcceptLoopEnds \/ TCPReturn \/ UNCHANGED tcpVars
    BY <2>7 DEF TCPStop, AcceptLoopEnds, TCPReturn, tcpVars, TCPTypeOK
  <2>8. QED
    BY <2>1, <2>2, <2>3, <2>4, <2>5, <2>6, <2>7, MakeIdTypes
       DEF TCPNext, Serve
<1>3. QED
  BY <1>1, <1>2, PTL DEF TCPSpec, tcpVars, tcpVars

-----------------------------------------------------------------------------
(* TCP: Stop *)

\* Whatever is accepted, dialled or cut while Stop runs: once it has returned
\* no accepted connection is served or ever will be, because acceptLoop takes
\* nothing more once the listener is closed and its goroutines are counted from
\* the start (peering.go:121-133, 296).
THEOREM StopEndsInbound == TCPSpec => []OnlyDialsOutliveStop
<1>1. TCPInit => OnlyDialsOutliveStop
  BY DEF TCPInit, OnlyDialsOutliveStop
<1>2. TCPTypeOK /\ OnlyDialsOutliveStop /\ [TCPNext]_tcpVars
        => OnlyDialsOutliveStop'
  <2> SUFFICES ASSUME TCPTypeOK, OnlyDialsOutliveStop, [TCPNext]_tcpVars,
                      tcpStop' = "returned"
               PROVE  /\ ~accepting'
                      /\ \A c \in Inbound : stage'[c] \in {"none", "ended"}
    BY DEF OnlyDialsOutliveStop
  <2>1. ASSUME NEW c \in Conns, Accept(c) \/ TCPDial(c)
        PROVE  ~accepting' /\ \A d \in Inbound : stage'[d] \in {"none", "ended"}
    <3>1. tcpStop = "returned" /\ c \in Outbound /\ UNCHANGED accepting
      BY <2>1 DEF Accept, TCPDial, Open
    <3>2. \A d \in Inbound : stage'[d] = stage[d]
      BY <2>1, <3>1 DEF Accept, TCPDial, Open, TCPTypeOK, Conns
    <3>3. QED
      BY <3>1, <3>2 DEF OnlyDialsOutliveStop
  <2>2. ASSUME NEW c \in Conns, Read(c) \/ Shut(c) \/ Serve(c)
        PROVE  ~accepting' /\ \A d \in Inbound : stage'[d] \in {"none", "ended"}
    <3>1. tcpStop = "returned" /\ UNCHANGED accepting
      BY <2>2
         DEF Read, Shut, Serve, MakeId, AddPeer,
             Announce, RemovePeer, End
    <3>2. /\ stage[c] = "none" => stage' = stage
          /\ stage[c] = "ended" => stage' = stage
          /\ \A d \in Conns \ {c} : stage'[d] = stage[d]
      BY <2>2
         DEF Read, Shut, Serve, MakeId, AddPeer,
             Announce, RemovePeer, End, TCPTypeOK
    <3>3. \A d \in Inbound : stage[d] \in {"none", "ended"}
      BY <3>1 DEF OnlyDialsOutliveStop
    <3>4. QED
      BY <3>1, <3>2, <3>3 DEF OnlyDialsOutliveStop, Conns
  <2>3. CASE TCPReturn
    BY <2>3 DEF TCPReturn, Counted
  <2>4. CASE \/ TCPStop \/ AcceptLoopEnds \/ ClosePeers
             \/ UNCHANGED tcpVars
    BY <2>4
       DEF TCPStop, AcceptLoopEnds, ClosePeers, tcpVars,
           OnlyDialsOutliveStop
  <2>5. QED
    BY <2>1, <2>2, <2>3, <2>4 DEF TCPNext
<1>3. QED
  BY <1>1, <1>2, TCPTypes, PTL DEF TCPSpec, tcpVars, tcpVars

-----------------------------------------------------------------------------
(* TCP: IDs *)

\* A connection that shares its ID with no other is in the table exactly while
\* it is served, and closed when it ends, whatever becomes of the connections
\* that do share theirs.
THEOREM OwnIdSuffices == TCPSpec => []OwnIdIsEnough
<1>1. TCPInit => OwnIdIsEnough
  BY DEF TCPInit, OwnIdIsEnough, Served
<1>2. TCPTypeOK /\ OwnIdIsEnough /\ [TCPNext]_tcpVars
        => OwnIdIsEnough'
  <2> SUFFICES ASSUME TCPTypeOK, OwnIdIsEnough, [TCPNext]_tcpVars,
                      NEW c \in Conns, Alone(c)'
               PROVE  /\ c \in tcpPeers' <=> stage'[c] \in Served
                      /\ stage'[c] \in {"removed", "ended"} => socket'[c] = "closed"
    BY DEF OwnIdIsEnough
  <2>1. \A d \in Conns \ {c} : id'[d] # id'[c]
    BY DEF Alone
  <2>2. ASSUME UNCHANGED id
        PROVE  /\ \A d \in Conns \ {c} : id[d] # id[c]
               /\ c \in tcpPeers <=> stage[c] \in Served
               /\ stage[c] \in {"removed", "ended"} => socket[c] = "closed"
    BY <2>1, <2>2 DEF OwnIdIsEnough, Alone
  <2>3. ASSUME NEW d \in Conns, MakeId(d)
        PROVE  /\ c \in tcpPeers' <=> stage'[c] \in Served
               /\ stage'[c] \in {"removed", "ended"} => socket'[c] = "closed"
    <3>1. PICK new : id' = [id EXCEPT ![d] = new]
      BY <2>3 DEF MakeId
    <3>2. /\ stage[d] = "open"
          /\ stage' = [stage EXCEPT ![d] = "named"]
          /\ UNCHANGED <<tcpPeers, socket>>
      BY <2>3 DEF MakeId
    <3>3. CASE c = d \/ stage[c] \in {"none", "open"}
      BY <3>2, <3>3 DEF TCPTypeOK, Served
    <3>4. CASE c # d /\ stage[c] \notin {"none", "open"}
      <4>1. id[d] # id[c]
        BY <3>2, <3>4 DEF TCPTypeOK
      <4>2. Alone(c)
        BY <2>1, <3>1, <3>4, <4>1 DEF Alone, TCPTypeOK
      <4>3. QED
        BY <3>2, <3>4, <4>2 DEF OwnIdIsEnough, TCPTypeOK
    <3>5. QED
      BY <3>3, <3>4
  <2>4. ASSUME NEW d \in Conns, Accept(d) \/ TCPDial(d)
        PROVE  /\ c \in tcpPeers' <=> stage'[c] \in Served
               /\ stage'[c] \in {"removed", "ended"} => socket'[c] = "closed"
    BY <2>2, <2>4 DEF Accept, TCPDial, Open, TCPTypeOK, Served
  <2>5. ASSUME NEW d \in Conns,
               Read(d) \/ Shut(d) \/ Announce(d) \/ End(d)
        PROVE  /\ c \in tcpPeers' <=> stage'[c] \in Served
               /\ stage'[c] \in {"removed", "ended"} => socket'[c] = "closed"
    BY <2>2, <2>5
       DEF Read, Shut, Announce, End, TCPTypeOK, Served
  <2>6. ASSUME NEW d \in Conns, AddPeer(d)
        PROVE  /\ c \in tcpPeers' <=> stage'[c] \in Served
               /\ stage'[c] \in {"removed", "ended"} => socket'[c] = "closed"
    BY <2>2, <2>6 DEF AddPeer, TCPTypeOK, Served
  <2>7. ASSUME NEW d \in Conns, RemovePeer(d)
        PROVE  /\ c \in tcpPeers' <=> stage'[c] \in Served
               /\ stage'[c] \in {"removed", "ended"} => socket'[c] = "closed"
    <3> DEFINE entry == {e \in tcpPeers : id[e] = id[d]}
    <3>1. /\ stage[d] = "reading"
          /\ stage' = [stage EXCEPT ![d] = "removed"]
          /\ tcpPeers' = tcpPeers \ entry
          /\ CloseAll(entry)
          /\ UNCHANGED id
      BY <2>7 DEF RemovePeer
    <3>2. c \in entry <=> c \in tcpPeers /\ c = d
      BY <2>2, <3>1
    <3> HIDE DEF entry
    <3>3. QED
      BY <2>2, <3>1, <3>2 DEF CloseAll, TCPTypeOK, Served
  <2>8. CASE ClosePeers
    BY <2>2, <2>8 DEF ClosePeers, CloseAll, TCPTypeOK, Served
  <2>9. CASE TCPStop \/ AcceptLoopEnds \/ TCPReturn \/ UNCHANGED tcpVars
    BY <2>2, <2>9 DEF TCPStop, AcceptLoopEnds, TCPReturn, tcpVars
  <2>10. QED
    BY <2>3, <2>4, <2>5, <2>6, <2>7, <2>8, <2>9 DEF TCPNext, Serve
<1>3. QED
  BY <1>1, <1>2, TCPTypes, PTL DEF TCPSpec, tcpVars, tcpVars

-----------------------------------------------------------------------------
(* TCP: events *)

\* What was last emitted of a connection tells how far its goroutine has come.
SaidFits ==
    \A c \in Conns :
        /\ stage[c] \in {"none", "open", "named", "added"} => said[c] = "nothing"
        /\ stage[c] \in {"reading", "removed"} => said[c] \in {"connected", "message"}

\* The events of every connection come in the order of its life, though a
\* dialled one has them emitted by two goroutines: handleOutbound is started
\* after the connected event.
THEOREM EventsKeepOrder == TCPSpec => EventsInOrder
<1>1. TCPInit => SaidFits
  BY DEF TCPInit, SaidFits
<1>2. TCPTypeOK /\ SaidFits /\ [TCPNext]_tcpVars => SaidFits'
  <2> SUFFICES ASSUME TCPTypeOK, SaidFits, [TCPNext]_tcpVars
               PROVE  SaidFits'
    OBVIOUS
  <2>1. CASE \E c \in Conns :
                Accept(c) \/ TCPDial(c) \/ Read(c) \/ Shut(c)
    BY <2>1
       DEF Accept, TCPDial, Open, Read, Shut, SaidFits,
           TCPTypeOK
  <2>2. CASE \E c \in Conns : Serve(c)
    BY <2>2
       DEF Serve, MakeId, AddPeer, Announce, RemovePeer,
           End, SaidFits, TCPTypeOK
  <2>3. CASE \/ TCPStop \/ AcceptLoopEnds \/ ClosePeers \/ TCPReturn
             \/ UNCHANGED tcpVars
    BY <2>3
       DEF TCPStop, AcceptLoopEnds, ClosePeers, TCPReturn, tcpVars,
           SaidFits
  <2>4. QED
    BY <2>1, <2>2, <2>3 DEF TCPNext
<1> DEFINE Ordered(c) ==
        said'[c] # said[c] =>
            \/ said'[c] = "connected" /\ said[c] = "nothing"
            \/ said'[c] = "message" /\ said[c] = "connected"
            \/ said'[c] = "closed" /\ said[c] \in {"connected", "message"}
<1>3. TCPTypeOK /\ SaidFits /\ [TCPNext]_tcpVars
        => [\A c \in Conns : Ordered(c)]_tcpVars
  <2> SUFFICES ASSUME TCPTypeOK, SaidFits, TCPNext, NEW d \in Conns
               PROVE  Ordered(d)
    OBVIOUS
  <2>1. ASSUME NEW c \in Conns, Read(c) \/ Announce(c) \/ End(c)
        PROVE  Ordered(d)
    BY <2>1 DEF Read, Announce, End, SaidFits, TCPTypeOK
  <2>2. CASE UNCHANGED said
    BY <2>2
  <2>3. QED
    BY <2>1, <2>2
       DEF TCPNext, Accept, TCPDial, Open, Shut, Serve,
           MakeId, AddPeer, RemovePeer,
           TCPStop, AcceptLoopEnds, ClosePeers, TCPReturn
<1>4. QED
  BY <1>1, <1>2, <1>3, TCPTypes, PTL
     DEF TCPSpec, tcpVars, tcpVars, EventsInOrder

-----------------------------------------------------------------------------
(* Both behind one *)

\* Behind the fan-in either manager does what it does by itself: the order in
\* which Stop asks them, and the goroutines that forward their events, add no
\* step to either (fanin.go:22-23, 48-65, 83-88).
THEOREM FanInImplementsBoth == FanInSpec => Spec /\ TCPSpec
<1>1. FanInInit => Init /\ TCPInit
  BY DEF FanInInit
<1>2. [FanInNext]_fanInVars => [Next]_vars
  <2> SUFFICES ASSUME [FanInNext]_fanInVars
               PROVE  Next \/ UNCHANGED vars
    OBVIOUS
  <2>1. CASE UDPStep
    BY <2>1 DEF UDPStep, Next
  <2>2. CASE TCPStep \/ StopTCP \/ \E m \in {"a", "b"} : ForwardingEnds(m)
    BY <2>2 DEF TCPStep, StopTCP, ForwardingEnds
  <2>3. CASE StopUDP
    BY <2>3 DEF StopUDP, Next
  <2>4. CASE UNCHANGED fanInVars
    BY <2>4 DEF fanInVars
  <2>5. QED
    BY <2>1, <2>2, <2>3, <2>4 DEF FanInNext
<1>3. [FanInNext]_fanInVars => [TCPNext]_tcpVars
  <2> SUFFICES ASSUME [FanInNext]_fanInVars
               PROVE  TCPNext \/ UNCHANGED tcpVars
    OBVIOUS
  <2>1. CASE TCPStep
    BY <2>1 DEF TCPStep, TCPNext
  <2>2. CASE UDPStep \/ StopUDP \/ \E m \in {"a", "b"} : ForwardingEnds(m)
    BY <2>2 DEF UDPStep, StopUDP, ForwardingEnds
  <2>3. CASE StopTCP
    BY <2>3 DEF StopTCP, TCPNext
  <2>4. CASE UNCHANGED fanInVars
    BY <2>4 DEF fanInVars
  <2>5. QED
    BY <2>1, <2>2, <2>3, <2>4 DEF FanInNext
<1>4. QED
  BY <1>1, <1>2, <1>3, PTL DEF FanInSpec, Spec, TCPSpec

\* So all that was proved of the two holds of a node with both transports.
THEOREM FanInKeepsBoth ==
    FanInSpec => /\ [](TablesAgree /\ NobodyVanishes /\ OneLastWord)
                 /\ [](OwnIdIsEnough /\ OnlyDialsOutliveStop)
                 /\ EventsInOrder
BY FanInImplementsBoth, Agreement, Announcement, LastWord, OwnIdSuffices,
   StopEndsInbound, EventsKeepOrder, PTL

\* The UDP manager is asked to stop only when nothing is left of the accepted
\* TCP connections, whatever the remote peers do: the one Stop follows the
\* other's return (fanin.go:86-87).  What Dial opened may still be there.
InboundEndsFirst ==
    stop # "no" => /\ tcpStop = "returned"
                   /\ ~accepting
                   /\ \A c \in Inbound : stage[c] \in {"none", "ended"}

THEOREM StopsInOrder == FanInSpec => []InboundEndsFirst
<1> DEFINE Ordered == stop # "no" => tcpStop = "returned"
<1>1. FanInInit => Ordered
  BY DEF FanInInit, Init
<1>2. Ordered /\ [FanInNext]_fanInVars => Ordered'
  <2> SUFFICES ASSUME Ordered, [FanInNext]_fanInVars
               PROVE  Ordered'
    OBVIOUS
  <2>1. CASE UDPStep
    <3>1. stop = "no" => stop' = "no"
      BY <2>1
         DEF UDPStep, Dial, Receive, GrowOld, Internal, ReadLoop, TimeoutLoop,
             Lookup, AnnounceNew, Handle, EvictExpired, AnnounceEvicted,
             AnnounceDialled, LoopEnds, Return
    <3>2. UNCHANGED tcpStop
      BY <2>1 DEF UDPStep, tcpVars
    <3>3. QED
      BY <3>1, <3>2
  <2>2. CASE TCPStep
    <3>1. UNCHANGED stop
      BY <2>2 DEF TCPStep, vars
    <3>2. tcpStop = "returned" => tcpStop' = "returned"
      BY <2>2
         DEF TCPStep, Accept, TCPDial, Open, Read, Shut,
             Serve, MakeId, AddPeer, Announce, RemovePeer,
             End, AcceptLoopEnds, ClosePeers, TCPReturn
    <3>3. QED
      BY <3>1, <3>2
  <2>3. CASE StopTCP
    BY <2>3 DEF StopTCP, TCPStop, vars
  <2>4. CASE StopUDP
    BY <2>4 DEF StopUDP, tcpVars
  <2>5. CASE (\E m \in {"a", "b"} : ForwardingEnds(m)) \/ UNCHANGED fanInVars
    BY <2>5 DEF ForwardingEnds, fanInVars, vars, tcpVars
  <2>6. QED
    BY <2>1, <2>2, <2>3, <2>4, <2>5 DEF FanInNext
<1>3. Ordered /\ OnlyDialsOutliveStop => InboundEndsFirst
  BY DEF OnlyDialsOutliveStop, InboundEndsFirst
<1>4. QED
  BY <1>1, <1>2, <1>3, FanInKeepsBoth, PTL DEF FanInSpec

-----------------------------------------------------------------------------
(* Heartbeats: the two ends *)

USE HeartbeatAssumption

LEMMA TwoEnds ==
    ASSUME NEW e \in Ends
    PROVE  /\ Other(e) \in Ends /\ Other(e) # e
           /\ \A f \in Ends : f = e \/ f = Other(e)
<1>1. PICK a \in Ends : \E b \in Ends \ {a} : Ends = {a, b}
  BY DEF HeartbeatAssumption
<1>2. \E f \in Ends : f # e
  BY <1>1
<1>3. Other(e) \in Ends /\ Other(e) # e
  BY <1>2 DEF Other
<1>4. QED
  BY <1>1, <1>3

LEMMA OtherTwice ==
    ASSUME NEW e \in Ends
    PROVE  Other(Other(e)) = e
BY TwoEnds

-----------------------------------------------------------------------------
(* Heartbeats: ages *)

\* No end that has passed its check of this period is overdue.
CheckedInTime == \A e \in checked \cap knows : age[e] <= Timeout

LEMMA NetIsTyped ==
    ASSUME HeartTypeOK, [HeartNext]_heartVars
    PROVE  net' \in SUBSET (Ends \X {"ping", "pong"})
<1> DEFINE Datagrams == Ends \X {"ping", "pong"}
<1>1. \A e \in Ends : /\ <<Other(e), "ping">> \in Datagrams
                      /\ <<Other(e), "pong">> \in Datagrams
  BY TwoEnds
<1>2. net \in SUBSET Datagrams
  BY DEF HeartTypeOK
<1> HIDE DEF Datagrams
<1>3. net' \in SUBSET Datagrams
  <2>1. ASSUME NEW e \in Ends, Beat(e)
        PROVE  net' \in SUBSET Datagrams
    BY <1>1, <1>2, <2>1 DEF Beat
  <2>2. ASSUME NEW e \in Ends, NEW kind \in {"ping", "pong"}, Deliver(e, kind)
        PROVE  net' \in SUBSET Datagrams
    BY <1>1, <1>2, <2>2 DEF Deliver, Answer
  <2>3. ASSUME NEW e \in Ends, NEW kind \in {"ping", "pong"}, Lose(e, kind)
        PROVE  net' \in SUBSET Datagrams
    BY <1>2, <2>3 DEF Lose
  <2>4. CASE UNCHANGED net
    BY <1>2, <2>4
  <2>5. QED
    BY <2>1, <2>2, <2>3, <2>4
       DEF HeartNext, Keep, Evict, Crash, Restart, Tick, heartVars
<1>4. QED
  BY <1>3 DEF Datagrams

LEMMA AgesFit ==
    ASSUME HeartTypeOK, CheckedInTime, [HeartNext]_heartVars
    PROVE  HeartTypeOK' /\ CheckedInTime'
<1>1. net' \in SUBSET (Ends \X {"ping", "pong"})
  BY NetIsTyped
<1>2. /\ BeatEvery \in Nat \ {0} /\ Timeout \in Nat \ {0} /\ MaxLost \in Nat
      /\ Dials \subseteq Ends
  BY DEF HeartbeatAssumption
<1>3. ASSUME NEW e \in Ends, Beat(e) \/ Keep(e)
      PROVE  HeartTypeOK' /\ CheckedInTime'
  BY <1>1, <1>2, <1>3 DEF Beat, Keep, MustExpire, HeartTypeOK, CheckedInTime
<1>4. ASSUME NEW e \in Ends, Evict(e) \/ Crash(e)
      PROVE  HeartTypeOK' /\ CheckedInTime'
  <2>1. Other(e) \in Ends
    BY TwoEnds
  <2>2. QED
    BY <1>1, <1>2, <1>4, <2>1 DEF Evict, Crash, HeartTypeOK, CheckedInTime
<1>5. ASSUME NEW e \in Ends,
             Restart(e) \/ \E kind \in {"ping", "pong"} : Deliver(e, kind)
      PROVE  HeartTypeOK' /\ CheckedInTime'
  <2>1. /\ knows' \in SUBSET running'
        /\ running' \in SUBSET Ends
        /\ \A f \in knows' : f \in knows \/ f = e
        /\ strange' \in SUBSET Ends
    BY <1>2, <1>5 DEF Restart, Deliver, Strangers, HeartTypeOK
  <2>2. /\ age' = [age EXCEPT ![e] = 0]
        /\ lost' = [lost EXCEPT ![e] = 0]
        /\ beat' = beat \/ beat' = [beat EXCEPT ![e] = BeatEvery]
        /\ UNCHANGED checked
    BY <1>5 DEF Restart, Deliver, Touch
  <2>3. QED
    BY <1>1, <1>2, <2>1, <2>2 DEF HeartTypeOK, CheckedInTime
<1>6. ASSUME NEW e \in Ends, NEW kind \in {"ping", "pong"}, Lose(e, kind)
      PROVE  HeartTypeOK' /\ CheckedInTime'
  <2>1. lost' \in [Ends -> 0..MaxLost]
    BY <1>2, <1>6 DEF Lose, HeartTypeOK
  <2>2. QED
    BY <1>1, <1>6, <2>1 DEF Lose, HeartTypeOK, CheckedInTime
<1>7. CASE Tick
  <2>1. age' \in [Ends -> 0..(Timeout + 1)]
    BY <1>2, <1>7 DEF Tick, HeartTypeOK, CheckedInTime
  <2>2. beat' \in [Ends -> 0..BeatEvery]
    BY <1>2, <1>7 DEF Tick, HeartTypeOK
  <2>3. QED
    BY <1>1, <1>7, <2>1, <2>2 DEF Tick, HeartTypeOK, CheckedInTime
<1>8. CASE UNCHANGED heartVars
  BY <1>8 DEF heartVars, HeartTypeOK, CheckedInTime
<1>9. QED
  BY <1>3, <1>4, <1>5, <1>6, <1>7, <1>8 DEF HeartNext

\* The heartbeats' data keep their types, and no end goes on knowing a silent
\* one: it is evicted at the latest in the second check after the timeout
\* (udp.go:237-262).
THEOREM HeartbeatTypes == HeartSpec => []HeartTypeOK
<1>1. HeartInit => HeartTypeOK /\ CheckedInTime
  BY DEF HeartInit, HeartTypeOK, CheckedInTime, Strangers, HeartbeatAssumption
<1>2. HeartTypeOK /\ CheckedInTime /\ [HeartNext]_heartVars
        => HeartTypeOK' /\ CheckedInTime'
  BY AgesFit
<1>3. QED
  BY <1>1, <1>2, PTL DEF HeartSpec

-----------------------------------------------------------------------------
(* Heartbeats: losses *)

\* What an end does not have in its table is a stranger's doing.
StrangersAreKnown == Strangers(knows) \subseteq strange

\* The datagrams that carry a heartbeat of x as a sign of life to e: its ping,
\* or, if it is e's own, the ping and the answer.
Carriers(e, x) ==
    {<<Other(x), "ping">>} \cup (IF x = e THEN {<<e, "pong">>} ELSE {})

\* Whether one is on its way.
Flying(e, x) == IF Carriers(e, x) \cap net = {} THEN 0 ELSE 1

\* A datagram does not outlive the period of its heartbeat.
FlightIsFresh ==
    \A e, x \in Ends : Flying(e, x) = 1 => beat[x] = BeatEvery

\* How many heartbeats, up to three, have come due when n periods are
\* accounted for; and how many of x since e last heard of its peer.
BeatsIn(n) ==
    IF n > 3 * BeatEvery THEN 3 ELSE
    IF n > 2 * BeatEvery THEN 2 ELSE
    IF n > BeatEvery THEN 1 ELSE 0
Sent(e, x) == BeatsIn(age[e] + beat[x])

\* Every heartbeat of either end that should have let e hear of the other was
\* lost, or is on its way.
EnoughSent(e) ==
    \/ lost[e] >= 4
    \/ lost[e] + Flying(e, e) + Flying(e, Other(e))
         >= Sent(e, e) + Sent(e, Other(e))

LossesAreCounted == \A e \in knows \ strange : EnoughSent(e)

LEMMA Beats ==
    ASSUME NEW n \in Nat
    PROVE  /\ BeatsIn(n) \in 0..3
           /\ n <= BeatEvery => BeatsIn(n) = 0
           /\ BeatsIn(n + BeatEvery) <= BeatsIn(n) + 1
           /\ n > 2 * BeatEvery => BeatsIn(n) >= 2
           /\ n > 3 * BeatEvery => BeatsIn(n) = 3
BY DEF BeatsIn, HeartbeatAssumption

LEMMA FlyingIs ==
    ASSUME NEW e \in Ends, NEW x \in Ends
    PROVE  /\ Flying(e, x) \in {0, 1} /\ Flying(e, x)' \in {0, 1}
           /\ net = {} => Flying(e, x) = 0
           /\ net' = {} => Flying(e, x)' = 0
           /\ net \subseteq net' => Flying(e, x)' >= Flying(e, x)
           /\ <<Other(x), "ping">> \in net' => Flying(e, x)' = 1
BY DEF Flying, Carriers

LEMMA SentIs ==
    ASSUME HeartTypeOK, NEW e \in Ends, NEW x \in Ends
    PROVE  /\ Sent(e, x) \in 0..3
           /\ age[e] = 0 => Sent(e, x) = 0
<1>1. /\ age[e] + beat[x] \in Nat
      /\ age[e] = 0 => age[e] + beat[x] <= BeatEvery
  BY DEF HeartTypeOK, HeartbeatAssumption
<1>2. QED
  BY <1>1, Beats DEF Sent

LEMMA SentBecomes ==
    ASSUME HeartTypeOK', NEW e \in Ends, NEW x \in Ends
    PROVE  /\ Sent(e, x)' \in 0..3
           /\ age'[e] = 0 => Sent(e, x)' = 0
<1>1. /\ age'[e] + beat'[x] \in Nat
      /\ age'[e] = 0 => age'[e] + beat'[x] <= BeatEvery
  BY DEF HeartTypeOK, HeartbeatAssumption
<1>2. Sent(e, x)' = BeatsIn(age'[e] + beat'[x])
  BY DEF Sent, BeatsIn
<1>3. QED
  BY <1>1, <1>2, Beats

\* Whoever was just heard of has lost nothing.
LEMMA CountStarts ==
    ASSUME HeartTypeOK', NEW e \in Ends, age'[e] = 0
    PROVE  EnoughSent(e)'
<1>1. Other(e) \in Ends
  BY TwoEnds
<1>2. Sent(e, e)' = 0 /\ Sent(e, Other(e))' = 0
  BY <1>1, SentBecomes
<1>3. /\ Flying(e, e)' \in {0, 1} /\ Flying(e, Other(e))' \in {0, 1}
      /\ lost'[e] \in Nat
  BY <1>1, FlyingIs DEF HeartTypeOK, HeartbeatAssumption
<1>4. QED
  BY <1>2, <1>3 DEF EnoughSent, Other

LEMMA CountIsTyped ==
    ASSUME HeartTypeOK, HeartTypeOK',
           NEW e \in Ends, NEW x \in Ends
    PROVE  /\ lost[e] \in Nat /\ lost'[e] \in Nat
           /\ Flying(e, x) \in {0, 1} /\ Flying(e, x)' \in {0, 1}
           /\ Sent(e, x) \in 0..3 /\ Sent(e, x)' \in 0..3
BY FlyingIs, SentIs, SentBecomes DEF HeartTypeOK, HeartbeatAssumption

\* What is sent beyond what is on its way grows no more than the losses.
LEMMA CountGoesOn ==
    ASSUME HeartTypeOK, HeartTypeOK',
           NEW e \in Ends, EnoughSent(e),
           lost'[e] >= lost[e],
           \/ lost'[e] >= 4
           \/ lost[e] + Flying(e, e) + Flying(e, Other(e))
               + Sent(e, e)' + Sent(e, Other(e))'
               <= lost'[e] + Flying(e, e)' + Flying(e, Other(e))'
                  + Sent(e, e) + Sent(e, Other(e))
    PROVE  EnoughSent(e)'
<1>1. Other(e) \in Ends
  BY TwoEnds
<1>2. /\ lost[e] \in Nat /\ lost'[e] \in Nat
      /\ Flying(e, e) \in {0, 1} /\ Flying(e, Other(e)) \in {0, 1}
      /\ Flying(e, e)' \in {0, 1} /\ Flying(e, Other(e))' \in {0, 1}
      /\ Sent(e, e) \in 0..3 /\ Sent(e, Other(e)) \in 0..3
      /\ Sent(e, e)' \in 0..3 /\ Sent(e, Other(e))' \in 0..3
  BY <1>1, CountIsTyped
<1>3. EnoughSent(e)' <=>
        \/ lost'[e] >= 4
        \/ lost'[e] + Flying(e, e)' + Flying(e, Other(e))'
             >= Sent(e, e)' + Sent(e, Other(e))'
  BY DEF EnoughSent
<1>4. \/ lost[e] >= 4
      \/ lost[e] + Flying(e, e) + Flying(e, Other(e))
           >= Sent(e, e) + Sent(e, Other(e))
  BY DEF EnoughSent
<1>5. QED
  BY <1>2, <1>3, <1>4

LEMMA FlightStaysFresh ==
    ASSUME HeartTypeOK, FlightIsFresh, [HeartNext]_heartVars
    PROVE  FlightIsFresh'
<1> SUFFICES ASSUME NEW e \in Ends, NEW x \in Ends, Flying(e, x)' = 1
             PROVE  beat'[x] = BeatEvery
  BY DEF FlightIsFresh
<1>1. Carriers(e, x) \cap net' # {}
  BY DEF Flying, Carriers
<1>2. Carriers(e, x) \cap net # {} => beat[x] = BeatEvery
  BY DEF Flying, FlightIsFresh
<1>3. ASSUME NEW y \in Ends, Beat(y)
      PROVE  beat'[x] = BeatEvery
  <2>1. CASE y = x
    BY <1>3, <2>1 DEF Beat, HeartTypeOK
  <2>2. CASE y # x
    <3>1. Other(y) # Other(x)
      BY <2>2, OtherTwice
    <3>2. <<Other(y), "ping">> \notin Carriers(e, x)
      BY <3>1 DEF Carriers
    <3>3. beat'[x] = beat[x]
      BY <1>3, <2>2 DEF Beat, HeartTypeOK
    <3>4. net' \subseteq net \cup {<<Other(y), "ping">>}
      BY <1>3 DEF Beat
    <3>5. QED
      BY <1>1, <1>2, <3>2, <3>3, <3>4
  <2>3. QED
    BY <2>1, <2>2
<1>4. ASSUME NEW y \in Ends, NEW kind \in {"ping", "pong"}, Deliver(y, kind)
      PROVE  beat'[x] = BeatEvery
  <2>1. /\ beat' = beat
        /\ <<y, kind>> \in net
        /\ net' \subseteq
             net \cup (IF kind = "ping" THEN {<<Other(y), "pong">>} ELSE {})
    BY <1>4 DEF Deliver, Answer
  <2>2. ASSUME kind = "ping", <<Other(y), "pong">> \in Carriers(e, x)
        PROVE  <<y, kind>> \in Carriers(e, x)
    <3>1. x = e /\ Other(y) = e
      BY <2>2 DEF Carriers
    <3>2. Other(x) = y
      BY <3>1, OtherTwice
    <3>3. QED
      BY <2>2, <3>2 DEF Carriers
  <2>3. QED
    BY <1>1, <1>2, <2>1, <2>2
<1>5. ASSUME NEW y \in Ends, NEW kind \in {"ping", "pong"}, Lose(y, kind)
      PROVE  beat'[x] = BeatEvery
  BY <1>1, <1>2, <1>5 DEF Lose
<1>6. ASSUME NEW y \in Ends, Restart(y)
      PROVE  beat'[x] = BeatEvery
  BY <1>1, <1>2, <1>6 DEF Restart, HeartTypeOK
<1>7. CASE Tick
  BY <1>1, <1>7 DEF Tick
<1>8. CASE UNCHANGED <<net, beat>>
  BY <1>1, <1>2, <1>8
<1>9. QED
  BY <1>3, <1>4, <1>5, <1>6, <1>7, <1>8
     DEF HeartNext, Keep, Evict, Crash, heartVars

LEMMA StrangersStayKnown ==
    ASSUME HeartTypeOK, StrangersAreKnown, [HeartNext]_heartVars
    PROVE  StrangersAreKnown'
<1> SUFFICES ASSUME NEW f \in Ends, Other(f) \notin knows'
             PROVE  f \in strange'
  BY DEF StrangersAreKnown, Strangers
<1>1. Other(f) \notin knows => f \in strange
  BY DEF StrangersAreKnown, Strangers
<1>2. ASSUME NEW e \in Ends, Evict(e) \/ Crash(e)
      PROVE  f \in strange'
  <2>1. CASE Other(f) = e
    <3>1. Other(e) = f
      BY <2>1, OtherTwice
    <3>2. QED
      BY <1>2, <3>1 DEF Evict, Crash
  <2>2. CASE Other(f) # e
    BY <1>1, <1>2, <2>2 DEF Evict, Crash
  <2>3. QED
    BY <2>1, <2>2
<1>3. ASSUME NEW e \in Ends,
             Restart(e) \/ \E kind \in {"ping", "pong"} : Deliver(e, kind)
      PROVE  f \in strange'
  BY <1>3 DEF Restart, Deliver, Strangers
<1>4. CASE UNCHANGED <<knows, strange>>
  BY <1>1, <1>4
<1>5. QED
  BY <1>2, <1>3, <1>4 DEF HeartNext, Beat, Keep, Lose, Tick, heartVars

\* A heartbeat is sent.
LEMMA CountBeats ==
    ASSUME HeartTypeOK, HeartTypeOK', FlightIsFresh,
           NEW e \in Ends, EnoughSent(e), NEW x \in knows, Beat(x)
    PROVE  EnoughSent(e)'
<1>1. /\ x \in Ends /\ Other(e) \in Ends
      /\ x = e \/ x = Other(e)
      /\ Other(e) # e
  BY TwoEnds DEF HeartTypeOK
<1>2. /\ UNCHANGED <<age, lost>>
      /\ beat[x] = 0 /\ beat' = [beat EXCEPT ![x] = BeatEvery]
      /\ net' = net \cup {<<Other(x), "ping">>}
  BY DEF Beat
<1>3. ASSUME NEW y \in Ends
      PROVE  Sent(e, y)' + Flying(e, y) <= Sent(e, y) + Flying(e, y)'
  <2>1. CASE y = x
    <3>1. Flying(e, y) = 0
      BY <1>1, <1>2, <2>1, FlyingIs DEF FlightIsFresh, HeartbeatAssumption
    <3>2. <<Other(y), "ping">> \in net'
      BY <1>2, <2>1
    <3>3. Flying(e, y)' = 1
      BY <3>2, FlyingIs
    <3>4. /\ age[e] \in Nat /\ age'[e] = age[e]
          /\ beat[y] = 0 /\ beat'[y] = BeatEvery
      BY <1>1, <1>2, <2>1 DEF HeartTypeOK
    <3>5. Sent(e, y)' = BeatsIn(age[e] + BeatEvery)
      BY <3>4 DEF Sent, BeatsIn
    <3>6. Sent(e, y) = BeatsIn(age[e])
      BY <3>4 DEF Sent
    <3>7. /\ BeatsIn(age[e]) \in 0..3
          /\ BeatsIn(age[e] + BeatEvery) <= BeatsIn(age[e]) + 1
      BY <3>4, Beats
    <3>8. Sent(e, y)' \in 0..3
      BY SentBecomes
    <3>9. QED
      BY <3>1, <3>3, <3>5, <3>6, <3>7, <3>8
  <2>2. CASE y # x
    <3>1. Flying(e, y)' >= Flying(e, y)
      BY <1>2, FlyingIs
    <3>2. beat'[y] = beat[y] /\ age'[e] = age[e]
      BY <1>2, <2>2 DEF HeartTypeOK
    <3>3. Sent(e, y)' = Sent(e, y)
      BY <3>2 DEF Sent, BeatsIn
    <3>4. /\ Sent(e, y) \in 0..3
          /\ Flying(e, y) \in {0, 1} /\ Flying(e, y)' \in {0, 1}
      BY SentIs, FlyingIs DEF Flying, Carriers
    <3>5. QED
      BY <3>1, <3>3, <3>4
  <2>3. QED
    BY <2>1, <2>2
<1>4. /\ Sent(e, e)' + Flying(e, e) <= Sent(e, e) + Flying(e, e)'
      /\ Sent(e, Other(e))' + Flying(e, Other(e))
           <= Sent(e, Other(e)) + Flying(e, Other(e))'
  BY <1>1, <1>3
<1>5. lost'[e] = lost[e]
  BY <1>2
<1>6. QED
  BY <1>1, <1>4, <1>5, CountGoesOn, CountIsTyped

\* A datagram is lost: it carried one heartbeat at most.
LEMMA CountLoses ==
    ASSUME MaxLost >= 4, HeartTypeOK, HeartTypeOK',
           NEW e \in Ends, EnoughSent(e),
           NEW y \in Ends, NEW kind \in {"ping", "pong"}, Lose(y, kind)
    PROVE  EnoughSent(e)'
<1>1. Other(e) \in Ends /\ Other(e) # e /\ Other(Other(e)) = e
  BY TwoEnds, OtherTwice
<1>2. /\ UNCHANGED <<age, beat>>
      /\ net' = net \ {<<y, kind>>}
      /\ lost'[e] = IF lost[e] < MaxLost THEN lost[e] + 1 ELSE lost[e]
  BY DEF Lose
<1>3. ASSUME NEW x \in Ends
      PROVE  Sent(e, x)' = Sent(e, x)
  BY <1>2 DEF Sent, BeatsIn
<1>4. \/ <<y, kind>> \notin Carriers(e, e)
      \/ <<y, kind>> \notin Carriers(e, Other(e))
  BY <1>1 DEF Carriers
<1>5. ASSUME NEW x \in Ends, <<y, kind>> \notin Carriers(e, x)
      PROVE  Flying(e, x)' = Flying(e, x)
  <2>1. Carriers(e, x) \cap net' = Carriers(e, x) \cap net
    BY <1>2, <1>5
  <2>2. Carriers(e, x)' = Carriers(e, x)
    BY DEF Carriers, Other
  <2>3. QED
    BY <2>1, <2>2 DEF Flying
<1>6. /\ lost[e] \in Nat /\ lost'[e] \in Nat
      /\ Flying(e, e) \in {0, 1} /\ Flying(e, e)' \in {0, 1}
      /\ Flying(e, Other(e)) \in {0, 1} /\ Flying(e, Other(e))' \in {0, 1}
      /\ Sent(e, e) \in 0..3 /\ Sent(e, Other(e)) \in 0..3
  BY <1>1, CountIsTyped
<1>7. /\ Sent(e, e)' = Sent(e, e)
      /\ Sent(e, Other(e))' = Sent(e, Other(e))
  BY <1>1, <1>3
<1>8. \/ Flying(e, e)' = Flying(e, e)
      \/ Flying(e, Other(e))' = Flying(e, Other(e))
  BY <1>1, <1>4, <1>5
<1>9. lost'[e] >= lost[e]
  BY <1>2, <1>6
<1>10. CASE lost[e] < MaxLost
  BY <1>1, <1>2, <1>6, <1>7, <1>8, <1>9, <1>10, CountGoesOn
<1>11. CASE lost[e] >= MaxLost
  <2>1. lost'[e] >= 4
    BY <1>2, <1>6, <1>11 DEF HeartbeatAssumption
  <2>2. QED
    BY <1>9, <2>1, CountGoesOn
<1>12. QED
  BY <1>6, <1>10, <1>11 DEF HeartbeatAssumption

\* The other end gets a datagram: if it was e's ping, the answer carries on.
LEMMA CountIsAnswered ==
    ASSUME HeartTypeOK, HeartTypeOK',
           NEW e \in Ends, EnoughSent(e),
           NEW kind \in {"ping", "pong"}, Deliver(Other(e), kind)
    PROVE  EnoughSent(e)'
<1>1. Other(e) \in Ends /\ Other(e) # e /\ Other(Other(e)) = e
  BY TwoEnds, OtherTwice
<1>2. /\ age' = [age EXCEPT ![Other(e)] = 0]
      /\ lost' = [lost EXCEPT ![Other(e)] = 0]
      /\ beat' = beat
      /\ net' = (net \ {<<Other(e), kind>>})
                \cup (IF kind = "ping" THEN {<<e, "pong">>} ELSE {})
  BY <1>1 DEF Deliver, Touch, Answer
<1>3. age'[e] = age[e] /\ lost'[e] = lost[e]
  BY <1>1, <1>2 DEF HeartTypeOK
<1>4. ASSUME NEW x \in Ends
      PROVE  /\ Sent(e, x)' = Sent(e, x)
             /\ Flying(e, x)' >= Flying(e, x)
  <2>1. Sent(e, x)' = Sent(e, x)
    BY <1>2, <1>3 DEF Sent, BeatsIn
  <2>2. ASSUME Carriers(e, x) \cap net # {}
        PROVE  Carriers(e, x) \cap net' # {}
    <3>1. CASE x = e /\ kind = "ping"
      BY <1>2, <3>1 DEF Carriers
    <3>2. CASE x = e /\ kind = "pong"
      BY <1>1, <1>2, <2>2, <3>2 DEF Carriers
    <3>3. CASE x = Other(e)
      BY <1>1, <1>2, <2>2, <3>3 DEF Carriers
    <3>4. QED
      BY <3>1, <3>2, <3>3, TwoEnds
  <2>3. Carriers(e, x)' = Carriers(e, x)
    BY DEF Carriers, Other
  <2>4. QED
    BY <2>1, <2>2, <2>3 DEF Flying
<1>5. /\ lost[e] \in Nat
      /\ Flying(e, e) \in {0, 1} /\ Flying(e, e)' \in {0, 1}
      /\ Flying(e, Other(e)) \in {0, 1} /\ Flying(e, Other(e))' \in {0, 1}
      /\ Sent(e, e) \in 0..3 /\ Sent(e, Other(e)) \in 0..3
  BY <1>1, CountIsTyped
<1>6. /\ Sent(e, e)' = Sent(e, e) /\ Flying(e, e)' >= Flying(e, e)
      /\ Sent(e, Other(e))' = Sent(e, Other(e))
      /\ Flying(e, Other(e))' >= Flying(e, Other(e))
  BY <1>1, <1>4
<1>7. QED
  BY <1>3, <1>5, <1>6, CountGoesOn

\* A period passes: nothing is on its way, and each end is a period older and
\* a period closer to its next heartbeat.
LEMMA CountTicks ==
    ASSUME HeartTypeOK, HeartTypeOK',
           NEW e \in knows, EnoughSent(e),
           Other(e) \in knows, Tick
    PROVE  EnoughSent(e)'
<1>1. e \in Ends /\ Other(e) \in Ends
  BY TwoEnds DEF HeartTypeOK
<1>2. lost' = lost /\ net = {} /\ net' = {}
  BY DEF Tick
<1>3. ASSUME NEW x \in knows
      PROVE  Sent(e, x)' = Sent(e, x)
  <2>1. x \in running /\ x \in Ends
    BY DEF HeartTypeOK
  <2>2. /\ age'[e] = age[e] + 1
        /\ beat'[x] = beat[x] - 1
    BY <1>1, <2>1 DEF Tick
  <2>3. age[e] \in Nat /\ beat[x] \in Nat
    BY <1>1, <2>1 DEF HeartTypeOK, HeartbeatAssumption
  <2>4. age'[e] + beat'[x] = age[e] + beat[x]
    BY <2>2, <2>3
  <2>5. QED
    BY <2>4 DEF Sent, BeatsIn
<1>4. ASSUME NEW x \in Ends
      PROVE  Flying(e, x) = 0 /\ Flying(e, x)' = 0
  BY <1>1, <1>2, FlyingIs
<1>5. /\ Sent(e, e)' = Sent(e, e) /\ Sent(e, Other(e))' = Sent(e, Other(e))
      /\ Flying(e, e) = 0 /\ Flying(e, e)' = 0
      /\ Flying(e, Other(e)) = 0 /\ Flying(e, Other(e))' = 0
  BY <1>1, <1>3, <1>4
<1>6. /\ lost[e] \in Nat /\ lost'[e] = lost[e]
      /\ Sent(e, e) \in 0..3 /\ Sent(e, Other(e)) \in 0..3
  BY <1>1, <1>2, CountIsTyped
<1>7. QED
  BY <1>1, <1>5, <1>6, CountGoesOn

LEMMA LossesStayCounted ==
    ASSUME MaxLost >= 4, HeartTypeOK, HeartTypeOK',
           [HeartNext]_heartVars,
           StrangersAreKnown, FlightIsFresh, LossesAreCounted
    PROVE  LossesAreCounted'
<1> SUFFICES ASSUME NEW e \in knows', e \notin strange'
             PROVE  EnoughSent(e)'
  BY DEF LossesAreCounted
<1>1. /\ e \in Ends /\ Other(e) \in Ends /\ Other(Other(e)) = e
      /\ \A y \in Ends : y = e \/ y = Other(e)
  BY TwoEnds, OtherTwice DEF HeartTypeOK
<1>2. ASSUME e \in knows, e \notin strange
      PROVE  EnoughSent(e) /\ Other(e) \in knows
  BY <1>1, <1>2 DEF LossesAreCounted, StrangersAreKnown, Strangers
<1>3. ASSUME UNCHANGED <<age, beat, net, lost>>, e \in knows, e \notin strange
      PROVE  EnoughSent(e)'
  BY <1>2, <1>3
     DEF EnoughSent, Sent, BeatsIn, Flying, Carriers, Other
<1>4. ASSUME NEW y \in Ends, Beat(y)
      PROVE  EnoughSent(e)'
  <2>1. e \in knows /\ e \notin strange
    BY <1>4 DEF Beat
  <2>2. EnoughSent(e) /\ y \in knows
    BY <1>1, <1>2, <2>1
  <2>3. QED
    BY <1>1, <1>4, <2>2, CountBeats
<1>5. ASSUME NEW y \in Ends, Keep(y) \/ Evict(y) \/ Crash(y)
      PROVE  EnoughSent(e)'
  BY <1>3, <1>5 DEF Keep, Evict, Crash
<1>6. ASSUME NEW y \in Ends, Restart(y)
      PROVE  EnoughSent(e)'
  <2>1. CASE y = e
    <3>1. age'[e] = 0
      BY <1>1, <1>6, <2>1 DEF Restart, Touch, HeartTypeOK
    <3>2. QED
      BY <1>1, <3>1, CountStarts
  <2>2. CASE y = Other(e)
    <3>1. y \notin knows
      BY <1>6 DEF Restart, HeartTypeOK
    <3>2. e \in strange
      BY <1>1, <2>2, <3>1 DEF StrangersAreKnown, Strangers
    <3>3. y # e
      BY <1>1, <2>2, TwoEnds
    <3>4. QED
      BY <1>6, <3>2, <3>3 DEF Restart
  <2>3. QED
    BY <1>1, <2>1, <2>2
<1>7. ASSUME NEW y \in Ends, NEW kind \in {"ping", "pong"}, Deliver(y, kind)
      PROVE  EnoughSent(e)'
  <2>1. CASE y = e
    <3>1. age'[e] = 0
      BY <1>1, <1>7, <2>1 DEF Deliver, Touch, HeartTypeOK
    <3>2. QED
      BY <1>1, <3>1, CountStarts
  <2>2. CASE y = Other(e)
    <3>1. y # e
      BY <1>1, <2>2, TwoEnds
    <3>2. e \in knows /\ e \notin strange
      BY <1>7, <3>1 DEF Deliver
    <3>3. QED
      BY <1>1, <1>2, <1>7, <2>2, <3>2, CountIsAnswered
  <2>3. QED
    BY <1>1, <2>1, <2>2
<1>8. ASSUME NEW y \in Ends, NEW kind \in {"ping", "pong"}, Lose(y, kind)
      PROVE  EnoughSent(e)'
  <2>1. e \in knows /\ e \notin strange
    BY <1>8 DEF Lose
  <2>2. QED
    BY <1>1, <1>2, <1>8, <2>1, CountLoses
<1>9. CASE Tick
  <2>1. e \in knows /\ e \notin strange
    BY <1>9 DEF Tick
  <2>2. QED
    BY <1>2, <1>9, <2>1, CountTicks
<1>10. CASE UNCHANGED heartVars
  BY <1>3, <1>10 DEF heartVars
<1>11. QED
  BY <1>4, <1>5, <1>6, <1>7, <1>8, <1>9, <1>10 DEF HeartNext

\* The state of LossesAreTolerated's step, for one end.
LEMMA FourWereLost ==
    ASSUME MaxLost >= 4, Timeout > 2 * BeatEvery,
           HeartTypeOK, FlightIsFresh, LossesAreCounted, [HeartNext]_heartVars,
           NEW e \in knows \ knows', e \in running'
    PROVE  e \in strange \/ lost[e] >= 4
<1>1. e \in Ends /\ Other(e) \in Ends
  BY TwoEnds DEF HeartTypeOK
<1>2. age[e] >= Timeout
  BY DEF HeartNext, Beat, Deliver, Keep, Evict, MayExpire, Lose,
         Crash, Restart, Tick, heartVars, HeartTypeOK
<1>3. ASSUME NEW x \in Ends
      PROVE  Sent(e, x) >= 2 /\ (Flying(e, x) = 1 => Sent(e, x) = 3)
  <2>1. /\ age[e] + beat[x] \in Nat
        /\ age[e] + beat[x] > 2 * BeatEvery
        /\ beat[x] = BeatEvery => age[e] + beat[x] > 3 * BeatEvery
    BY <1>1, <1>2 DEF HeartTypeOK, HeartbeatAssumption
  <2>2. Flying(e, x) = 1 => beat[x] = BeatEvery
    BY <1>1 DEF FlightIsFresh
  <2>3. QED
    BY <2>1, <2>2, Beats DEF Sent
<1>4. SUFFICES ASSUME e \notin strange
               PROVE  lost[e] >= 4
  OBVIOUS
<1>5. EnoughSent(e)
  BY <1>4 DEF LossesAreCounted
<1>6. /\ Flying(e, e) \in {0, 1} /\ Flying(e, Other(e)) \in {0, 1}
      /\ Sent(e, e) \in 0..3 /\ Sent(e, Other(e)) \in 0..3
      /\ lost[e] \in Nat
  <2>1. lost[e] \in Nat
    BY <1>1 DEF HeartTypeOK, HeartbeatAssumption
  <2>2. QED
    BY <1>1, <2>1, FlyingIs, SentIs
<1>7. /\ Sent(e, e) >= 2 /\ (Flying(e, e) = 1 => Sent(e, e) = 3)
      /\ Sent(e, Other(e)) >= 2
      /\ Flying(e, Other(e)) = 1 => Sent(e, Other(e)) = 3
  BY <1>1, <1>3
<1>8. QED
  BY <1>5, <1>6, <1>7 DEF EnoughSent

\* Three datagrams may be lost in either direction, and neither of two ends that
\* are up and know each other evicts the other, for every period of the
\* heartbeats and every timeout of more than two of them (udp.go:14-18,
\* 181-187, 230-262); the code's timeout is three.
THEOREM ThreeLossesDoNoHarm ==
    Timeout > 2 * BeatEvery /\ MaxLost >= 4 => (HeartSpec => LossesAreTolerated)
<1> SUFFICES ASSUME Timeout > 2 * BeatEvery, MaxLost >= 4
             PROVE  HeartSpec => LossesAreTolerated
  OBVIOUS
<1> DEFINE HeartInv == StrangersAreKnown /\ FlightIsFresh /\ LossesAreCounted
<1>1. HeartInit => HeartInv
  <2> SUFFICES ASSUME HeartInit
               PROVE  HeartInv
    OBVIOUS
  <2>1. StrangersAreKnown
    BY DEF HeartInit, StrangersAreKnown
  <2>2. FlightIsFresh
    BY DEF HeartInit, FlightIsFresh, Flying
  <2>3. ASSUME NEW e \in Ends, NEW x \in Ends
        PROVE  Sent(e, x) = 0 /\ Flying(e, x) = 0
    <3>1. age[e] = 0 /\ beat[x] \in Nat /\ beat[x] <= BeatEvery /\ net = {}
      BY DEF HeartInit, HeartbeatAssumption
    <3>2. age[e] + beat[x] \in Nat /\ age[e] + beat[x] <= BeatEvery
      BY <3>1 DEF HeartbeatAssumption
    <3>3. QED
      BY <3>1, <3>2, Beats DEF Sent, Flying
  <2>4. LossesAreCounted
    <3> SUFFICES ASSUME NEW e \in knows
                 PROVE  EnoughSent(e)
      BY DEF LossesAreCounted
    <3>1. e \in Ends /\ Other(e) \in Ends /\ lost[e] = 0
      BY TwoEnds DEF HeartInit, HeartbeatAssumption
    <3>2. QED
      BY <2>3, <3>1 DEF EnoughSent
  <2>5. QED
    BY <2>1, <2>2, <2>4
<1>2. HeartTypeOK /\ HeartTypeOK' /\ HeartInv /\ [HeartNext]_heartVars => HeartInv'
  BY FlightStaysFresh, StrangersStayKnown, LossesStayCounted
<1>3. HeartTypeOK /\ HeartInv /\ [HeartNext]_heartVars
        => [\A e \in Ends :
              e \in knows \ knows' /\ e \in running'
                => e \in strange \/ lost[e] >= 4]_heartVars
  BY FourWereLost
<1>4. HeartSpec => []HeartTypeOK
  BY HeartbeatTypes
<1>5. QED
  BY <1>1, <1>2, <1>3, <1>4, PTL DEF HeartSpec, LossesAreTolerated

=============================================================================
