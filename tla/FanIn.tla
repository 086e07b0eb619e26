--------------------------------- MODULE FanIn ---------------------------------
(***************************************************************************)
(* The two peering managers of a peer node that was started with           *)
(* -peering-transport=both, behind NewFanInManager                         *)
(* (internal/peering/fanin.go): the TCP manager as a, the UDP manager as b. *)
(*                                                                         *)
(* Dial, Broadcast and PeerCount go to one manager and then to the other,  *)
(* each under its own lock, so the two take their steps independently.     *)
(* What ties them is Stop, which asks the UDP manager to stop only after   *)
(* the Stop of the TCP manager has returned, and the goroutines that       *)
(* forward the events of both, which nothing waits for.                    *)
(*                                                                         *)
(* The two managers share nothing: their variables are disjoint, and each  *)
(* operator is the one of UDPPeering or of Peering that has its name.      *)
(***************************************************************************)
EXTENDS UDPPeering, Peering

VARIABLE forwarding     \* the managers whose events are forwarded

fanInVars == <<vars, tcpVars, forwarding>>

FanInInit ==
    /\ Init
    /\ TCPInit
    /\ forwarding = {"a", "b"}

-----------------------------------------------------------------------------
\* A step of the UDP manager other than being asked to stop.
UDPStep ==
    /\ \/ \E a \in Addrs : Dial(a) \/ Receive(a)
       \/ \E p \in Ids : GrowOld(p)
       \/ Internal
    /\ UNCHANGED <<tcpVars, forwarding>>

\* A step of the TCP manager other than being asked to stop.
TCPStep ==
    /\ \/ \E c \in Conns :
             Accept(c) \/ TCPDial(c) \/ Read(c) \/ Shut(c) \/ Serve(c)
       \/ AcceptLoopEnds \/ ClosePeers \/ TCPReturn
    /\ UNCHANGED <<vars, forwarding>>

\* Stop closes the channel of the fan-in and calls a.Stop ...
StopTCP ==
    /\ TCPStop
    /\ UNCHANGED <<vars, forwarding>>

\* A variant: it is a that is asked again.
StopTCPTwice ==
    /\ tcpStop = "returned"
    /\ TCPStop
    /\ UNCHANGED <<vars, forwarding>>

\* ... and then b.Stop.
StopUDP ==
    /\ tcpStop = "returned"
    /\ Stop
    /\ UNCHANGED <<tcpVars, forwarding>>

\* A goroutine that forwards events sees that Stop was called.
ForwardingEnds(m) ==
    /\ m \in forwarding
    /\ tcpStop # "no"
    /\ forwarding' = forwarding \ {m}
    /\ UNCHANGED <<vars, tcpVars>>

FanInNext ==
    \/ UDPStep
    \/ TCPStep
    \/ StopTCP
    \/ StopUDP
    \/ \E m \in {"a", "b"} : ForwardingEnds(m)

\* The fairness of both managers; Stop goes on once it was called.
FanInFairness ==
    /\ Fairness
    /\ TCPFairness
    /\ WF_fanInVars(StopUDP)
    /\ \A m \in {"a", "b"} : WF_fanInVars(ForwardingEnds(m))

FanInSpec == FanInInit /\ [][FanInNext]_fanInVars /\ FanInFairness

=============================================================================
