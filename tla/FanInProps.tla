------------------------------ MODULE FanInProps ------------------------------
(***************************************************************************)
(* The properties of the two peering managers behind one.                  *)
(***************************************************************************)
EXTENDS FanIn, UDPPeeringProps, PeeringProps

\* Under FanInSpec: Stop, once called, ends both managers and the goroutines of
\* the fan-in, unless the TCP manager waits for a connection that it has not
\* found in its table and that the remote peer keeps open for ever.  Then the
\* UDP manager is never asked to stop, and goes on answering and evicting while
\* nobody forwards its events (fanin.go:83-88, peering.go:291-296).
FanInStops ==
    tcpStop = "closing"
    ~> \/ stop = "returned" /\ tcpStop = "returned" /\ forwarding = {}
       \/ [](/\ tcpStop = "waiting"
             /\ \E c \in Conns \ found :
                   stage[c] \in {"added", "reading"} /\ socket[c] = "open")

=============================================================================
