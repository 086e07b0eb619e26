------------------------------- MODULE Heartbeat -------------------------------
(***************************************************************************)
(* Two UDP peering managers (internal/peering/udp.go) that keep each other *)
(* alive: every manager pings its peers each udpHeartbeatEvery, answers    *)
(* pings, and evicts, at a check each five seconds, the peers it has not   *)
(* heard of for more than udpPeerTimeout.  Datagrams are lost at will, and *)
(* either end may crash and start again.                                   *)
(*                                                                         *)
(* Time passes in periods of five seconds, the period of the check.  What  *)
(* happens within a period happens in any order, because the tickers of    *)
(* the two ends have any phase, and a datagram arrives or is lost within   *)
(* it.  So two events that are k periods apart are more than 5(k - 1) and  *)
(* less than 5(k + 1) seconds apart.                                       *)
(***************************************************************************)
EXTENDS Naturals

CONSTANTS
    Ends,           \* the two managers
    Dials,          \* those that dial the other when they start
    BeatEvery,      \* udpHeartbeatEvery, in periods
    Timeout,        \* udpPeerTimeout, in periods
    MaxLost         \* bound: how far losses are counted

ASSUME HeartbeatAssumption ==
    /\ \E e \in Ends : \E f \in Ends \ {e} : Ends = {e, f}
    /\ Dials \subseteq Ends
    /\ BeatEvery \in Nat \ {0} /\ Timeout \in Nat \ {0} /\ MaxLost \in Nat

VARIABLES
    running,    \* the ends that are up
    knows,      \* the ends that have the other in their tables
    age,        \* periods since an end has last heard of the other
    beat,       \* periods until the next heartbeat of each end
    checked,    \* the ends whose check of this period is done
    net,        \* <<end, kind>>: datagrams on the way to that end
    lost,       \* history: datagrams lost, in both directions, since an end
                \* last heard of the other or was started
    strange     \* history: ends that the other end did not have in its table
                \* at some moment since then

heartVars == <<running, knows, age, beat, checked, net, lost, strange>>

Other(e) == CHOOSE f \in Ends : f # e

\* isExpired, in a check of this period: may it hold, must it?
MayExpire(e) == age[e] >= Timeout

\* A variant: a check later.
MustExpireLate(e) == age[e] > Timeout + 1
MustExpire(e)     == age[e] > Timeout

Strangers(known) == {e \in Ends : Other(e) \notin known}

HeartInit ==
    /\ running = Ends
    /\ knows = Dials
    /\ age = [e \in Ends |-> 0]
    /\ beat \in [Ends -> 0..(BeatEvery - 1)]
    /\ checked = {}
    /\ net = {}
    /\ lost = [e \in Ends |-> 0]
    /\ strange = Strangers(Dials)

-----------------------------------------------------------------------------
(* The two ends *)

\* sendHeartbeats: to the peers in the table only.
Beat(e) ==
    /\ e \in running
    /\ beat[e] = 0
    /\ beat' = [beat EXCEPT ![e] = BeatEvery]
    /\ net' = IF e \in knows THEN net \cup {<<Other(e), "ping">>} ELSE net
    /\ UNCHANGED <<running, knows, age, checked, lost, strange>>

\* Somebody was heard of.
Touch(e) ==
    /\ age' = [age EXCEPT ![e] = 0]
    /\ lost' = [lost EXCEPT ![e] = 0]

Answer(e, kind) ==
    net' = (net \ {<<e, kind>>})
           \cup (IF kind = "ping" THEN {<<Other(e), "pong">>} ELSE {})

\* A variant: the answer to a ping does not count as a sign of life.
DeliverUntouched(e, kind) ==
    /\ <<e, kind>> \in net
    /\ e \in running
    /\ knows' = knows \cup {e}
    /\ IF kind = "ping" \/ e \notin knows THEN Touch(e) ELSE UNCHANGED <<age, lost>>
    /\ strange' = (strange \ {e}) \cup Strangers(knows')
    /\ Answer(e, kind)
    /\ UNCHANGED <<running, beat, checked>>

\* A variant: a ping from an unknown address is answered, but makes no peer.
DeliverToNobody(e, kind) ==
    /\ <<e, kind>> \in net
    /\ e \in running
    /\ Touch(e)
    /\ strange' = (strange \ {e}) \cup Strangers(knows)
    /\ Answer(e, kind)
    /\ UNCHANGED <<running, knows, beat, checked>>

\* handleDatagram: whoever sends a datagram is a peer; a ping is answered.
Deliver(e, kind) ==
    /\ <<e, kind>> \in net
    /\ e \in running
    /\ knows' = knows \cup {e}
    /\ Touch(e)
    /\ strange' = (strange \ {e}) \cup Strangers(knows')
    /\ Answer(e, kind)
    /\ UNCHANGED <<running, beat, checked>>

\* A check that finds the other end in time ...
Keep(e) ==
    /\ e \in running \ checked
    /\ e \notin knows \/ ~MustExpire(e)
    /\ checked' = checked \cup {e}
    /\ UNCHANGED <<running, knows, age, beat, net, lost, strange>>

\* ... and one that evicts it.
Evict(e) ==
    /\ e \in (running \cap knows) \ checked
    /\ MayExpire(e)
    /\ checked' = checked \cup {e}
    /\ knows' = knows \ {e}
    /\ strange' = strange \cup {Other(e)}
    /\ UNCHANGED <<running, age, beat, net, lost>>

-----------------------------------------------------------------------------
(* The environment *)

\* A datagram is lost, or finds its receiver down.
Lose(e, kind) ==
    /\ <<e, kind>> \in net
    /\ net' = net \ {<<e, kind>>}
    /\ lost' = [f \in Ends |-> IF lost[f] < MaxLost THEN lost[f] + 1 ELSE lost[f]]
    /\ UNCHANGED <<running, knows, age, beat, checked, strange>>

Crash(e) ==
    /\ e \in running
    /\ running' = running \ {e}
    /\ knows' = knows \ {e}
    /\ strange' = strange \cup {Other(e)}
    /\ UNCHANGED <<age, beat, checked, net, lost>>

\* The tables are empty but for what the end dials; its tickers start anew.
Restart(e) ==
    /\ e \notin running
    /\ running' = running \cup {e}
    /\ knows' = IF e \in Dials THEN knows \cup {e} ELSE knows
    /\ Touch(e)
    /\ beat' = [beat EXCEPT ![e] = BeatEvery]
    /\ strange' = (strange \ {e}) \cup Strangers(knows')
    /\ UNCHANGED <<checked, net>>

\* The period is over: everything due in it was done.
Tick ==
    /\ running \subseteq checked
    /\ \A e \in running : beat[e] # 0
    /\ net = {}
    /\ checked' = {}
    /\ beat' = [e \in Ends |-> IF e \in running THEN beat[e] - 1 ELSE beat[e]]
    /\ age' = [e \in Ends |-> IF e \in knows THEN age[e] + 1 ELSE 0]
    /\ UNCHANGED <<running, knows, net, lost, strange>>

HeartNext ==
    \/ \E e \in Ends :
          \/ Beat(e) \/ Keep(e) \/ Evict(e) \/ Crash(e) \/ Restart(e)
          \/ \E kind \in {"ping", "pong"} : Deliver(e, kind) \/ Lose(e, kind)
    \/ Tick

HeartSpec == HeartInit /\ [][HeartNext]_heartVars

\* Time passes, the tickers tick, and of the pings, and of the pongs, sent to an
\* end again and again some arrive.
HeartFairness ==
    /\ WF_heartVars(Tick)
    /\ \A e \in Ends :
          /\ WF_heartVars(Beat(e))
          /\ WF_heartVars(Keep(e) \/ Evict(e))
          /\ \A kind \in {"ping", "pong"} :
                /\ SF_heartVars(Deliver(e, kind))
                /\ WF_heartVars(Deliver(e, kind) \/ Lose(e, kind))

HeartFairSpec == HeartSpec /\ HeartFairness

=============================================================================
