------------------------------ MODULE GossipProps ------------------------------
(***************************************************************************)
(* The properties of peer mode.                                            *)
(***************************************************************************)
EXTENDS Gossip

\* The nodes' data and the messages keep their types.
TypeOK ==
    /\ object \in [Nodes \X Objects -> W!Object]
    /\ event \in [Threads -> SUBSET W!Event]
    /\ link \in [Links -> Seq(Message)]
    /\ sends \in [Threads -> SUBSET (Nodes \X Message)]
    /\ seen \in [Nodes -> SUBSET Message]
    /\ handling \in [Nodes -> SUBSET [msg : Message, from : Nodes, applied : BOOLEAN]]
    /\ working \in [Nodes -> SUBSET [id : Objects, data : Payloads]]
    /\ left \in [Nodes -> 0..Submissions]
    /\ earned \in [Objects -> Nat]

\* An update carries no version that was not earned.
BackedBy(e, m) == m.type = "update" => m.version <= e[m.id]

\* ... wherever it is queued, or in the middle of being handled.
MessagesAreEarned ==
    /\ \A l \in Links : \A i \in 1..Len(link[l]) : BackedBy(earned, link[l][i])
    /\ \A th \in Threads : \A s \in sends[th] : BackedBy(earned, s[2])
    /\ \A n \in Nodes : \A h \in handling[n] : BackedBy(earned, h.msg)

\* Versions are earned by results, not by gossip.  An update raises the version
\* of every node it reaches, and each node announces its new version in turn;
\* yet no node is ever ahead of the number of times a result was merged into
\* the object somewhere, so that replication alone cannot drive versions up,
\* whatever the worker does between the event loop's look at the version and
\* its Apply.
VersionsAreEarned ==
    /\ \A n \in Nodes, o \in Objects : object[<<n, o>>].version <= earned[o]
    /\ MessagesAreEarned

(* What makes VersionsAreEarned inductive. *)

\* A change announces a version that is positive, and earned.
EventsOK ==
    \A th \in Threads : \A e \in event[th] :
       e.object.data \in Payloads /\ e.object.version \in 1..MaxVersion

EventsAreEarned ==
    \A th \in Threads : \A e \in event[th] : e.object.version <= earned[e.id[2]]

\* The event loop's check is still good for something when it gets to Apply:
\* the node is behind what was earned, even if the worker has gone on.
RoomForUpdate ==
    \A n \in Nodes : \A h \in handling[n] :
       h.msg.type = "update" /\ ~h.applied =>
          object[<<n, h.msg.id>>].version < earned[h.msg.id]

VersionInv ==
    TypeOK /\ EventsOK /\ VersionsAreEarned /\ EventsAreEarned /\ RoomForUpdate

\* A result travels every cycle of connections at most once: when the workers
\* have stopped, the gossip dies down.
GossipDiesDown == (\A w \in Works : left[w[1]] = 0) ~> Quiet

\* README.md, "Peer Mode": each participant "converges toward a shared world
\* state using version-based conflict resolution".  When nothing is under way
\* any more all nodes have the same world.
Converged ==
    Quiet => \A a, b \in Nodes, o \in Objects : object[<<a, o>>] = object[<<b, o>>]

=============================================================================
