--------------------------------- MODULE Gossip ---------------------------------
(***************************************************************************)
(* Peer mode: nodes that replicate a world by gossip, without a server     *)
(* (peer.go, gossip.go, cmd/peer/main.go), over connections that keep the  *)
(* order of messages and may lose some, because outboxes and the event     *)
(* channel drop what does not fit (peering.go).                            *)
(*                                                                         *)
(* A node has two goroutines: the event loop, which handles the messages   *)
(* of all its peers, and the worker of the -work flag, which submits       *)
(* results of its own.  Both apply to the node's world, whose change       *)
(* handler broadcasts the new version on the goroutine that applied it.    *)
(*                                                                         *)
(* No message carries a request ID, so that a message's identity is its    *)
(* type and payload: the message itself.                                   *)
(***************************************************************************)
EXTENDS Naturals, Sequences

CONSTANTS
    Nodes,
    Links,      \* pairs of connected nodes, in both directions
    Objects,    \* object IDs; a task ID is the ID of its object
    Payloads,   \* results' data
    Nil,
    Works,      \* <<node, object>>: what the worker of each node submits
    Submissions,\* bound: how many results each worker submits
    MaxVersion, \* bound: never in the way when it is large enough
    Lossy       \* may messages be dropped?

ASSUME GossipAssumption ==
    /\ Links \subseteq Nodes \X Nodes
    /\ \A l \in Links : <<l[2], l[1]>> \in Links
    /\ Works \subseteq Nodes \X Objects
    /\ Nil \notin Payloads
    /\ Submissions \in Nat /\ MaxVersion \in Nat
    /\ Lossy \in BOOLEAN

Threads == {"loop", "worker"} \X Nodes

Loop(n)   == <<"loop", n>>
Worker(n) == <<"worker", n>>

VARIABLES
    object, event,  \* the world of each node: its objects are <<node, object>>
    link,       \* per direction of a connection: messages under way
    sends,      \* per goroutine: <<peer, message>> of its broadcast still to do
    seen,       \* per node: g.seen
    handling,   \* per node: the message the event loop is in the middle of
    working,    \* per node: the result the worker is in the middle of
    left,       \* per node: submissions the worker will still make
    earned      \* history: how often a result was merged, per object, anywhere

world == <<object, event>>
vars == <<world, link, sends, seen, handling, working, left, earned>>

W == INSTANCE World WITH
    Objects <- Nodes \X Objects, Data <- Payloads, Tags <- {}, Writers <- Threads

Message == [type : {"submit"}, id : Objects, data : Payloads]
           \cup [type : {"update"}, id : Objects, data : Payloads, version : 1..MaxVersion]

Submit(o, d) == [type |-> "submit", id |-> o, data |-> d]

\* A variant: the version the object had before the change.
UpdateOfPrevious(o, d, v) ==
    [type |-> "update", id |-> o, data |-> d, version |-> v - 1]

Update(o, d, v) == [type |-> "update", id |-> o, data |-> d, version |-> v]

Peers(n) == {p \in Nodes : <<n, p>> \in Links}

\* The goroutine has finished its broadcast and its change handlers.
Idle(th) == sends[th] = {} /\ event[th] = {}

Init ==
    /\ W!Init
    /\ link = [l \in Links |-> <<>>]
    /\ sends = [th \in Threads |-> {}]
    /\ seen = [n \in Nodes |-> {}]
    /\ handling = [n \in Nodes |-> {}]
    /\ working = [n \in Nodes |-> {}]
    /\ left = [n \in Nodes |-> Submissions]
    /\ earned = [o \in Objects |-> 0]

-----------------------------------------------------------------------------
(* Broadcasts *)

BroadcastExcept(th, n, m, except) ==
    sends' = [sends EXCEPT ![th] = {<<p, m>> : p \in Peers(n) \ {except}}]

Broadcast(th, n, m) ==
    sends' = [sends EXCEPT ![th] = {<<p, m>> : p \in Peers(n)}]

Send(th, p, m) ==
    /\ <<p, m>> \in sends[th]
    /\ sends' = [sends EXCEPT ![th] = @ \ {<<p, m>>}]
    /\ link' = [link EXCEPT ![<<th[2], p>>] = Append(@, m)]
    /\ UNCHANGED <<world, seen, handling, working, left, earned>>

\* A full outbox or event channel drops the message.
Drop(l) ==
    /\ Lossy
    /\ link[l] # <<>>
    /\ link' = [link EXCEPT ![l] = Tail(@)]
    /\ UNCHANGED <<world, sends, seen, handling, working, left, earned>>

\* The change handler of Node.Run.
FireChange(th) ==
    /\ sends[th] = {}
    /\ W!Fire(th)
    /\ \E e \in event[th] :
          Broadcast(th, th[2], Update(e.id[2], e.object.data, e.object.version))
    /\ UNCHANGED <<link, seen, handling, working, left, earned>>

-----------------------------------------------------------------------------
(* The worker *)

\* activeMgr.Broadcast comes first: the message is not put into g.seen.
WorkerSubmit(n, o, d) ==
    /\ <<n, o>> \in Works
    /\ left[n] > 0
    /\ working[n] = {}
    /\ Idle(Worker(n))
    /\ Broadcast(Worker(n), n, Submit(o, d))
    /\ working' = [working EXCEPT ![n] = {[id |-> o, data |-> d]}]
    /\ left' = [left EXCEPT ![n] = @ - 1]
    /\ UNCHANGED <<world, link, seen, handling, earned>>

\* SubmitLocalResult: the merge function replaces the object of that ID.
WorkerApply(n) ==
    /\ Idle(Worker(n))
    /\ \E w \in working[n] :
          /\ W!Apply(Worker(n), <<n, w.id>>, 0, w.data, Nil)
          /\ earned' = [earned EXCEPT ![w.id] = @ + 1]
    /\ working' = [working EXCEPT ![n] = {}]
    /\ UNCHANGED <<link, sends, seen, handling, left>>

-----------------------------------------------------------------------------
(* The event loop *)

\* A variant: an update of the version the node has is news.
IsNewsUnlessOlder(n, m) ==
    m.type = "submit" \/ object[<<n, m.id>>].version <= m.version

\* handleWorldUpdate skips what is not newer than the node's version.
IsNews(n, m) == m.type = "submit" \/ object[<<n, m.id>>].version < m.version

\* A variant: the event loop ends at a message it has seen before.
ReceiveUntilSeen(n, p) ==
    /\ <<p, n>> \in Links
    /\ link[<<p, n>>] # <<>>
    /\ Head(link[<<p, n>>]) \notin seen[n]
    /\ handling[n] = {}
    /\ Idle(Loop(n))
    /\ LET m == Head(link[<<p, n>>])
       IN  /\ seen' = [seen EXCEPT ![n] = @ \cup {m}]
           /\ handling' = [handling EXCEPT ![n] =
                 IF IsNews(n, m)
                   THEN {[msg |-> m, from |-> p, applied |-> FALSE]} ELSE {}]
    /\ link' = [link EXCEPT ![<<p, n>>] = Tail(@)]
    /\ UNCHANGED <<world, sends, working, left, earned>>

\* Messages are told apart by their type and their payload.
ShouldForward(n, m) == m \notin seen[n]

\* ShouldForward records every message it sees for the first time; for an
\* update follows the look at the version the node has.
Receive(n, p) ==
    /\ <<p, n>> \in Links
    /\ link[<<p, n>>] # <<>>
    /\ handling[n] = {}
    /\ Idle(Loop(n))
    /\ LET m == Head(link[<<p, n>>])
       IN  /\ seen' = [seen EXCEPT ![n] = @ \cup {m}]
           /\ handling' = [handling EXCEPT ![n] =
                 IF ShouldForward(n, m) /\ IsNews(n, m)
                   THEN {[msg |-> m, from |-> p, applied |-> FALSE]} ELSE {}]
    /\ link' = [link EXCEPT ![<<p, n>>] = Tail(@)]
    /\ UNCHANGED <<world, sends, working, left, earned>>

\* Both kinds of message are applied without naming a version: an update gets
\* the node's next version, whatever version it carries.
LoopApply(n) ==
    /\ \E h \in handling[n] :
          /\ ~h.applied
          /\ W!Apply(Loop(n), <<n, h.msg.id>>, 0, h.msg.data, Nil)
          /\ handling' = [handling EXCEPT ![n] = {[h EXCEPT !.applied = TRUE]}]
          /\ earned' = IF h.msg.type = "submit"
                         THEN [earned EXCEPT ![h.msg.id] = @ + 1] ELSE earned
    /\ UNCHANGED <<link, sends, seen, working, left>>

\* Then the message is forwarded to all peers but the one it came from.
LoopForward(n) ==
    /\ Idle(Loop(n))
    /\ \E h \in handling[n] :
          /\ h.applied
          /\ BroadcastExcept(Loop(n), n, h.msg, h.from)
    /\ handling' = [handling EXCEPT ![n] = {}]
    /\ UNCHANGED <<world, link, seen, working, left, earned>>

-----------------------------------------------------------------------------
(* The garbage collector of g.seen *)

\* Nothing is under way.
Quiet ==
    /\ \A l \in Links : link[l] = <<>>
    /\ \A th \in Threads : Idle(th)
    /\ \A n \in Nodes : handling[n] = {} /\ working[n] = {}

\* gc deletes the entries that are older than maxAge, five minutes.  It is
\* assumed that messages are not under way for that long: entries are deleted
\* when nothing is.
Forget(n) ==
    /\ Quiet
    /\ seen[n] # {}
    /\ seen' = [seen EXCEPT ![n] = {}]
    /\ UNCHANGED <<world, link, sends, handling, working, left, earned>>

-----------------------------------------------------------------------------
\* What a goroutine does once it has a change or a broadcast to finish.
Finish(th) == FireChange(th) \/ \E s \in sends[th] : Send(th, s[1], s[2])

LoopStep(n) ==
    \/ \E p \in Nodes : Receive(n, p)
    \/ LoopApply(n)
    \/ LoopForward(n)
    \/ Finish(Loop(n))

WorkerStep(n) == WorkerApply(n) \/ Finish(Worker(n))

Next ==
    \/ \E n \in Nodes, o \in Objects, d \in Payloads : WorkerSubmit(n, o, d)
    \/ \E n \in Nodes : LoopStep(n) \/ WorkerStep(n) \/ Forget(n)
    \/ \E l \in Links : Drop(l)

Spec == Init /\ [][Next]_vars

\* Both goroutines of every node are scheduled.
Fairness == \A n \in Nodes : WF_vars(LoopStep(n)) /\ WF_vars(WorkerStep(n))

FairSpec == Spec /\ Fairness

=============================================================================
