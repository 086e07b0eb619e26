----------------------------- MODULE GossipProofs -----------------------------
(***************************************************************************)
(* Proofs about peer mode, for any network of nodes, any objects and       *)
(* results, with and without loss.                                         *)
(***************************************************************************)
EXTENDS GossipProps, TLAPS

USE GossipAssumption

-----------------------------------------------------------------------------
(* Types *)

LEMMA ThreadTypes ==
    ASSUME NEW n \in Nodes
    PROVE  /\ Loop(n) \in Threads /\ Loop(n)[2] = n
           /\ Worker(n) \in Threads /\ Worker(n)[2] = n
           /\ Loop(n) # Worker(n)
BY DEF Loop, Worker, Threads

LEMMA ThreadNode ==
    ASSUME NEW th \in Threads
    PROVE  th[2] \in Nodes
BY DEF Threads

\* Applying to a node's world, and telling its handlers, keeps their types.
LEMMA ApplyTypes ==
    ASSUME TypeOK, NEW th \in Threads, NEW n \in Nodes, NEW o \in Objects,
           NEW d \in Payloads, W!Apply(th, <<n, o>>, 0, d, Nil)
    PROVE  /\ object' \in [Nodes \X Objects -> W!Object]
           /\ event' \in [Threads -> SUBSET W!Event]
<1> DEFINE old == object[<<n, o>>]
           new == [version |-> old.version + 1,
                   data    |-> W!Given(d, old.data),
                   tags    |-> W!Given(Nil, old.tags)]
<1>1. old \in W!Object
  BY DEF TypeOK
<1>2. new \in W!Object
  BY <1>1 DEF W!Object, W!Given, W!Apply
<1>3. object' \in [Nodes \X Objects -> W!Object]
  BY <1>2 DEF W!Apply, TypeOK
<1>4. \A kind \in {"created", "updated"} :
         [kind |-> kind, id |-> <<n, o>>, object |-> new] \in W!Event
  BY <1>2 DEF W!Event
<1>5. event' \in [Threads -> SUBSET W!Event]
  BY <1>4 DEF W!Apply, TypeOK
<1>6. QED
  BY <1>3, <1>5

LEMMA BroadcastTypes ==
    ASSUME TypeOK, NEW th \in Threads, NEW n \in Nodes, NEW m \in Message,
           NEW except, Broadcast(th, n, m) \/ BroadcastExcept(th, n, m, except)
    PROVE  sends' \in [Threads -> SUBSET (Nodes \X Message)]
<1> DEFINE all == {<<p, m>> : p \in Peers(n)}
           most == {<<p, m>> : p \in Peers(n) \ {except}}
<1>0. \A p \in Peers(n) : <<p, m>> \in Nodes \X Message
  BY DEF Peers
<1>1. all \subseteq Nodes \X Message
  BY <1>0, Zenon
<1>2. most \subseteq Nodes \X Message
  BY <1>0, Zenon
<1>3. CASE Broadcast(th, n, m)
  BY <1>1, <1>3 DEF Broadcast, TypeOK
<1>4. CASE BroadcastExcept(th, n, m, except)
  BY <1>2, <1>4 DEF BroadcastExcept, TypeOK
<1>5. QED
  BY <1>3, <1>4

LEMMA TypeInit == Init => TypeOK /\ EventsOK
BY DEF Init, TypeOK, EventsOK, W!Init, W!Object, W!Absent

\* An object's version is positive, and its data a result's, once it was
\* applied to.
LEMMA ApplyEvents ==
    ASSUME TypeOK, EventsOK, NEW th \in Threads, NEW n \in Nodes,
           NEW o \in Objects, NEW d \in Payloads,
           W!Apply(th, <<n, o>>, 0, d, Nil)
    PROVE  EventsOK'
<1> DEFINE old == object[<<n, o>>]
<1>1. old.version \in 0..MaxVersion /\ old.version < MaxVersion
  BY DEF TypeOK, W!Object, W!Apply
<1>2. \A e \in event'[th] : e.object.version = old.version + 1 /\ e.object.data = d
  BY DEF W!Apply, W!Given, TypeOK
<1>3. \A e \in event'[th] : e.object.version \in 1..MaxVersion /\ e.object.data \in Payloads
  BY <1>1, <1>2
<1>4. \A t \in Threads \ {th} : event'[t] = event[t]
  BY DEF W!Apply, TypeOK
<1>5. QED
  BY <1>3, <1>4 DEF EventsOK

LEMMA TypeStep == TypeOK /\ EventsOK /\ [Next]_vars => TypeOK'
<1> SUFFICES ASSUME TypeOK, EventsOK, [Next]_vars
             PROVE  TypeOK'
  OBVIOUS
<1>1. ASSUME NEW n \in Nodes, NEW o \in Objects, NEW d \in Payloads,
             WorkerSubmit(n, o, d)
      PROVE  TypeOK'
  <2>1. Submit(o, d) \in Message
    BY DEF Submit, Message
  <2>2. sends' \in [Threads -> SUBSET (Nodes \X Message)]
    BY <1>1, <2>1, BroadcastTypes, ThreadTypes DEF WorkerSubmit
  <2>3. left' \in [Nodes -> 0..Submissions]
    BY <1>1 DEF WorkerSubmit, TypeOK
  <2>4. working' \in [Nodes -> SUBSET [id : Objects, data : Payloads]]
    BY <1>1 DEF WorkerSubmit, TypeOK
  <2>5. QED
    BY <1>1, <2>2, <2>3, <2>4 DEF WorkerSubmit, TypeOK, world
<1>2. ASSUME NEW n \in Nodes, WorkerApply(n)
      PROVE  TypeOK'
  <2>1. PICK w \in working[n] :
           /\ W!Apply(Worker(n), <<n, w.id>>, 0, w.data, Nil)
           /\ earned' = [earned EXCEPT ![w.id] = @ + 1]
    BY <1>2 DEF WorkerApply
  <2>2. w.id \in Objects /\ w.data \in Payloads
    BY DEF TypeOK
  <2>3. /\ object' \in [Nodes \X Objects -> W!Object]
        /\ event' \in [Threads -> SUBSET W!Event]
    BY <2>1, <2>2, ApplyTypes, ThreadTypes
  <2>4. earned' \in [Objects -> Nat]
    BY <2>1, <2>2 DEF TypeOK
  <2>5. working' \in [Nodes -> SUBSET [id : Objects, data : Payloads]]
    BY <1>2 DEF WorkerApply, TypeOK
  <2>6. QED
    BY <1>2, <2>3, <2>4, <2>5 DEF WorkerApply, TypeOK
<1>3. ASSUME NEW n \in Nodes, NEW p \in Nodes, Receive(n, p)
      PROVE  TypeOK'
  <2> DEFINE l == <<p, n>>
             m == Head(link[l])
  <2>1. l \in Links /\ link[l] \in Seq(Message) /\ link[l] # <<>>
    BY <1>3 DEF Receive, TypeOK
  <2>2. m \in Message /\ Tail(link[l]) \in Seq(Message)
    BY <2>1
  <2>3. link' \in [Links -> Seq(Message)]
    BY <1>3, <2>1, <2>2 DEF Receive, TypeOK
  <2>4. seen' \in [Nodes -> SUBSET Message]
    BY <1>3, <2>2 DEF Receive, TypeOK
  <2>5. [msg |-> m, from |-> p, applied |-> FALSE]
           \in [msg : Message, from : Nodes, applied : BOOLEAN]
    BY <2>2
  <2>6. handling' \in [Nodes -> SUBSET [msg : Message, from : Nodes, applied : BOOLEAN]]
    BY <1>3, <2>5 DEF Receive, TypeOK
  <2>7. QED
    BY <1>3, <2>3, <2>4, <2>6 DEF Receive, TypeOK, world
<1>4. ASSUME NEW n \in Nodes, LoopApply(n)
      PROVE  TypeOK'
  <2>1. PICK h \in handling[n] :
           /\ W!Apply(Loop(n), <<n, h.msg.id>>, 0, h.msg.data, Nil)
           /\ handling' = [handling EXCEPT ![n] = {[h EXCEPT !.applied = TRUE]}]
           /\ earned' = IF h.msg.type = "submit"
                          THEN [earned EXCEPT ![h.msg.id] = @ + 1] ELSE earned
    BY <1>4 DEF LoopApply
  <2>2. h \in [msg : Message, from : Nodes, applied : BOOLEAN]
    BY DEF TypeOK
  <2>3. h.msg.id \in Objects /\ h.msg.data \in Payloads
    BY <2>2 DEF Message
  <2>4. /\ object' \in [Nodes \X Objects -> W!Object]
        /\ event' \in [Threads -> SUBSET W!Event]
    BY <2>1, <2>3, ApplyTypes, ThreadTypes
  <2>5. earned' \in [Objects -> Nat]
    BY <2>1, <2>3 DEF TypeOK
  <2>6. [h EXCEPT !.applied = TRUE] \in [msg : Message, from : Nodes, applied : BOOLEAN]
    BY <2>2
  <2>7. handling' \in [Nodes -> SUBSET [msg : Message, from : Nodes, applied : BOOLEAN]]
    BY <2>1, <2>6 DEF TypeOK
  <2>8. QED
    BY <1>4, <2>4, <2>5, <2>7 DEF LoopApply, TypeOK
<1>5. ASSUME NEW n \in Nodes, LoopForward(n)
      PROVE  TypeOK'
  <2>1. PICK h \in handling[n] : BroadcastExcept(Loop(n), n, h.msg, h.from)
    BY <1>5 DEF LoopForward
  <2>2. h.msg \in Message
    BY DEF TypeOK
  <2>3. sends' \in [Threads -> SUBSET (Nodes \X Message)]
    BY <2>1, <2>2, BroadcastTypes, ThreadTypes
  <2>4. handling' \in [Nodes -> SUBSET [msg : Message, from : Nodes, applied : BOOLEAN]]
    BY <1>5 DEF LoopForward, TypeOK
  <2>5. QED
    BY <1>5, <2>3, <2>4 DEF LoopForward, TypeOK, world
<1>6. ASSUME NEW th \in Threads, FireChange(th)
      PROVE  TypeOK'
  <2>1. PICK e \in event[th] :
           Broadcast(th, th[2], Update(e.id[2], e.object.data, e.object.version))
    BY <1>6 DEF FireChange
  <2>2. event' \in [Threads -> SUBSET W!Event] /\ object' = object
    BY <1>6 DEF FireChange, W!Fire, TypeOK
  <2>3. e.object.data \in Payloads /\ e.object.version \in 1..MaxVersion
    BY DEF EventsOK
  <2>4. e \in W!Event
    BY DEF TypeOK
  <2>5. e.id[2] \in Objects
    BY <2>4 DEF W!Event
  <2>6. Update(e.id[2], e.object.data, e.object.version) \in Message
    BY <2>3, <2>5 DEF Update, Message
  <2>7. sends' \in [Threads -> SUBSET (Nodes \X Message)]
    BY <2>1, <2>6, BroadcastTypes, ThreadNode
  <2>8. QED
    BY <1>6, <2>2, <2>7 DEF FireChange, TypeOK
<1>7. ASSUME NEW th \in Threads, NEW s \in sends[th], Send(th, s[1], s[2])
      PROVE  TypeOK'
  <2>1. s \in Nodes \X Message
    BY DEF TypeOK
  <2> DEFINE l == <<th[2], s[1]>>
  <2>2. link' \in [Links -> Seq(Message)]
    <3>1. link' = [link EXCEPT ![l] = Append(@, s[2])]
      BY <1>7 DEF Send
    <3>2. CASE l \in Links
      <4>1. link[l] \in Seq(Message) /\ s[2] \in Message
        BY <2>1, <3>2 DEF TypeOK
      <4>2. Append(link[l], s[2]) \in Seq(Message)
        BY <4>1
      <4>3. QED
        BY <3>1, <4>2 DEF TypeOK
    <3>3. CASE l \notin Links
      BY <3>1, <3>3 DEF TypeOK
    <3>4. QED
      BY <3>2, <3>3
  <2>3. sends' \in [Threads -> SUBSET (Nodes \X Message)]
    BY <1>7 DEF Send, TypeOK
  <2>4. QED
    BY <1>7, <2>2, <2>3 DEF Send, TypeOK, world
<1>8. ASSUME NEW l \in Links, Drop(l)
      PROVE  TypeOK'
  <2>1. Tail(link[l]) \in Seq(Message)
    BY <1>8 DEF Drop, TypeOK
  <2>2. QED
    BY <1>8, <2>1 DEF Drop, TypeOK, world
<1>9. ASSUME NEW n \in Nodes, Forget(n)
      PROVE  TypeOK'
  BY <1>9 DEF Forget, TypeOK, world
<1>10. CASE UNCHANGED vars
  BY <1>10 DEF vars, world, TypeOK
<1>11. QED
  BY <1>1, <1>2, <1>3, <1>4, <1>5, <1>6, <1>7, <1>8, <1>9, <1>10, ThreadTypes
     DEF Next, LoopStep, WorkerStep, Finish

\* Only Apply and Fire touch the events.
LEMMA EventStep == TypeOK /\ EventsOK /\ [Next]_vars => EventsOK'
<1> SUFFICES ASSUME TypeOK, EventsOK, [Next]_vars
             PROVE  EventsOK'
  OBVIOUS
<1>1. ASSUME event' = event
      PROVE  EventsOK'
  BY <1>1 DEF EventsOK
<1>2. ASSUME NEW n \in Nodes, WorkerApply(n)
      PROVE  EventsOK'
  <2>1. PICK w \in working[n] : W!Apply(Worker(n), <<n, w.id>>, 0, w.data, Nil)
    BY <1>2 DEF WorkerApply
  <2>2. w.id \in Objects /\ w.data \in Payloads
    BY DEF TypeOK
  <2>3. QED
    BY <2>1, <2>2, ApplyEvents, ThreadTypes
<1>3. ASSUME NEW n \in Nodes, LoopApply(n)
      PROVE  EventsOK'
  <2>1. PICK h \in handling[n] : W!Apply(Loop(n), <<n, h.msg.id>>, 0, h.msg.data, Nil)
    BY <1>3 DEF LoopApply
  <2>2. h.msg \in Message
    BY DEF TypeOK
  <2>3. h.msg.id \in Objects /\ h.msg.data \in Payloads
    BY <2>2 DEF Message
  <2>4. QED
    BY <2>1, <2>3, ApplyEvents, ThreadTypes
<1>4. ASSUME NEW th \in Threads, FireChange(th)
      PROVE  EventsOK'
  BY <1>4 DEF FireChange, W!Fire, EventsOK, TypeOK
<1>5. QED
  BY <1>1, <1>2, <1>3, <1>4, ThreadTypes
     DEF Next, LoopStep, WorkerStep, Finish, WorkerSubmit, Receive, LoopForward,
         Send, Drop, Forget, vars, world

-----------------------------------------------------------------------------
(* Versions are earned *)

LEMMA MessageFields ==
    ASSUME NEW m \in Message
    PROVE  /\ m.id \in Objects
           /\ m.type = "update" => m.version \in 1..MaxVersion
BY DEF Message

\* What was earned is never taken back.
LEMMA BackedStays ==
    ASSUME NEW e \in [Objects -> Nat], NEW f \in [Objects -> Nat],
           \A o \in Objects : e[o] <= f[o],
           NEW m \in Message, BackedBy(e, m)
    PROVE  BackedBy(f, m)
<1>1. m.id \in Objects /\ e[m.id] \in Nat /\ f[m.id] \in Nat
  BY MessageFields
<1>2. SUFFICES ASSUME m.type = "update"
               PROVE  m.version <= f[m.id]
  BY DEF BackedBy
<1>3. m.version \in 1..MaxVersion /\ m.version <= e[m.id]
  BY <1>2, MessageFields DEF BackedBy
<1>4. QED
  BY <1>1, <1>3

\* Messages that stay where they are stay earned.
LEMMA MessagesStay ==
    ASSUME TypeOK, MessagesAreEarned,
           NEW f \in [Objects -> Nat], \A o \in Objects : earned[o] <= f[o]
    PROVE  /\ \A l \in Links : \A i \in 1..Len(link[l]) : BackedBy(f, link[l][i])
           /\ \A th \in Threads : \A s \in sends[th] : BackedBy(f, s[2])
           /\ \A n \in Nodes : \A h \in handling[n] : BackedBy(f, h.msg)
<1>1. \A l \in Links : \A i \in 1..Len(link[l]) : link[l][i] \in Message
  BY DEF TypeOK
<1>2. \A th \in Threads : \A s \in sends[th] : s[2] \in Message
  BY DEF TypeOK
<1>3. \A n \in Nodes : \A h \in handling[n] : h.msg \in Message
  BY DEF TypeOK
<1>4. earned \in [Objects -> Nat]
  BY DEF TypeOK
<1>5. QED
  BY <1>1, <1>2, <1>3, <1>4, BackedStays DEF MessagesAreEarned

\* An Apply that something was earned for leaves the versions earned.
LEMMA ApplyVersions ==
    ASSUME VersionInv, NEW th \in Threads, NEW n \in Nodes, NEW o \in Objects,
           NEW d \in Payloads, W!Apply(th, <<n, o>>, 0, d, Nil),
           earned' \in [Objects -> Nat],
           \A q \in Objects : earned[q] <= earned'[q],
           object[<<n, o>>].version < earned'[o]
    PROVE  /\ \A k \in Nodes, q \in Objects : object'[<<k, q>>].version <= earned'[q]
           /\ EventsAreEarned'
<1> DEFINE old == object[<<n, o>>]
<1> USE DEF VersionInv
<1>1. /\ \A x \in Nodes \X Objects : object[x].version \in Nat
      /\ \A q \in Objects : earned[q] \in Nat /\ earned'[q] \in Nat
  BY DEF TypeOK, W!Object
<1>2. object'[<<n, o>>].version = old.version + 1
  BY DEF W!Apply, TypeOK
<1>3. \A k \in Nodes, q \in Objects :
         <<k, q>> # <<n, o>> => object'[<<k, q>>] = object[<<k, q>>]
  BY DEF W!Apply, TypeOK
<1>4. ASSUME NEW k \in Nodes, NEW q \in Objects
      PROVE  object'[<<k, q>>].version <= earned'[q]
  <2>1. CASE <<k, q>> = <<n, o>>
    <3>1. old.version \in Nat /\ earned'[o] \in Nat
      BY <1>1
    <3>2. q = o
      BY <2>1
    <3>3. QED
      BY <1>2, <2>1, <3>1, <3>2
  <2>2. CASE <<k, q>> # <<n, o>>
    <3>1. object[<<k, q>>].version \in Nat
      BY <1>1
    <3>2. object[<<k, q>>].version <= earned[q]
      BY DEF VersionsAreEarned
    <3>3. QED
      BY <1>1, <1>3, <2>2, <3>1, <3>2
  <2>3. QED
    BY <2>1, <2>2
<1>5. \A e \in event'[th] : e.id = <<n, o>> /\ e.object.version = old.version + 1
  BY DEF W!Apply, TypeOK
<1>6. \A t \in Threads \ {th} : event'[t] = event[t]
  BY DEF W!Apply, TypeOK
<1>7. ASSUME NEW t \in Threads \ {th}, NEW e \in event[t]
      PROVE  e.object.version <= earned'[e.id[2]]
  <2>1. e.id[2] \in Objects /\ e.object.version \in Nat
    BY DEF TypeOK, W!Event, W!Object
  <2>2. e.object.version <= earned[e.id[2]]
    BY DEF EventsAreEarned
  <2>3. QED
    BY <1>1, <2>1, <2>2
<1>8. ASSUME NEW e \in event'[th]
      PROVE  e.object.version <= earned'[e.id[2]]
  BY <1>1, <1>5
<1>9. QED
  BY <1>4, <1>6, <1>7, <1>8 DEF EventsAreEarned

\* A step that applies nothing, and earns nothing, keeps the objects' versions.
LEMMA SameObjects ==
    ASSUME VersionInv, UNCHANGED <<object, earned>>,
           \A th \in Threads : event'[th] \subseteq event[th]
    PROVE  /\ \A n \in Nodes, o \in Objects : object'[<<n, o>>].version <= earned'[o]
           /\ EventsAreEarned'
BY DEF VersionInv, VersionsAreEarned, EventsAreEarned

LEMMA VersionInit == Init => VersionInv
<1> SUFFICES ASSUME Init
             PROVE  VersionInv
  OBVIOUS
<1>1. TypeOK /\ EventsOK
  BY TypeInit
<1>2. VersionsAreEarned /\ EventsAreEarned /\ RoomForUpdate
  BY DEF Init, W!Init, W!Absent, VersionsAreEarned, MessagesAreEarned, EventsAreEarned,
         RoomForUpdate
<1>3. QED
  BY <1>1, <1>2 DEF VersionInv

\* A broadcast sends a message that is earned.
LEMMA BroadcastEarned ==
    ASSUME VersionInv, UNCHANGED earned, NEW th \in Threads, NEW n \in Nodes,
           NEW m \in Message, BackedBy(earned, m), NEW except,
           Broadcast(th, n, m) \/ BroadcastExcept(th, n, m, except)
    PROVE  \A t \in Threads : \A s \in sends'[t] : BackedBy(earned', s[2])
<1>1. \A s \in sends'[th] : s[2] = m
  BY DEF Broadcast, BroadcastExcept, VersionInv, TypeOK
<1>2. \A t \in Threads \ {th} : sends'[t] = sends[t]
  BY DEF Broadcast, BroadcastExcept, VersionInv, TypeOK
<1>3. QED
  BY <1>1, <1>2 DEF VersionInv, VersionsAreEarned, MessagesAreEarned

LEMMA WorkerSubmitVersions ==
    ASSUME VersionInv, NEW n \in Nodes, NEW o \in Objects, NEW d \in Payloads,
           WorkerSubmit(n, o, d)
    PROVE  VersionsAreEarned' /\ EventsAreEarned' /\ RoomForUpdate'
<1>1. UNCHANGED <<object, event, link, handling, earned>>
  BY DEF WorkerSubmit, world
<1>2. Submit(o, d) \in Message /\ BackedBy(earned, Submit(o, d))
  BY DEF Submit, Message, BackedBy
<1>3. \A t \in Threads : \A s \in sends'[t] : BackedBy(earned', s[2])
  BY <1>1, <1>2, BroadcastEarned, ThreadTypes DEF WorkerSubmit
<1>4. MessagesAreEarned'
  BY <1>1, <1>3 DEF VersionInv, VersionsAreEarned, MessagesAreEarned
<1>5. QED
  BY <1>1, <1>4, SameObjects DEF VersionInv, VersionsAreEarned, RoomForUpdate

LEMMA WorkerApplyVersions ==
    ASSUME VersionInv, TypeOK', NEW n \in Nodes, WorkerApply(n)
    PROVE  VersionsAreEarned' /\ EventsAreEarned' /\ RoomForUpdate'
<1>1. PICK w \in working[n] :
         /\ W!Apply(Worker(n), <<n, w.id>>, 0, w.data, Nil)
         /\ earned' = [earned EXCEPT ![w.id] = @ + 1]
  BY DEF WorkerApply
<1> DEFINE o == w.id
<1>2. o \in Objects /\ w.data \in Payloads
  BY DEF VersionInv, TypeOK
<1>3. earned \in [Objects -> Nat] /\ earned' \in [Objects -> Nat]
  BY DEF VersionInv, TypeOK
<1>4. earned'[o] = earned[o] + 1 /\ \A q \in Objects : earned[q] <= earned'[q]
  BY <1>1, <1>2, <1>3
<1>5. \A x \in Nodes \X Objects : object[x].version \in Nat
  BY DEF VersionInv, TypeOK, W!Object
<1>6. object[<<n, o>>].version < earned'[o]
  BY <1>2, <1>3, <1>4, <1>5 DEF VersionInv, VersionsAreEarned
<1>7. /\ \A k \in Nodes, q \in Objects : object'[<<k, q>>].version <= earned'[q]
      /\ EventsAreEarned'
  BY <1>1, <1>2, <1>3, <1>4, <1>6, ApplyVersions, ThreadTypes
<1>8. UNCHANGED <<link, sends, handling>>
  BY DEF WorkerApply
<1>9. MessagesAreEarned'
  BY <1>3, <1>4, <1>8, MessagesStay DEF VersionInv, VersionsAreEarned, MessagesAreEarned
<1>10. ASSUME NEW k \in Nodes, NEW h \in handling[k],
              h.msg.type = "update", ~h.applied
       PROVE  object'[<<k, h.msg.id>>].version < earned'[h.msg.id]
  <2> DEFINE q == h.msg.id
  <2>1. q \in Objects
    BY MessageFields DEF VersionInv, TypeOK
  <2>2. object[<<k, q>>].version < earned[q]
    BY <1>10 DEF VersionInv, RoomForUpdate
  <2>3. object[<<k, q>>].version \in Nat /\ earned[q] \in Nat /\ earned'[q] \in Nat
    BY <1>3, <1>5, <2>1
  <2>4. CASE <<k, q>> = <<n, o>>
    <3>1. object'[<<n, o>>].version = object[<<n, o>>].version + 1
      BY <1>1, <1>2 DEF W!Apply, VersionInv, TypeOK
    <3>2. q = o
      BY <2>4
    <3>3. QED
      BY <1>4, <2>2, <2>3, <2>4, <3>1, <3>2
  <2>5. CASE <<k, q>> # <<n, o>>
    <3>1. object'[<<k, q>>] = object[<<k, q>>]
      BY <1>1, <1>2, <2>1, <2>5 DEF W!Apply, VersionInv, TypeOK
    <3>2. QED
      BY <1>4, <2>1, <2>2, <2>3, <3>1
  <2>6. QED
    BY <2>4, <2>5
<1>11. RoomForUpdate'
  BY <1>8, <1>10 DEF RoomForUpdate
<1>12. QED
  BY <1>7, <1>9, <1>11 DEF VersionsAreEarned

LEMMA ReceiveVersions ==
    ASSUME VersionInv, NEW n \in Nodes, NEW p \in Nodes, Receive(n, p)
    PROVE  VersionsAreEarned' /\ EventsAreEarned' /\ RoomForUpdate'
<1> DEFINE l == <<p, n>>
           m == Head(link[l])
           taken == [msg |-> m, from |-> p, applied |-> FALSE]
<1>1. UNCHANGED <<object, event, sends, earned>>
  BY DEF Receive, world
<1>2. l \in Links /\ link[l] \in Seq(Message) /\ link[l] # <<>>
  BY DEF Receive, VersionInv, TypeOK
<1>3. m \in Message /\ m = link[l][1] /\ Len(link[l]) \in Nat \ {0}
  BY <1>2
<1>4. BackedBy(earned, m)
  BY <1>2, <1>3 DEF VersionInv, VersionsAreEarned, MessagesAreEarned
<1>5. \A k \in Links : \A i \in 1..Len(link'[k]) : BackedBy(earned', link'[k][i])
  <2>1. link' = [link EXCEPT ![l] = Tail(@)] /\ link \in [Links -> Seq(Message)]
    BY DEF Receive, VersionInv, TypeOK
  <2>2. \A i \in 1..Len(Tail(link[l])) :
           i + 1 \in 1..Len(link[l]) /\ Tail(link[l])[i] = link[l][i + 1]
    BY <1>2
  <2>3. \A i \in 1..Len(Tail(link[l])) : BackedBy(earned, Tail(link[l])[i])
    BY <1>2, <2>2 DEF VersionInv, VersionsAreEarned, MessagesAreEarned
  <2>4. QED
    BY <1>1, <1>2, <2>1, <2>3 DEF VersionInv, VersionsAreEarned, MessagesAreEarned
<1>6. \A k \in Nodes \ {n} : handling'[k] = handling[k]
  BY DEF Receive, VersionInv, TypeOK
<1>7. \A h \in handling'[n] : h = taken /\ IsNews(n, m)
  BY DEF Receive, VersionInv, TypeOK
<1>8. MessagesAreEarned'
  BY <1>1, <1>4, <1>5, <1>6, <1>7 DEF VersionInv, VersionsAreEarned, MessagesAreEarned
<1>9. ASSUME NEW h \in handling'[n], h.msg.type = "update"
      PROVE  object[<<n, h.msg.id>>].version < earned[h.msg.id]
  <2>1. h.msg = m /\ m.type = "update"
    BY <1>7, <1>9
  <2>2. object[<<n, m.id>>].version < m.version
    BY <1>7, <1>9, <2>1 DEF IsNews
  <2>3. m.version <= earned[m.id]
    BY <1>4, <2>1 DEF BackedBy
  <2>4. m.id \in Objects /\ m.version \in Nat
    BY <1>3, <2>1, MessageFields
  <2>5. object[<<n, m.id>>].version \in Nat /\ earned[m.id] \in Nat
    BY <2>4 DEF VersionInv, TypeOK, W!Object
  <2>6. QED
    BY <2>1, <2>2, <2>3, <2>4, <2>5
<1>10. RoomForUpdate'
  BY <1>1, <1>6, <1>9 DEF VersionInv, RoomForUpdate
<1>11. QED
  BY <1>1, <1>8, <1>10, SameObjects DEF VersionsAreEarned

LEMMA LoopApplyVersions ==
    ASSUME VersionInv, TypeOK', NEW n \in Nodes, LoopApply(n)
    PROVE  VersionsAreEarned' /\ EventsAreEarned' /\ RoomForUpdate'
<1>1. PICK h \in handling[n] :
         /\ ~h.applied
         /\ W!Apply(Loop(n), <<n, h.msg.id>>, 0, h.msg.data, Nil)
         /\ handling' = [handling EXCEPT ![n] = {[h EXCEPT !.applied = TRUE]}]
         /\ earned' = IF h.msg.type = "submit"
                        THEN [earned EXCEPT ![h.msg.id] = @ + 1] ELSE earned
  BY DEF LoopApply
<1> DEFINE m == h.msg
           o == m.id
<1>2. h \in [msg : Message, from : Nodes, applied : BOOLEAN]
  BY DEF VersionInv, TypeOK
<1>3. m \in Message /\ o \in Objects /\ m.data \in Payloads
  BY <1>2 DEF Message
<1>4. earned \in [Objects -> Nat] /\ earned' \in [Objects -> Nat]
  BY DEF VersionInv, TypeOK
<1>5. \A q \in Objects : earned[q] <= earned'[q]
  BY <1>1, <1>3, <1>4
<1>6. \A x \in Nodes \X Objects : object[x].version \in Nat
  BY DEF VersionInv, TypeOK, W!Object
<1>7. object[<<n, o>>].version < earned'[o]
  <2>1. CASE m.type = "submit"
    <3>1. earned'[o] = earned[o] + 1
      BY <1>1, <1>3, <1>4, <2>1
    <3>2. object[<<n, o>>].version <= earned[o]
      BY <1>3 DEF VersionInv, VersionsAreEarned
    <3>3. QED
      BY <1>3, <1>4, <1>6, <3>1, <3>2
  <2>2. CASE m.type = "update"
    <3>1. earned' = earned
      BY <1>1, <2>2
    <3>2. QED
      BY <1>1, <2>2, <3>1 DEF VersionInv, RoomForUpdate
  <2>3. m.type \in {"submit", "update"}
    BY <1>3 DEF Message
  <2>4. QED
    BY <2>1, <2>2, <2>3
<1>8. /\ \A k \in Nodes, q \in Objects : object'[<<k, q>>].version <= earned'[q]
      /\ EventsAreEarned'
  BY <1>1, <1>3, <1>4, <1>5, <1>7, ApplyVersions, ThreadTypes
<1>9. UNCHANGED <<link, sends>>
  BY DEF LoopApply
<1>10. \A k \in Nodes \ {n} : handling'[k] = handling[k]
  BY <1>1 DEF VersionInv, TypeOK
<1>11. \A g \in handling'[n] : g.msg = m /\ g.applied
  BY <1>1, <1>2 DEF VersionInv, TypeOK
<1>12. MessagesAreEarned'
  <2>1. /\ \A l \in Links : \A i \in 1..Len(link[l]) : BackedBy(earned', link[l][i])
        /\ \A th \in Threads : \A s \in sends[th] : BackedBy(earned', s[2])
        /\ \A k \in Nodes : \A g \in handling[k] : BackedBy(earned', g.msg)
    BY <1>4, <1>5, MessagesStay DEF VersionInv, VersionsAreEarned
  <2>2. \A k \in Nodes : \A g \in handling'[k] : BackedBy(earned', g.msg)
    BY <1>10, <1>11, <2>1
  <2>3. QED
    BY <1>9, <2>1, <2>2 DEF MessagesAreEarned
<1>13. ASSUME NEW k \in Nodes, NEW g \in handling'[k],
              g.msg.type = "update", ~g.applied
       PROVE  object'[<<k, g.msg.id>>].version < earned'[g.msg.id]
  <2> DEFINE q == g.msg.id
  <2>1. k # n
    BY <1>11, <1>13
  <2>2. g \in handling[k]
    BY <1>10, <2>1
  <2>3. q \in Objects
    BY <2>2, MessageFields DEF VersionInv, TypeOK
  <2>4. object[<<k, q>>].version < earned[q]
    BY <1>13, <2>2 DEF VersionInv, RoomForUpdate
  <2>5. object'[<<k, q>>] = object[<<k, q>>]
    BY <1>1, <1>3, <2>1, <2>3 DEF W!Apply, VersionInv, TypeOK
  <2>6. object[<<k, q>>].version \in Nat /\ earned[q] \in Nat /\ earned'[q] \in Nat
    BY <1>4, <1>6, <2>3
  <2>7. QED
    BY <1>5, <2>3, <2>4, <2>5, <2>6
<1>14. RoomForUpdate'
  BY <1>13 DEF RoomForUpdate
<1>15. QED
  BY <1>8, <1>12, <1>14 DEF VersionsAreEarned

LEMMA LoopForwardVersions ==
    ASSUME VersionInv, NEW n \in Nodes, LoopForward(n)
    PROVE  VersionsAreEarned' /\ EventsAreEarned' /\ RoomForUpdate'
<1>1. PICK h \in handling[n] : BroadcastExcept(Loop(n), n, h.msg, h.from)
  BY DEF LoopForward
<1>2. UNCHANGED <<object, event, link, earned>>
  BY DEF LoopForward, world
<1>3. h.msg \in Message /\ BackedBy(earned, h.msg)
  BY DEF VersionInv, TypeOK, VersionsAreEarned, MessagesAreEarned
<1>4. \A t \in Threads : \A s \in sends'[t] : BackedBy(earned', s[2])
  BY <1>1, <1>2, <1>3, BroadcastEarned, ThreadTypes
<1>5. \A k \in Nodes : handling'[k] \subseteq handling[k]
  BY DEF LoopForward, VersionInv, TypeOK
<1>6. MessagesAreEarned'
  BY <1>2, <1>4, <1>5 DEF VersionInv, VersionsAreEarned, MessagesAreEarned
<1>7. RoomForUpdate'
  BY <1>2, <1>5 DEF VersionInv, RoomForUpdate
<1>8. QED
  BY <1>2, <1>6, <1>7, SameObjects DEF VersionsAreEarned

LEMMA FireChangeVersions ==
    ASSUME VersionInv, NEW th \in Threads, FireChange(th)
    PROVE  VersionsAreEarned' /\ EventsAreEarned' /\ RoomForUpdate'
<1>1. PICK e \in event[th] :
         Broadcast(th, th[2], Update(e.id[2], e.object.data, e.object.version))
  BY DEF FireChange
<1> DEFINE m == Update(e.id[2], e.object.data, e.object.version)
<1>2. UNCHANGED <<object, link, handling, earned>>
  BY DEF FireChange, W!Fire
<1>3. \A t \in Threads : event'[t] \subseteq event[t]
  BY DEF FireChange, W!Fire, VersionInv, TypeOK
<1>4. e \in W!Event
  BY DEF VersionInv, TypeOK
<1>5. /\ e.id[2] \in Objects
      /\ e.object.data \in Payloads /\ e.object.version \in 1..MaxVersion
  BY <1>4 DEF W!Event, VersionInv, EventsOK
<1>6. m \in Message
  BY <1>5 DEF Update, Message
<1>7. BackedBy(earned, m)
  BY DEF BackedBy, Update, VersionInv, EventsAreEarned
<1>8. \A t \in Threads : \A s \in sends'[t] : BackedBy(earned', s[2])
  BY <1>1, <1>2, <1>6, <1>7, BroadcastEarned, ThreadNode
<1>9. MessagesAreEarned'
  BY <1>2, <1>8 DEF VersionInv, VersionsAreEarned, MessagesAreEarned
<1>10. QED
  BY <1>2, <1>3, <1>9, SameObjects DEF VersionInv, VersionsAreEarned, RoomForUpdate

LEMMA SendVersions ==
    ASSUME VersionInv, NEW th \in Threads, NEW s \in sends[th], Send(th, s[1], s[2])
    PROVE  VersionsAreEarned' /\ EventsAreEarned' /\ RoomForUpdate'
<1> DEFINE l == <<th[2], s[1]>>
           m == s[2]
<1>1. UNCHANGED <<object, event, handling, earned>>
  BY DEF Send, world
<1>2. m \in Message /\ BackedBy(earned, m)
  BY DEF VersionInv, TypeOK, VersionsAreEarned, MessagesAreEarned
<1>3. \A t \in Threads : sends'[t] \subseteq sends[t]
  BY DEF Send, VersionInv, TypeOK
<1>4. link' = [link EXCEPT ![l] = Append(@, m)] /\ link \in [Links -> Seq(Message)]
  BY DEF Send, VersionInv, TypeOK
<1>5. ASSUME NEW k \in Links, NEW i \in 1..Len(link'[k])
      PROVE  BackedBy(earned, link'[k][i])
  <2>1. CASE k = l
    <3>1. link'[k] = Append(link[k], m) /\ link[k] \in Seq(Message)
      BY <1>4, <2>1
    <3>2. Len(link'[k]) = Len(link[k]) + 1 /\ Len(link[k]) \in Nat
      BY <3>1
    <3>3. CASE i \in 1..Len(link[k])
      <4>1. link'[k][i] = link[k][i]
        BY <3>1, <3>3
      <4>2. QED
        BY <3>3, <4>1 DEF VersionInv, VersionsAreEarned, MessagesAreEarned
    <3>4. CASE i = Len(link[k]) + 1
      <4>1. link'[k][i] = m
        BY <3>1, <3>4
      <4>2. QED
        BY <1>2, <4>1
    <3>5. QED
      BY <3>2, <3>3, <3>4
  <2>2. CASE k # l
    <3>1. link'[k] = link[k]
      BY <1>4, <2>2
    <3>2. QED
      BY <3>1 DEF VersionInv, VersionsAreEarned, MessagesAreEarned
  <2>3. QED
    BY <2>1, <2>2
<1>6. MessagesAreEarned'
  BY <1>1, <1>3, <1>5 DEF VersionInv, VersionsAreEarned, MessagesAreEarned
<1>7. QED
  BY <1>1, <1>6, SameObjects DEF VersionInv, VersionsAreEarned, RoomForUpdate

LEMMA DropVersions ==
    ASSUME VersionInv, NEW l \in Links, Drop(l)
    PROVE  VersionsAreEarned' /\ EventsAreEarned' /\ RoomForUpdate'
<1>1. UNCHANGED <<object, event, sends, handling, earned>>
  BY DEF Drop, world
<1>2. /\ link' = [link EXCEPT ![l] = Tail(@)] /\ link \in [Links -> Seq(Message)]
      /\ link[l] # <<>>
  BY DEF Drop, VersionInv, TypeOK
<1>3. \A i \in 1..Len(Tail(link[l])) :
         i + 1 \in 1..Len(link[l]) /\ Tail(link[l])[i] = link[l][i + 1]
  BY <1>2
<1>4. \A k \in Links : \A i \in 1..Len(link'[k]) : BackedBy(earned, link'[k][i])
  BY <1>2, <1>3 DEF VersionInv, VersionsAreEarned, MessagesAreEarned
<1>5. MessagesAreEarned'
  BY <1>1, <1>4 DEF VersionInv, VersionsAreEarned, MessagesAreEarned
<1>6. QED
  BY <1>1, <1>5, SameObjects DEF VersionInv, VersionsAreEarned, RoomForUpdate

LEMMA VersionStep == VersionInv /\ [Next]_vars => VersionInv'
<1> SUFFICES ASSUME VersionInv, [Next]_vars
             PROVE  VersionInv'
  OBVIOUS
<1>1. TypeOK' /\ EventsOK'
  BY TypeStep, EventStep DEF VersionInv
<1>2. ASSUME UNCHANGED <<object, event, link, sends, handling, earned>>
      PROVE  VersionsAreEarned' /\ EventsAreEarned' /\ RoomForUpdate'
  BY <1>2 DEF VersionInv, VersionsAreEarned, MessagesAreEarned, EventsAreEarned,
              RoomForUpdate
<1>3. VersionsAreEarned' /\ EventsAreEarned' /\ RoomForUpdate'
  <2>1. ASSUME NEW n \in Nodes, Forget(n)
        PROVE  UNCHANGED <<object, event, link, sends, handling, earned>>
    BY <2>1 DEF Forget, world
  <2>2. ASSUME UNCHANGED vars
        PROVE  UNCHANGED <<object, event, link, sends, handling, earned>>
    BY <2>2 DEF vars, world
  <2>3. ASSUME NEW th \in Threads, Finish(th)
        PROVE  VersionsAreEarned' /\ EventsAreEarned' /\ RoomForUpdate'
    BY <2>3, FireChangeVersions, SendVersions DEF Finish
  <2>4. ASSUME NEW n \in Nodes, LoopStep(n) \/ WorkerStep(n)
        PROVE  VersionsAreEarned' /\ EventsAreEarned' /\ RoomForUpdate'
    BY <1>1, <2>3, <2>4, ReceiveVersions, LoopApplyVersions, LoopForwardVersions,
       WorkerApplyVersions, ThreadTypes DEF LoopStep, WorkerStep
  <2>5. QED
    BY <1>2, <2>1, <2>2, <2>4, WorkerSubmitVersions, DropVersions DEF Next
<1>4. QED
  BY <1>1, <1>3 DEF VersionInv

\* Gossip alone never drives versions up: in every network no node, and no
\* update under way, is ahead of the number of times a result was merged, even
\* when the worker applies between the event loop's look at the version
\* (peer.go:86) and its Apply (peer.go:94).
THEOREM ReplicationEarnsNothing == Spec => []VersionsAreEarned
<1>1. VersionInv => VersionsAreEarned
  BY DEF VersionInv
<1>2. QED
  BY <1>1, VersionInit, VersionStep, PTL DEF Spec

\* Every message and object of peer mode has the type its handlers assume.
THEOREM GossipTypes == Spec => []TypeOK
<1>1. VersionInv => TypeOK
  BY DEF VersionInv
<1>2. QED
  BY <1>1, VersionInit, VersionStep, PTL DEF Spec

=============================================================================
