---------------------------- MODULE ProjectorProofs ----------------------------
(***************************************************************************)
(* Proofs about the projection, for any world, any sessions and any size   *)
(* of the outbox.                                                          *)
(***************************************************************************)
EXTENDS ProjectorProps, SequenceTheorems, TLAPS

USE ProjectorAssumption

-----------------------------------------------------------------------------
(* The inductive invariant *)

\* What a client has (low), what is on its way to it (q) and what the projector
\* remembers (high) are in the order of the versions.
InOrder(q, low, high) ==
    \A o \in Objects :
        /\ low[o] <= high[o]
        /\ \A i \in 1..Len(q) : o \in DOMAIN q[i] => low[o] <= q[i][o] /\ q[i][o] <= high[o]
        /\ \A i, j \in 1..Len(q) :
              i < j /\ o \in DOMAIN q[i] /\ o \in DOMAIN q[j] => q[i][o] <= q[j][o]

\* It holds until the session disconnects, when the projector forgets it and
\* nothing more is written to the client.
Ordered(s) == InOrder(outbox[s], view[s], seen[s])

Inv ==
    /\ TypeOK
    /\ \A s \in Sessions : phase[s] \in {"new", "open"} => Ordered(s)

-----------------------------------------------------------------------------
(* The pieces of a step *)

LEMMA MessageFacts ==
    ASSUME NEW m \in Message
    PROVE  /\ DOMAIN m \subseteq Objects
           /\ \A o \in DOMAIN m : m[o] \in 1..MaxVersion /\ m[o] \in 0..MaxVersion /\ m[o] \in Nat
BY DEF Message

LEMMA ApplyTypes ==
    ASSUME TypeOK, NEW o \in Objects, NEW tags \in (SUBSET Tags) \cup {Nil},
           W!Apply(Writer, o, 0, Nil, tags)
    PROVE  /\ object' \in [Objects -> W!Object]
           /\ event' \in [{Writer} -> SUBSET W!Event]
<1> DEFINE old  == object[o]
           new  == [version |-> old.version + 1,
                    data    |-> W!Given(Nil, old.data),
                    tags    |-> W!Given(tags, old.tags)]
           kind == IF W!Exists(o) THEN "updated" ELSE "created"
<1>1. /\ old \in W!Object /\ old.version < MaxVersion
      /\ object' = [object EXCEPT ![o] = new]
      /\ event' = [event EXCEPT ![Writer] = {[kind |-> kind, id |-> o, object |-> new]}]
  BY DEF W!Apply, TypeOK
<1>2. old.version + 1 \in 0..MaxVersion
  BY <1>1 DEF W!Object
<1>3. W!Given(Nil, old.data) \in {} \cup {Nil} /\ W!Given(tags, old.tags) \in (SUBSET Tags) \cup {Nil}
  BY <1>1 DEF W!Object, W!Given
<1>4. new \in W!Object
  BY <1>2, <1>3 DEF W!Object
<1> HIDE DEF new
<1>5. [kind |-> kind, id |-> o, object |-> new] \in W!Event
  BY <1>4 DEF W!Event
<1>6. QED
  BY <1>1, <1>4, <1>5 DEF TypeOK

LEMMA DeleteTypes ==
    ASSUME TypeOK, NEW o \in Objects, W!Delete(Writer, o)
    PROVE  /\ object' \in [Objects -> W!Object]
           /\ event' \in [{Writer} -> SUBSET W!Event]
<1>1. W!Absent \in W!Object
  BY DEF W!Absent, W!Object
<1>2. [kind |-> "deleted", id |-> o, object |-> object[o]] \in W!Event
  BY DEF W!Event, TypeOK
<1>3. QED
  BY <1>1, <1>2 DEF W!Delete, TypeOK

LEMMA CopyVersions ==
    ASSUME TypeOK, NEW o \in Objects
    PROVE  /\ copy[o].version \in 0..MaxVersion /\ copy[o].version \in Nat
           /\ \A s \in Sessions : seen[s][o] \in 0..MaxVersion /\ seen[s][o] \in Nat
BY DEF TypeOK, W!Object, Versions

\* What Visit queues is a message of newer versions than those remembered, and
\* these are remembered.
LEMMA VisitFacts ==
    ASSUME TypeOK, NEW s \in Sessions
    PROVE  /\ Remembered(s, Diffs(s)) \in Versions
           /\ [o \in Diffs(s) |-> copy[o].version] \in Message
           /\ Diffs(s) \subseteq Objects
           /\ \A o \in Objects :
                 /\ seen[s][o] <= Remembered(s, Diffs(s))[o]
                 /\ o \in Diffs(s) => Remembered(s, Diffs(s))[o] = copy[o].version
                 /\ o \in Diffs(s) => seen[s][o] <= copy[o].version
<1>1. Diffs(s) \subseteq Objects /\ \A o \in Diffs(s) : copy[o].version > seen[s][o]
  BY DEF Diffs
<1>2. Remembered(s, Diffs(s)) \in Versions
  BY CopyVersions DEF Remembered, Versions
<1>3. \A o \in Diffs(s) : copy[o].version \in 1..MaxVersion
  <2>1. ASSUME NEW o \in Diffs(s)
        PROVE  copy[o].version \in 1..MaxVersion
    <3>1. o \in Objects /\ copy[o].version > seen[s][o]
      BY <1>1
    <3>2. copy[o].version \in 0..MaxVersion /\ seen[s][o] \in Nat
      BY <3>1, CopyVersions
    <3>3. QED
      BY <3>1, <3>2
  <2>2. QED
    BY <2>1
<1>4. [o \in Diffs(s) |-> copy[o].version] \in [Diffs(s) -> 1..MaxVersion]
  BY <1>3
<1>5. [o \in Diffs(s) |-> copy[o].version] \in Message
  BY <1>1, <1>4 DEF Message
<1>6. ASSUME NEW o \in Objects
      PROVE  /\ seen[s][o] <= Remembered(s, Diffs(s))[o]
             /\ o \in Diffs(s) => Remembered(s, Diffs(s))[o] = copy[o].version
             /\ o \in Diffs(s) => seen[s][o] <= copy[o].version
  <2>1. Remembered(s, Diffs(s))[o] = IF o \in Diffs(s) THEN copy[o].version ELSE seen[s][o]
    BY DEF Remembered
  <2>2. seen[s][o] \in Nat /\ copy[o].version \in Nat
    BY CopyVersions
  <2>3. o \in Diffs(s) => copy[o].version > seen[s][o]
    BY <1>1
  <2> HIDE DEF Diffs
  <2>4. QED
    BY <2>1, <2>2, <2>3
<1>7. QED
  BY <1>1, <1>2, <1>5, <1>6

\* A message of the versions remembered last keeps the order at the end of a queue.
LEMMA AppendKeeps ==
    ASSUME NEW q \in Seq(Message), NEW low \in Versions, NEW high \in Versions,
           NEW higher \in Versions, NEW m \in Message,
           InOrder(q, low, high),
           \A o \in Objects : high[o] <= higher[o] /\ (o \in DOMAIN m => m[o] = higher[o])
    PROVE  InOrder(Append(q, m), low, higher)
<1> DEFINE new == Append(q, m)
<1>1. /\ Len(new) = Len(q) + 1 /\ Len(q) \in Nat
      /\ \A i \in 1..Len(q) : new[i] = q[i] /\ q[i] \in Message
      /\ new[Len(q) + 1] = m
  OBVIOUS
<1> HIDE DEF new
<1>2. SUFFICES ASSUME NEW o \in Objects
               PROVE  /\ low[o] <= higher[o]
                      /\ \A i \in 1..Len(new) :
                            o \in DOMAIN new[i] => low[o] <= new[i][o] /\ new[i][o] <= higher[o]
                      /\ \A i, j \in 1..Len(new) :
                            i < j /\ o \in DOMAIN new[i] /\ o \in DOMAIN new[j]
                               => new[i][o] <= new[j][o]
  BY DEF InOrder, new
<1>3. low[o] \in Nat /\ high[o] \in Nat /\ higher[o] \in Nat
  BY DEF Versions
<1>4. /\ low[o] <= high[o]
      /\ high[o] <= higher[o]
      /\ o \in DOMAIN m => m[o] = higher[o]
  BY DEF InOrder
<1>5. \A i \in 1..Len(q) : o \in DOMAIN q[i] =>
         q[i][o] \in Nat /\ low[o] <= q[i][o] /\ q[i][o] <= high[o]
  BY <1>1, MessageFacts DEF InOrder
<1>6. \A i, j \in 1..Len(q) :
         i < j /\ o \in DOMAIN q[i] /\ o \in DOMAIN q[j] => q[i][o] <= q[j][o]
  BY DEF InOrder
<1>7. low[o] <= higher[o]
  BY <1>3, <1>4
<1>8. ASSUME NEW i \in 1..Len(new), o \in DOMAIN new[i]
      PROVE  low[o] <= new[i][o] /\ new[i][o] <= higher[o]
  <2>1. CASE i \in 1..Len(q)
    BY <2>1, <1>1, <1>3, <1>4, <1>5, <1>8
  <2>2. CASE i = Len(q) + 1
    BY <2>2, <1>1, <1>3, <1>4, <1>7, <1>8
  <2>3. QED
    BY <2>1, <2>2, <1>1
<1>9. ASSUME NEW i \in 1..Len(new), NEW j \in 1..Len(new),
             i < j, o \in DOMAIN new[i], o \in DOMAIN new[j]
      PROVE  new[i][o] <= new[j][o]
  <2>1. i \in 1..Len(q) /\ new[i] = q[i]
    BY <1>1, <1>9
  <2>2. CASE j \in 1..Len(q)
    BY <2>1, <2>2, <1>1, <1>6, <1>9
  <2>3. CASE j = Len(q) + 1
    BY <2>1, <2>3, <1>1, <1>3, <1>4, <1>5, <1>9
  <2>4. QED
    BY <2>2, <2>3, <1>1
<1>10. QED
  BY <1>7, <1>8, <1>9

\* Whether the first message is delivered or lost, the rest keeps the order.
LEMMA TailKeeps ==
    ASSUME NEW q \in Seq(Message), q # <<>>, NEW low \in Versions, NEW high \in Versions,
           NEW next \in Versions,
           InOrder(q, low, high),
           \A o \in Objects : next[o] = low[o] \/ (o \in DOMAIN Head(q) /\ next[o] = Head(q)[o])
    PROVE  InOrder(Tail(q), next, high)
<1> DEFINE new == Tail(q)
<1>1. /\ Len(q) \in Nat \ {0} /\ Len(new) = Len(q) - 1
      /\ \A i \in 1..Len(new) : new[i] = q[i + 1] /\ i + 1 \in 1..Len(q)
      /\ Head(q) = q[1] /\ 1 \in 1..Len(q)
  OBVIOUS
<1> HIDE DEF new
<1>2. ASSUME NEW o \in Objects
      PROVE  /\ next[o] <= high[o]
             /\ \A i \in 1..Len(new) :
                   o \in DOMAIN new[i] => next[o] <= new[i][o] /\ new[i][o] <= high[o]
             /\ \A i, j \in 1..Len(new) :
                   i < j /\ o \in DOMAIN new[i] /\ o \in DOMAIN new[j]
                      => new[i][o] <= new[j][o]
  <2>1. /\ low[o] <= high[o]
        /\ \A i \in 1..Len(q) : o \in DOMAIN q[i] => low[o] <= q[i][o] /\ q[i][o] <= high[o]
        /\ \A i, j \in 1..Len(q) :
              i < j /\ o \in DOMAIN q[i] /\ o \in DOMAIN q[j] => q[i][o] <= q[j][o]
    BY DEF InOrder
  <2>2. next[o] = low[o] \/ (o \in DOMAIN q[1] /\ next[o] = q[1][o])
    BY <1>1
  <2>3. next[o] <= high[o]
    BY <1>1, <2>1, <2>2
  <2>4. ASSUME NEW i \in 1..Len(new), o \in DOMAIN new[i]
        PROVE  next[o] <= new[i][o] /\ new[i][o] <= high[o]
    <3>1. i + 1 \in 1..Len(q) /\ new[i] = q[i + 1] /\ 1 < i + 1
      BY <1>1
    <3>2. QED
      BY <1>1, <2>1, <2>2, <2>4, <3>1
  <2>5. ASSUME NEW i \in 1..Len(new), NEW j \in 1..Len(new),
               i < j, o \in DOMAIN new[i], o \in DOMAIN new[j]
        PROVE  new[i][o] <= new[j][o]
    <3>1. /\ i + 1 \in 1..Len(q) /\ new[i] = q[i + 1]
          /\ j + 1 \in 1..Len(q) /\ new[j] = q[j + 1] /\ i + 1 < j + 1
      BY <1>1, <2>5
    <3>2. QED
      BY <2>1, <2>5, <3>1
  <2>6. QED
    BY <2>3, <2>4, <2>5
<1>3. QED
  BY <1>2 DEF InOrder, new

\* What is remembered may grow: a message that was dropped leaves a gap only.
LEMMA HigherKeeps ==
    ASSUME NEW q \in Seq(Message), NEW low \in Versions, NEW high \in Versions,
           NEW higher \in Versions,
           InOrder(q, low, high), \A o \in Objects : high[o] <= higher[o]
    PROVE  InOrder(q, low, higher)
<1>1. ASSUME NEW o \in Objects
      PROVE  /\ low[o] <= higher[o]
             /\ \A i \in 1..Len(q) :
                   o \in DOMAIN q[i] => low[o] <= q[i][o] /\ q[i][o] <= higher[o]
  <2>1. low[o] \in Nat /\ high[o] \in Nat /\ higher[o] \in Nat
    BY DEF Versions
  <2>2. \A i \in 1..Len(q) : q[i] \in Message
    OBVIOUS
  <2>3. \A i \in 1..Len(q) : o \in DOMAIN q[i] => q[i][o] \in Nat
    BY <2>2, MessageFacts
  <2>4. QED
    BY <2>1, <2>3 DEF InOrder
<1>2. QED
  BY <1>1 DEF InOrder

\* What a client has after a delivery or a loss is what it had or what the first
\* message of its queue carries.
LEMMA ClientFacts ==
    ASSUME TypeOK, NEW s \in Sessions, Deliver(s) \/ Lose(s)
    PROVE  /\ DOMAIN Head(outbox[s]) \subseteq Objects
           /\ \E next \in Versions :
                 /\ view' = [view EXCEPT ![s] = next]
                 /\ \A o \in Objects :
                       \/ next[o] = view[s][o]
                       \/ o \in DOMAIN Head(outbox[s]) /\ next[o] = Head(outbox[s])[o]
<1>1. outbox[s] \in Seq(Message) /\ outbox[s] # <<>> /\ view[s] \in Versions
      /\ view \in [Sessions -> Versions]
  BY DEF TypeOK, Deliver, Lose
<1>2. PICK m \in Message : m = Head(outbox[s])
  BY <1>1
<1>3. DOMAIN m \subseteq Objects /\ \A o \in DOMAIN m : m[o] \in 0..MaxVersion
  BY MessageFacts
<1>4. CASE Deliver(s)
  <2> DEFINE next == [o \in Objects |-> IF o \in DOMAIN m THEN m[o] ELSE view[s][o]]
  <2>1. next \in Versions
    BY <1>1, <1>3 DEF Versions
  <2>2. view' = [view EXCEPT ![s] = next]
    BY <1>1, <1>2, <1>4 DEF Deliver
  <2>3. \A o \in Objects : next[o] = view[s][o] \/ (o \in DOMAIN m /\ next[o] = m[o])
    OBVIOUS
  <2>4. QED
    BY <1>2, <1>3, <2>1, <2>2, <2>3
<1>5. CASE Lose(s)
  <2>1. view' = [view EXCEPT ![s] = view[s]]
    BY <1>1, <1>5 DEF Lose
  <2>2. QED
    BY <1>1, <1>2, <1>3, <2>1
<1>6. QED
  BY <1>4, <1>5

\* What leaves the queues, the views and the projector's memory alone keeps the
\* order, if it opens no session that was closed.
LEMMA OrderStays ==
    ASSUME Inv, UNCHANGED <<outbox, view, seen>>,
           \A s \in Sessions : phase'[s] \in {"new", "open"} => phase[s] \in {"new", "open"}
    PROVE  \A s \in Sessions : phase'[s] \in {"new", "open"} => Ordered(s)'
BY DEF Inv, Ordered

-----------------------------------------------------------------------------
(* The invariant *)

LEMMA InvStarts == Init => Inv
<1> SUFFICES ASSUME Init
             PROVE  Inv
  OBVIOUS
<1>1. W!Absent \in W!Object /\ NoVersions \in Versions
  BY DEF W!Absent, W!Object, NoVersions, Versions
<1>2. TypeOK
  <2>1. object \in [Objects -> W!Object] /\ event \in [{Writer} -> SUBSET W!Event]
    BY <1>1 DEF Init, W!Init
  <2>2. \A s \in Sessions : outbox[s] = <<>> /\ Len(outbox[s]) = 0
    BY DEF Init
  <2>3. outbox \in [Sessions -> Seq(Message)]
    BY DEF Init
  <2>4. \A s \in Sessions : Len(outbox[s]) <= OutboxSize
    BY <2>2
  <2>5. QED
    BY <1>1, <2>1, <2>3, <2>4 DEF Init, TypeOK
<1>3. ASSUME NEW s \in Sessions
      PROVE  Ordered(s)
  <2>1. outbox[s] = <<>> /\ view[s] = NoVersions /\ seen[s] = NoVersions
    BY DEF Init
  <2>2. Len(outbox[s]) = 0 /\ 1..0 = {}
    BY <2>1
  <2>3. \A o \in Objects : NoVersions[o] <= NoVersions[o]
    BY DEF NoVersions
  <2>4. \A i \in 1..Len(outbox[s]) : FALSE
    BY <2>2
  <2>5. QED
    BY <2>1, <2>3, <2>4 DEF Ordered, InOrder
<1>4. QED
  BY <1>2, <1>3 DEF Inv

LEMMA InvHolds == Inv /\ [Next]_vars => Inv'
<1> SUFFICES ASSUME Inv, [Next]_vars
             PROVE  Inv'
  OBVIOUS
<1> USE DEF history, projection
<1>t. TypeOK
  BY DEF Inv
<1>1. ASSUME NEW o \in Objects, Delete(o)
      PROVE  Inv'
  <2>1. /\ W!Delete(Writer, o) /\ deleted' = deleted \cup {o}
        /\ UNCHANGED <<phase, subs, seen, copy, visits, ticking, outbox, view, missed>>
    BY <1>1 DEF Delete
  <2>2. TypeOK'
    BY <1>t, <2>1, DeleteTypes DEF TypeOK
  <2>3. QED
    BY <2>1, <2>2, OrderStays DEF Inv
<1>2. ASSUME NEW o \in Objects, NEW tags \in (SUBSET Tags) \cup {Nil}, Change(o, tags)
      PROVE  Inv'
  <2>1. /\ W!Apply(Writer, o, 0, Nil, tags)
        /\ UNCHANGED <<phase, subs, seen, copy, visits, ticking, outbox, view, missed, deleted>>
    BY <1>2 DEF Change
  <2>2. TypeOK'
    BY <1>t, <2>1, ApplyTypes DEF TypeOK
  <2>3. QED
    BY <2>1, <2>2, OrderStays DEF Inv
<1>3. ASSUME Fire
      PROVE  Inv'
  <2>1. /\ W!Fire(Writer)
        /\ UNCHANGED <<phase, subs, seen, copy, visits, ticking, outbox, view, missed, deleted>>
    BY <1>3 DEF Fire
  <2>2. TypeOK'
    BY <1>t, <2>1 DEF TypeOK, W!Fire
  <2>3. QED
    BY <2>1, <2>2, OrderStays DEF Inv
<1>4. ASSUME NEW s \in Sessions, Connect(s) \/ Remove(s)
      PROVE  Inv'
  <2>1. /\ UNCHANGED <<world, subs, seen, copy, visits, ticking, outbox, view, missed, deleted>>
        /\ \/ phase[s] = "new" /\ phase' = [phase EXCEPT ![s] = "open"]
           \/ phase' = [phase EXCEPT ![s] = "gone"]
    BY <1>4 DEF Connect, Remove
  <2>2. TypeOK'
    BY <1>t, <2>1 DEF TypeOK, world
  <2>3. \A r \in Sessions : phase'[r] \in {"new", "open"} => phase[r] \in {"new", "open"}
    BY <1>t, <2>1 DEF TypeOK
  <2>4. QED
    BY <2>1, <2>2, <2>3, OrderStays DEF Inv
<1>5. ASSUME NEW s \in Sessions, NEW tag \in Tags \cup {Star},
             Subscribe(s, tag) \/ Unsubscribe(s, tag)
      PROVE  Inv'
  <2>1. /\ UNCHANGED <<world, phase, seen, copy, visits, ticking, outbox, view, missed, deleted>>
        /\ \/ subs' = [subs EXCEPT ![s] = @ \cup {tag}]
           \/ subs' = [subs EXCEPT ![s] = @ \ {tag}]
    BY <1>5 DEF Subscribe, Unsubscribe
  <2>2. subs' \in [Sessions -> SUBSET (Tags \cup {Star})]
    <3>1. subs \in [Sessions -> SUBSET (Tags \cup {Star})] /\ subs[s] \in SUBSET (Tags \cup {Star})
      BY <1>t DEF TypeOK
    <3>2. subs[s] \cup {tag} \in SUBSET (Tags \cup {Star}) /\ subs[s] \ {tag} \in SUBSET (Tags \cup {Star})
      BY <3>1
    <3>3. QED
      BY <2>1, <3>1, <3>2
  <2>3. TypeOK'
    BY <1>t, <2>1, <2>2 DEF TypeOK, world
  <2>4. QED
    BY <2>1, <2>3, OrderStays DEF Inv
<1>6. ASSUME NEW s \in Sessions, Disconnect(s)
      PROVE  Inv'
  <2>1. /\ phase' = [phase EXCEPT ![s] = "leaving"]
        /\ seen' = [seen EXCEPT ![s] = NoVersions]
        /\ UNCHANGED <<world, subs, copy, visits, ticking, outbox, view, missed, deleted>>
    BY <1>6 DEF Disconnect
  <2>2. NoVersions \in Versions
    BY DEF NoVersions, Versions
  <2>3. TypeOK'
    BY <1>t, <2>1, <2>2 DEF TypeOK, world
  <2>4. ASSUME NEW r \in Sessions, phase'[r] \in {"new", "open"}
        PROVE  Ordered(r)'
    <3>1. phase[r] = phase'[r] /\ r # s
      BY <1>t, <2>1, <2>4 DEF TypeOK
    <3>2. seen'[r] = seen[r]
      BY <1>t, <2>1, <3>1 DEF TypeOK
    <3>3. QED
      BY <2>1, <2>4, <3>1, <3>2 DEF Inv, Ordered
  <2>5. QED
    BY <2>3, <2>4 DEF Inv
<1>7. ASSUME TickStart \/ TickSessions
      PROVE  Inv'
  <2>1. /\ UNCHANGED <<world, phase, subs, seen, outbox, view, missed, deleted>>
        /\ copy' \in [Objects -> W!Object]
        /\ visits' \in SUBSET Sessions
        /\ ticking' \in BOOLEAN
    BY <1>7, <1>t DEF TickStart, TickSessions, TypeOK
  <2>2. TypeOK'
    BY <1>t, <2>1 DEF TypeOK, world
  <2>3. QED
    BY <2>1, <2>2, OrderStays DEF Inv
<1>8. ASSUME NEW s \in Sessions, Visit(s)
      PROVE  Inv'
  <2>1. PICK diffs \in SUBSET Objects : diffs = Diffs(s)
    BY VisitFacts, <1>t
  <2>2. PICK higher \in Versions : higher = Remembered(s, diffs)
    BY VisitFacts, <1>t, <2>1
  <2>3. PICK m \in Message : m = [o \in diffs |-> copy[o].version]
    BY VisitFacts, <1>t, <2>1
  <2>4. /\ visits' = visits \ {s} /\ ticking' = (visits # {s})
        /\ seen' = [seen EXCEPT ![s] = higher]
        /\ UNCHANGED <<world, phase, subs, copy, view, deleted>>
        /\ \/ /\ HasRoom(s) /\ outbox' = [outbox EXCEPT ![s] = Append(@, m)]
              /\ UNCHANGED missed
           \/ missed' = [missed EXCEPT ![s] = @ \cup diffs] /\ UNCHANGED outbox
    BY <1>8, <2>1, <2>2, <2>3 DEF Visit
  <2>5. outbox[s] \in Seq(Message) /\ view[s] \in Versions /\ seen[s] \in Versions
    BY <1>t DEF TypeOK
  <2>6. \A o \in Objects : /\ seen[s][o] <= higher[o]
                           /\ o \in DOMAIN m => m[o] = higher[o]
    BY VisitFacts, <1>t, <2>1, <2>2, <2>3
  <2>7. /\ outbox' \in [Sessions -> Seq(Message)]
        /\ \A r \in Sessions : Len(outbox'[r]) <= OutboxSize
    <3>1. CASE UNCHANGED outbox
      BY <1>t, <3>1 DEF TypeOK
    <3>2. CASE HasRoom(s) /\ outbox' = [outbox EXCEPT ![s] = Append(@, m)]
      <4>1. Append(outbox[s], m) \in Seq(Message) /\ Len(Append(outbox[s], m)) = Len(outbox[s]) + 1
        BY <2>5
      <4>2. Len(outbox[s]) \in Nat /\ Len(outbox[s]) < OutboxSize
        BY <2>5, <3>2 DEF HasRoom
      <4>3. QED
        BY <1>t, <3>2, <4>1, <4>2 DEF TypeOK
    <3>3. QED
      BY <2>4, <3>1, <3>2
  <2>8. TypeOK'
    <3>1. seen' \in [Sessions -> Versions]
      BY <1>t, <2>4 DEF TypeOK
    <3>m. missed' \in [Sessions -> SUBSET Objects]
      <4>1. missed \in [Sessions -> SUBSET Objects] /\ missed[s] \cup diffs \in SUBSET Objects
        BY <1>t DEF TypeOK
      <4>2. missed' = missed \/ missed' = [missed EXCEPT ![s] = missed[s] \cup diffs]
        BY <2>4
      <4>3. QED
        BY <4>1, <4>2
    <3>2. visits' \in SUBSET Sessions /\ ticking' \in BOOLEAN
      BY <1>t, <2>4 DEF TypeOK
    <3>3. QED
      BY <1>t, <2>4, <2>7, <3>1, <3>m, <3>2 DEF TypeOK, world
  <2>9. ASSUME NEW r \in Sessions, phase'[r] \in {"new", "open"}
        PROVE  Ordered(r)'
    <3>1. InOrder(outbox[r], view[r], seen[r]) /\ view'[r] = view[r]
      BY <2>4, <2>9 DEF Inv, Ordered
    <3>2. CASE r # s
      BY <1>t, <2>4, <3>1, <3>2 DEF Ordered, TypeOK
    <3>3. CASE r = s /\ UNCHANGED outbox
      <4>1. seen'[r] = higher
        BY <1>t, <2>4, <3>3 DEF TypeOK
      <4>2. InOrder(outbox[r], view[r], higher)
        BY <2>5, <2>6, <3>1, <3>3, HigherKeeps
      <4>3. QED
        BY <3>1, <3>3, <4>1, <4>2 DEF Ordered
    <3>4. CASE r = s /\ outbox' = [outbox EXCEPT ![s] = Append(@, m)]
      <4>1. seen'[r] = higher /\ outbox'[r] = Append(outbox[s], m)
        BY <1>t, <2>4, <3>4 DEF TypeOK
      <4>2. InOrder(Append(outbox[s], m), view[s], higher)
        BY <2>5, <2>6, <3>1, <3>4, AppendKeeps
      <4>3. QED
        BY <3>1, <3>4, <4>1, <4>2 DEF Ordered
    <3>5. QED
      BY <2>4, <3>2, <3>3, <3>4
  <2>10. QED
    BY <2>8, <2>9 DEF Inv
<1>9. ASSUME NEW s \in Sessions, Deliver(s) \/ Lose(s)
      PROVE  Inv'
  <2>1. PICK next \in Versions :
          /\ view' = [view EXCEPT ![s] = next]
          /\ \A o \in Objects :
                \/ next[o] = view[s][o]
                \/ o \in DOMAIN Head(outbox[s]) /\ next[o] = Head(outbox[s])[o]
    BY <1>9, <1>t, ClientFacts
  <2>2. /\ outbox[s] # <<>>
        /\ outbox' = [outbox EXCEPT ![s] = Tail(@)]
        /\ UNCHANGED <<world, phase, subs, seen, copy, visits, ticking, deleted>>
        /\ missed' \in [Sessions -> SUBSET Objects]
    <3>1. DOMAIN Head(outbox[s]) \subseteq Objects
      BY <1>9, <1>t, ClientFacts
    <3>2. missed \in [Sessions -> SUBSET Objects] /\ missed[s] \in SUBSET Objects
      BY <1>t DEF TypeOK
    <3>3. CASE Deliver(s)
      <4>1. PICK had \in SUBSET Objects :
              missed' = [missed EXCEPT ![s] = @ \ had]
        <5>1. {o \in DOMAIN Head(outbox[s]) : Head(outbox[s])[o] = object[o].version} \in SUBSET Objects
          BY <3>1
        <5>2. QED
          BY <3>3, <5>1 DEF Deliver
      <4>2. QED
        BY <3>2, <3>3, <4>1 DEF Deliver
    <3>4. CASE Lose(s)
      BY <3>1, <3>2, <3>4 DEF Lose
    <3>5. QED
      BY <1>9, <3>3, <3>4
  <2>3. outbox[s] \in Seq(Message) /\ view[s] \in Versions /\ seen[s] \in Versions
    BY <1>t DEF TypeOK
  <2>4. /\ Tail(outbox[s]) \in Seq(Message)
        /\ Len(Tail(outbox[s])) = Len(outbox[s]) - 1
        /\ Len(outbox[s]) \in Nat /\ Len(outbox[s]) <= OutboxSize
    BY <1>t, <2>2, <2>3 DEF TypeOK
  <2>5. TypeOK'
    <3>1. outbox' \in [Sessions -> Seq(Message)] /\ \A r \in Sessions : Len(outbox'[r]) <= OutboxSize
      BY <1>t, <2>2, <2>4 DEF TypeOK
    <3>2. view' \in [Sessions -> Versions]
      BY <1>t, <2>1 DEF TypeOK
    <3>3. QED
      BY <1>t, <2>2, <3>1, <3>2 DEF TypeOK, world
  <2>6. ASSUME NEW r \in Sessions, phase'[r] \in {"new", "open"}
        PROVE  Ordered(r)'
    <3>1. InOrder(outbox[r], view[r], seen[r]) /\ seen'[r] = seen[r]
      BY <2>2, <2>6 DEF Inv, Ordered
    <3>2. CASE r # s
      BY <1>t, <2>1, <2>2, <3>1, <3>2 DEF Ordered, TypeOK
    <3>3. CASE r = s
      <4>1. view'[r] = next /\ outbox'[r] = Tail(outbox[s])
        BY <1>t, <2>1, <2>2, <3>3 DEF TypeOK
      <4>2. InOrder(Tail(outbox[s]), next, seen[s])
        BY <2>1, <2>2, <2>3, <3>1, <3>3, TailKeeps
      <4>3. QED
        BY <3>1, <3>3, <4>1, <4>2 DEF Ordered
    <3>4. QED
      BY <3>2, <3>3
  <2>7. QED
    BY <2>5, <2>6 DEF Inv
<1>10. CASE UNCHANGED vars
  <2>1. TypeOK'
    BY <1>t, <1>10 DEF TypeOK, vars, world
  <2>2. QED
    BY <1>10, <2>1, OrderStays DEF Inv, vars
<1>11. QED
  BY <1>1, <1>2, <1>3, <1>4, <1>5, <1>6, <1>7, <1>8, <1>9, <1>10 DEF Next, Tick

LEMMA Invariance == Spec => []Inv
BY InvStarts, InvHolds, PTL DEF Spec

-----------------------------------------------------------------------------
(* The theorems *)

\* The projector's, the sessions' and the queues' data keep their types, and no
\* outbox holds more than its buffer (session.go:94), whatever its size.
THEOREM TypeCorrect == Spec => []TypeOK
BY Invariance, PTL DEF Inv

\* No message takes what a client has of an object back to an earlier version,
\* for any world, any sessions and any number of messages on their way: not when
\* the tick's copy is stale (projector.go:74), not when an outbox was full, and
\* not after a deletion, though its versions start anew (projector.go:117).
THEOREM Forwards == Spec => NeverBackwards
<1>1. Inv /\ [Next]_vars => [\A s \in Sessions, o \in Objects : view'[s][o] >= view[s][o]]_vars
  <2> SUFFICES ASSUME Inv, [Next]_vars
               PROVE  \/ \A s \in Sessions, o \in Objects : view'[s][o] >= view[s][o]
                      \/ UNCHANGED vars
    OBVIOUS
  <2> USE DEF history, projection
  <2>t. TypeOK
    BY DEF Inv
  <2>1. ASSUME NEW s \in Sessions, Deliver(s) \/ Lose(s)
        PROVE  \A r \in Sessions, o \in Objects : view'[r][o] >= view[r][o]
    <3>1. PICK next \in Versions :
            /\ view' = [view EXCEPT ![s] = next]
            /\ \A o \in Objects :
                  \/ next[o] = view[s][o]
                  \/ o \in DOMAIN Head(outbox[s]) /\ next[o] = Head(outbox[s])[o]
      BY <2>1, <2>t, ClientFacts
    <3>2. outbox[s] # <<>> /\ phase[s] = "open" /\ outbox[s] \in Seq(Message)
      BY <2>1, <2>t DEF Deliver, Lose, TypeOK
    <3>3. Head(outbox[s]) = outbox[s][1] /\ 1 \in 1..Len(outbox[s])
      BY <3>2
    <3>4. ASSUME NEW o \in Objects
          PROVE  next[o] >= view[s][o]
      <4>1. view[s][o] \in Nat /\ next[o] \in Nat
        BY <2>t, <3>1 DEF TypeOK, Versions
      <4>2. o \in DOMAIN outbox[s][1] => view[s][o] <= outbox[s][1][o]
        BY <3>2, <3>3 DEF Inv, Ordered, InOrder
      <4>3. QED
        BY <3>1, <3>3, <4>1, <4>2
    <3>5. \A r \in Sessions, o \in Objects : view[r][o] \in Nat
      BY <2>t DEF TypeOK, Versions
    <3>6. ASSUME NEW r \in Sessions, NEW o \in Objects
          PROVE  view'[r][o] >= view[r][o]
      <4>1. CASE r = s
        BY <2>t, <3>1, <3>4, <4>1 DEF TypeOK
      <4>2. CASE r # s
        <5>1. view'[r] = view[r]
          BY <2>t, <3>1, <4>2 DEF TypeOK
        <5>2. QED
          BY <3>5, <5>1
      <4>3. QED
        BY <4>1, <4>2
    <3>7. QED
      BY <3>6
  <2>2. ASSUME UNCHANGED view
        PROVE  \A s \in Sessions, o \in Objects : view'[s][o] >= view[s][o]
    <3>1. \A s \in Sessions, o \in Objects : view[s][o] \in Nat
      BY <2>t DEF TypeOK, Versions
    <3>2. QED
      BY <2>2, <3>1
  <2>3. Next => UNCHANGED view \/ \E s \in Sessions : Deliver(s) \/ Lose(s)
    BY DEF Next, Tick, Delete, Change, Fire, Connect, Disconnect, Remove, Subscribe,
           Unsubscribe, TickStart, TickSessions, Visit
  <2>4. QED
    BY <2>1, <2>2, <2>3
<1>2. QED
  BY <1>1, Invariance, PTL DEF Spec, NeverBackwards

=============================================================================
