------------------------------ MODULE MergeProofs ------------------------------
(***************************************************************************)
(* Proofs about merging, for any objects, results and goroutines: types,   *)
(* that no update is lost, that the change events tell the history, and    *)
(* that they tell the end of every object.                                 *)
(***************************************************************************)
EXTENDS MergeProps, TLAPS

USE MergeAssumption

-----------------------------------------------------------------------------
(* One update applied: the object, and the event, it leaves. *)

Applied(u) == [version |-> object[u.id].version + 1,
               data    |-> u.data,
               tags    |-> object[u.id].tags]

News(u) == [kind |-> IF W!Exists(u.id) THEN "updated" ELSE "created",
            id |-> u.id, object |-> Applied(u)]

LEMMA ApplyFacts ==
    ASSUME TypeOK, NEW th \in Writers, NEW u \in decided[th], ApplyOne(th, u)
    PROVE  /\ u \in Update
           /\ object[u.id] \in W!Object
           /\ W!Admitted(u.id, u.expected)
           /\ Applied(u) \in W!Object
           /\ News(u) \in W!Event
           /\ object' = [object EXCEPT ![u.id] = Applied(u)]
           /\ event[th] = {}
           /\ event' = [event EXCEPT ![th] = {News(u)}]
<1>1. u \in Update /\ u.id \in Objects /\ u.data \in SUBSET Results
  BY DEF TypeOK, Update
<1>2. object[u.id] \in W!Object /\ object[u.id].version \in Nat
  BY <1>1 DEF TypeOK, W!Object
<1>3. /\ W!Given(u.data, object[u.id].data) = u.data
      /\ W!Given(Nil, object[u.id].tags) = object[u.id].tags
  BY <1>1 DEF W!Given
<1>4. /\ W!Admitted(u.id, u.expected)
      /\ object[u.id].version < MaxVersion
      /\ event[th] = {}
  BY DEF ApplyOne, W!Apply
<1>5. Applied(u) \in W!Object
  BY <1>1, <1>2, <1>4 DEF Applied, W!Object
<1>6. News(u) \in W!Event
  BY <1>1, <1>5 DEF News, W!Event
<1>7. /\ object' = [object EXCEPT ![u.id] = Applied(u)]
      /\ event' = [event EXCEPT ![th] = {News(u)}]
  BY <1>3 DEF ApplyOne, W!Apply, Applied, News
<1>8. QED
  BY <1>1, <1>2, <1>4, <1>5, <1>6, <1>7

-----------------------------------------------------------------------------
(* Types *)

LEMMA TypeInit == Init => TypeOK
BY DEF Init, TypeOK, W!Init, W!Object, W!Absent

\* What the merge function decides on, of objects it looked at, is an update.
LEMMA DecideTypes ==
    ASSUME TypeOK, NEW th \in Writers, NEW r \in Results,
           NEW S \in SUBSET Objects, NEW conditional \in BOOLEAN,
           \A o \in Objects : Known(o) \in SUBSET Results,
           Decide(th, r, S, conditional)
    PROVE  TypeOK'
<1> DEFINE upd(o) == [id |-> o,
                      expected |-> IF conditional THEN object[o].version ELSE 0,
                      data |-> Known(o) \cup {r}]
           all == {upd(o) : o \in S}
<1>1. \A o \in Objects : object[o].version \in 0..MaxVersion
  BY DEF TypeOK, W!Object
<1>2. \A o \in Objects : upd(o) \in Update
  <2> SUFFICES ASSUME NEW o \in Objects
               PROVE  upd(o) \in Update
    OBVIOUS
  <2>1. (IF conditional THEN object[o].version ELSE 0) \in 0..MaxVersion
    BY <1>1
  <2>2. Known(o) \cup {r} \in SUBSET Results
    OBVIOUS
  <2>3. QED
    BY <2>1, <2>2 DEF Update
<1>3. all \subseteq Update
  BY <1>2
<1>4. decided' = [decided EXCEPT ![th] = all]
  BY DEF Decide
<1>5. decided' \in [Writers -> SUBSET Update]
  BY <1>3, <1>4 DEF TypeOK
<1>6. result' \in [Writers -> Results \cup {Nil}]
  BY DEF Decide, TypeOK
<1>7. QED
  BY <1>5, <1>6 DEF Decide, TypeOK, world

LEMMA TypeStep == TypeOK /\ ContentsOK /\ [Next]_vars => TypeOK' /\ ContentsOK'
<1> SUFFICES ASSUME TypeOK, ContentsOK, [Next]_vars
             PROVE  TypeOK' /\ ContentsOK'
  OBVIOUS
<1>1. ASSUME NEW th \in Writers, NEW r \in Results, NEW S \in SUBSET Objects,
             NEW conditional \in BOOLEAN, Decide(th, r, S, conditional)
      PROVE  TypeOK' /\ ContentsOK'
  <2>1. \A o \in Objects : Known(o) \in SUBSET Results
    BY DEF ContentsOK, Known
  <2>2. TypeOK'
    BY <1>1, <2>1, DecideTypes
  <2>3. ContentsOK'
    BY <1>1 DEF Decide, ContentsOK, world, W!Exists, TypeOK
  <2>4. QED
    BY <2>2, <2>3
<1>2. ASSUME NEW th \in Writers, NEW u \in decided[th], ApplyOne(th, u)
      PROVE  TypeOK' /\ ContentsOK'
  <2>1. /\ u \in Update /\ Applied(u) \in W!Object /\ News(u) \in W!Event
        /\ object' = [object EXCEPT ![u.id] = Applied(u)]
        /\ event' = [event EXCEPT ![th] = {News(u)}]
    BY <1>2, ApplyFacts
  <2>2. u.id \in Objects /\ u.data \in SUBSET Results
    BY <2>1 DEF Update
  <2>3. result[th] \in Results
    BY <1>2 DEF ApplyOne, ContentsOK
  <2>4. built' \in [Objects -> SUBSET Results] /\ merged' \in SUBSET Results
    BY <1>2, <2>2, <2>3 DEF ApplyOne, TypeOK
  <2>5. decided' \in [Writers -> SUBSET Update]
    BY <1>2 DEF ApplyOne, TypeOK
  <2>6. /\ object' \in [Objects -> W!Object]
        /\ event' \in [Writers -> SUBSET W!Event]
    BY <2>1 DEF TypeOK
  <2>7. TypeOK'
    BY <1>2, <2>4, <2>5, <2>6 DEF ApplyOne, TypeOK
  <2>8. ContentsOK'
    BY <1>2, <2>1, <2>2 DEF ApplyOne, ContentsOK, W!Exists, Applied, TypeOK
  <2>9. QED
    BY <2>7, <2>8
<1>3. ASSUME NEW th \in Writers, NEW u \in decided[th], SkipRefused(th, u)
      PROVE  TypeOK' /\ ContentsOK'
  BY <1>3 DEF SkipRefused, W!Refuse, W!worldVars, TypeOK, ContentsOK, W!Exists
<1>4. ASSUME NEW th \in Writers, Accept(th)
      PROVE  TypeOK' /\ ContentsOK'
  BY <1>4 DEF Accept, TypeOK, ContentsOK, world, W!Exists
<1>5. ASSUME NEW th \in Writers, NEW o \in Objects, Delete(th, o)
      PROVE  TypeOK' /\ ContentsOK'
  <2>1. W!Absent \in W!Object
    BY DEF W!Absent, W!Object
  <2>2. \A c \in W!Object :
           [kind |-> "deleted", id |-> o, object |-> c] \in W!Event
    BY DEF W!Event
  <2>3. /\ object' = [object EXCEPT ![o] = W!Absent]
        /\ event' = [event EXCEPT ![th] =
                       {[kind |-> "deleted", id |-> o, object |-> object[o]]}]
    BY <1>5 DEF Delete, W!Delete
  <2>4. /\ object' \in [Objects -> W!Object]
        /\ event' \in [Writers -> SUBSET W!Event]
    BY <2>1, <2>2, <2>3 DEF TypeOK
  <2>5. TypeOK'
    BY <1>5, <2>4 DEF Delete, TypeOK
  <2>6. ContentsOK'
    BY <1>5, <2>3 DEF Delete, ContentsOK, W!Exists, W!Absent, TypeOK
  <2>7. QED
    BY <2>5, <2>6
<1>6. ASSUME NEW th \in Writers, Fire(th)
      PROVE  TypeOK' /\ ContentsOK'
  BY <1>6 DEF Fire, W!Fire, TypeOK, ContentsOK, W!Exists
<1>7. CASE UNCHANGED vars
  BY <1>7 DEF vars, world, TypeOK, ContentsOK, W!Exists
<1>8. QED
  BY <1>1, <1>2, <1>3, <1>4, <1>5, <1>6, <1>7 DEF Next

\* The world, Submit and its caller keep their types, deletions included.
THEOREM MergeTypes == Spec => []TypeOK
<1>1. Init => TypeOK /\ ContentsOK
  BY TypeInit DEF Init, W!Init, ContentsOK, W!Exists, W!Absent
<1>2. QED
  BY <1>1, TypeStep, PTL DEF Spec

-----------------------------------------------------------------------------
(* No update is lost, and the events tell the history *)

LEMMA MergeInit == Init => MergeInv
<1> SUFFICES ASSUME Init
             PROVE  MergeInv
  OBVIOUS
<1>1. TypeOK
  BY TypeInit
<1>2. Told = {}
  BY DEF Init, W!Init, Told
<1>3. ContentsOK /\ DecidedFits /\ NoUpdateIsLost
  BY DEF Init, W!Init, W!Absent, W!Exists, ContentsOK, DecidedFits, NoUpdateIsLost
<1>4. EventsAreCurrent /\ EventsTellTheHistory
  BY <1>2 DEF Init, W!Init, W!Absent, EventsAreCurrent, EventsTellTheHistory
<1>5. QED
  BY <1>1, <1>3, <1>4 DEF MergeInv

\* What was deleted stays in the events, which are never forgotten.
LEMMA NeverDeletedBefore ==
    ASSUME Told \subseteq Told', NEW o, NeverDeleted(o)'
    PROVE  NeverDeleted(o)
BY DEF NeverDeleted

\* An update adds one event to what is told.
LEMMA ToldByApply ==
    ASSUME TypeOK, NEW th \in Writers, NEW u \in decided[th], ApplyOne(th, u)
    PROVE  Told' = Told \cup {News(u)}
<1>1. event[th] = {} /\ event' = [event EXCEPT ![th] = {News(u)}]
  BY ApplyFacts
<1>2. heard' = heard
  BY DEF ApplyOne
<1>3. \A t \in Writers : event'[t] = IF t = th THEN {News(u)} ELSE event[t]
  BY <1>1 DEF TypeOK
<1>4. \A e : e \in Told' <=> e \in Told \/ e = News(u)
  BY <1>1, <1>2, <1>3 DEF Told
<1>5. QED
  BY <1>4

\* An update that is admitted contains what it replaces, or names no version.
LEMMA ApplyLosesNothing ==
    ASSUME MergeInv, TypeOK', NEW th \in Writers, NEW u \in decided[th], ApplyOne(th, u)
    PROVE  NoUpdateIsLost' /\ DecidedFits'
<1> USE DEF MergeInv
<1> DEFINE o == u.id
<1>1. /\ u \in Update
      /\ object[o] \in W!Object
      /\ W!Admitted(o, u.expected)
      /\ object' = [object EXCEPT ![o] = Applied(u)]
  BY ApplyFacts
<1>2. /\ o \in Objects /\ u.data \in SUBSET Results /\ u.expected \in Nat
      /\ object[o].version \in Nat
  BY <1>1 DEF Update, W!Object
<1>3. object'[o].version = object[o].version + 1 /\ object'[o].data = u.data
  BY <1>1, <1>2 DEF Applied, TypeOK
<1>4. Known(o)' = u.data
  BY <1>2, <1>3 DEF Known, W!Exists
<1>5. \A q \in Objects \ {o} : object'[q] = object[q] /\ built'[q] = built[q]
  BY <1>1, <1>2 DEF ApplyOne, TypeOK
<1>6. result[th] \in u.data
  BY DEF DecidedFits
<1>kept. \A q : NeverDeleted(q)' => NeverDeleted(q)
  BY ToldByApply, NeverDeletedBefore
<1>7. NeverDeleted(o) => built'[o] \subseteq u.data
  <2> SUFFICES ASSUME NeverDeleted(o)
               PROVE  built'[o] \subseteq u.data
    OBVIOUS
  <2>1. built'[o] = IF u.expected = 0 THEN u.data ELSE built[o] \cup {result[th]}
    BY <1>2 DEF ApplyOne, TypeOK
  <2>2. ASSUME u.expected # 0
        PROVE  built[o] \subseteq u.data
    <3>1. object[o].version = u.expected /\ u.expected > 0
      BY <1>1, <1>2, <2>2 DEF W!Admitted
    <3>2. Known(o) \subseteq u.data
      BY <3>1 DEF DecidedFits
    <3>3. QED
      BY <1>2, <3>2 DEF NoUpdateIsLost
  <2>3. QED
    BY <1>6, <2>1, <2>2
<1>8. NoUpdateIsLost'
  <2>1. \A q \in Objects \ {o} : Known(q)' = Known(q)
    BY <1>5 DEF Known, W!Exists
  <2>2. QED
    BY <1>4, <1>5, <1>7, <1>kept, <2>1 DEF NoUpdateIsLost
<1>9. ASSUME NEW t \in Writers, NEW v \in decided'[t]
      PROVE  /\ result'[t] \in v.data
             /\ NeverDeleted(v.id)' =>
                   /\ v.expected <= object'[v.id].version
                   /\ v.expected > 0 /\ v.expected = object'[v.id].version
                        => Known(v.id)' \subseteq v.data
  <2>1. v \in decided[t] /\ result' = result
    BY DEF ApplyOne, TypeOK
  <2>2. v \in Update
    BY <2>1 DEF TypeOK
  <2>3. v.id \in Objects /\ v.expected \in Nat
    BY <2>2 DEF Update
  <2>4. /\ result[t] \in v.data
        /\ NeverDeleted(v.id)' =>
              /\ v.expected <= object[v.id].version
              /\ v.expected > 0 /\ v.expected = object[v.id].version
                   => Known(v.id) \subseteq v.data
    BY <1>kept, <2>1 DEF DecidedFits
  <2>5. CASE v.id = o
    BY <1>2, <1>3, <2>1, <2>3, <2>4, <2>5
  <2>6. CASE v.id # o
    BY <1>5, <2>1, <2>3, <2>4, <2>6 DEF Known, W!Exists
  <2>7. QED
    BY <2>5, <2>6
<1>10. QED
  BY <1>8, <1>9 DEF DecidedFits

\* Its event is ahead of all events before.
LEMMA ApplyTells ==
    ASSUME MergeInv, TypeOK', NEW th \in Writers, NEW u \in decided[th], ApplyOne(th, u)
    PROVE  EventsAreCurrent' /\ EventsTellTheHistory'
<1> USE DEF MergeInv
<1> DEFINE o == u.id
           new == News(u)
<1>1. /\ u \in Update
      /\ object[o] \in W!Object
      /\ object' = [object EXCEPT ![o] = Applied(u)]
      /\ event[th] = {}
      /\ event' = [event EXCEPT ![th] = {new}]
  BY ApplyFacts
<1>2. o \in Objects /\ object[o].version \in Nat
  BY <1>1 DEF Update, W!Object
<1>3. new.id = o /\ new.object = Applied(u)
  BY DEF News
<1>4. object'[o] = Applied(u) /\ Applied(u).version = object[o].version + 1
  BY <1>1, <1>2 DEF Applied, TypeOK
<1>5. \A q \in Objects \ {o} : object'[q] = object[q]
  BY <1>1, <1>2 DEF TypeOK
<1>6. Told' = Told \cup {new}
  BY ToldByApply
<1>kept. \A q : NeverDeleted(q)' => NeverDeleted(q)
  BY <1>6, NeverDeletedBefore
<1>7. \A e \in Told : e.id \in Objects /\ e.object.version \in Nat
  BY DEF Told, TypeOK, W!Event, W!Object
<1>current. \A e \in Told :
               NeverDeleted(e.id) =>
                  /\ e.object.version \in 1..object[e.id].version
                  /\ e.object.version = object[e.id].version => e.object = object[e.id]
  BY DEF EventsAreCurrent
<1>8. EventsAreCurrent'
  <2> SUFFICES ASSUME NEW e \in Told', NeverDeleted(e.id)'
               PROVE  /\ e.object.version \in 1..object'[e.id].version
                      /\ e.object.version = object'[e.id].version
                           => e.object = object'[e.id]
    BY DEF EventsAreCurrent
  <2>1. CASE e = new
    BY <1>2, <1>3, <1>4, <2>1
  <2>2. CASE e \in Told
    <3>1. /\ e.object.version \in 1..object[e.id].version
          /\ e.object.version = object[e.id].version => e.object = object[e.id]
      BY <1>current, <1>kept, <2>2, Zenon
    <3>2. CASE e.id = o
      BY <1>2, <1>4, <3>1, <3>2
    <3>3. CASE e.id # o
      BY <1>5, <1>7, <2>2, <3>1, <3>3
    <3>4. QED
      BY <3>2, <3>3
  <2>3. QED
    BY <1>6, <2>1, <2>2
<1>9. ASSUME NEW q \in Objects, NEW v \in 1..object'[q].version
      PROVE  \E e \in Told' : e.id = q /\ e.object.version = v
  <2>1. CASE q = o /\ v = object[o].version + 1
    BY <1>3, <1>4, <1>6, <2>1
  <2>2. CASE ~(q = o /\ v = object[o].version + 1)
    <3>1. v \in 1..object[q].version
      BY <1>2, <1>4, <1>5, <2>2
    <3>2. QED
      BY <1>6, <3>1 DEF EventsTellTheHistory
  <2>3. QED
    BY <2>1, <2>2
<1>10. ASSUME NEW e \in Told', NEW f \in Told',
              e.id = f.id, e.object.version = f.object.version, NeverDeleted(e.id)'
       PROVE  e.object = f.object
  <2>1. NeverDeleted(e.id)
    BY <1>10, <1>kept
  <2>2. \A g \in Told : ~(/\ NeverDeleted(g.id) /\ g.id = o
                            /\ g.object.version = object[o].version + 1)
    BY <1>2, <1>7, <1>current
  <2>3. new.id = o /\ new.object.version = object[o].version + 1
    BY <1>3, <1>4
  <2>4. CASE e = new \/ f = new
    BY <1>6, <1>10, <2>1, <2>2, <2>3, <2>4
  <2>5. CASE e \in Told /\ f \in Told
    BY <1>10, <2>1, <2>5 DEF EventsTellTheHistory
  <2>6. QED
    BY <1>6, <2>4, <2>5
<1>11. QED
  BY <1>8, <1>9, <1>10 DEF EventsTellTheHistory

\* Steps that leave the world and the results in hand alone.
LEMMA SameWorld ==
    ASSUME MergeInv, object' = object, Told' = Told, built' = built
    PROVE  NoUpdateIsLost' /\ EventsAreCurrent' /\ EventsTellTheHistory'
BY DEF MergeInv, NoUpdateIsLost, NeverDeleted, Known, W!Exists, EventsAreCurrent,
       EventsTellTheHistory

\* A deletion ends what is promised of the object, and concerns no other.
LEMMA DeleteStep ==
    ASSUME MergeInv, NEW th \in Writers, NEW o \in Objects, Delete(th, o)
    PROVE  /\ NoUpdateIsLost' /\ DecidedFits'
           /\ EventsAreCurrent' /\ EventsTellTheHistory'
<1> USE DEF MergeInv
<1> DEFINE new == [kind |-> "deleted", id |-> o, object |-> object[o]]
<1>1. /\ event[th] = {}
      /\ object' = [object EXCEPT ![o] = W!Absent]
      /\ event' = [event EXCEPT ![th] = {new}]
      /\ built' = [built EXCEPT ![o] = {}]
      /\ decided' = decided /\ result' = result /\ heard' = heard
  BY DEF Delete, W!Delete
<1>2. Told' = Told \cup {new}
  <2>1. \A t \in Writers : event'[t] = IF t = th THEN {new} ELSE event[t]
    BY <1>1 DEF TypeOK
  <2>2. \A e : e \in Told' <=> e \in Told \/ e = new
    BY <1>1, <2>1 DEF Told
  <2>3. QED
    BY <2>2
<1>3. \A q : NeverDeleted(q)' => NeverDeleted(q) /\ q # o
  <2>1. new \in Told' /\ new.kind = "deleted" /\ new.id = o
    BY <1>2
  <2>2. \E e \in Told' : e.kind = "deleted" /\ e.id = o
    BY <2>1, Zenon
  <2>3. ~NeverDeleted(o)'
    BY <2>2 DEF NeverDeleted
  <2>4. QED
    BY <1>2, <2>3, NeverDeletedBefore
<1>4. \A q \in Objects \ {o} : /\ object'[q] = object[q] /\ built'[q] = built[q]
                               /\ Known(q)' = Known(q)
  BY <1>1 DEF TypeOK, Known, W!Exists
<1>5. NoUpdateIsLost'
  BY <1>3, <1>4 DEF NoUpdateIsLost
<1>6. DecidedFits'
  <2> SUFFICES ASSUME NEW t \in Writers, NEW u \in decided[t]
               PROVE  /\ result[t] \in u.data
                      /\ NeverDeleted(u.id)' =>
                            /\ u.expected <= object'[u.id].version
                            /\ u.expected > 0 /\ u.expected = object'[u.id].version
                                 => Known(u.id)' \subseteq u.data
    BY <1>1 DEF DecidedFits
  <2>1. u.id \in Objects
    BY DEF TypeOK, Update
  <2>2. QED
    BY <1>3, <1>4, <2>1 DEF DecidedFits
<1>7. \A e \in Told' : NeverDeleted(e.id)' => e \in Told /\ e.id \in Objects \ {o}
  <2>1. \A e \in Told : e.id \in Objects
    BY DEF Told, TypeOK, W!Event
  <2>2. QED
    BY <1>2, <1>3, <2>1
<1>8. EventsAreCurrent'
  BY <1>3, <1>4, <1>7 DEF EventsAreCurrent
<1>9. ASSUME NEW q \in Objects, NEW v \in 1..object'[q].version
      PROVE  \E e \in Told' : e.id = q /\ e.object.version = v
  <2>1. q # o
    BY <1>1, <1>9 DEF TypeOK, W!Absent
  <2>2. v \in 1..object[q].version
    BY <1>4, <1>9, <2>1
  <2>3. QED
    BY <1>2, <2>2 DEF EventsTellTheHistory
<1>10. ASSUME NEW e \in Told', NEW f \in Told',
              e.id = f.id, e.object.version = f.object.version, NeverDeleted(e.id)'
       PROVE  e.object = f.object
  BY <1>3, <1>7, <1>10 DEF EventsTellTheHistory
<1>11. QED
  BY <1>5, <1>6, <1>8, <1>9, <1>10 DEF EventsTellTheHistory

LEMMA MergeStep == MergeInv /\ [Next]_vars => MergeInv'
<1> SUFFICES ASSUME MergeInv, [Next]_vars
             PROVE  MergeInv'
  OBVIOUS
<1>1. TypeOK' /\ ContentsOK'
  BY TypeStep DEF MergeInv
<1>2. ASSUME NEW th \in Writers, NEW r \in Results, NEW S \in SUBSET Objects,
             NEW conditional \in BOOLEAN, Decide(th, r, S, conditional)
      PROVE  MergeInv'
  <2>1. object' = object /\ Told' = Told /\ built' = built
    BY <1>2 DEF Decide, world, Told
  <2>2. \A t \in Writers \ {th} : decided'[t] = decided[t] /\ result'[t] = result[t]
    BY <1>2 DEF Decide, MergeInv, TypeOK
  <2>3. result'[th] = r
    BY <1>2 DEF Decide, MergeInv, TypeOK
  <2>4. decided'[th] = {[id |-> o,
                         expected |-> IF conditional THEN object[o].version ELSE 0,
                         data |-> Known(o) \cup {r}] : o \in S}
    BY <1>2 DEF Decide, MergeInv, TypeOK
  <2>5. ASSUME NEW u \in decided'[th]
        PROVE  /\ r \in u.data
               /\ u.expected <= object[u.id].version
               /\ Known(u.id) \subseteq u.data
    <3>1. PICK o \in S : u = [id |-> o,
                              expected |-> IF conditional THEN object[o].version ELSE 0,
                              data |-> Known(o) \cup {r}]
      BY <2>4
    <3>2. object[o].version \in Nat
      BY DEF MergeInv, TypeOK, W!Object
    <3>3. QED
      BY <3>1, <3>2
  <2>6. DecidedFits'
    <3> SUFFICES ASSUME NEW t \in Writers, NEW u \in decided'[t]
                 PROVE  /\ result'[t] \in u.data
                        /\ NeverDeleted(u.id) =>
                              /\ u.expected <= object'[u.id].version
                              /\ u.expected > 0 /\ u.expected = object'[u.id].version
                                   => Known(u.id)' \subseteq u.data
      BY <2>1 DEF DecidedFits, NeverDeleted
    <3>1. Known(u.id)' = Known(u.id)
      BY <2>1 DEF Known, W!Exists
    <3>2. CASE t = th
      BY <2>1, <2>3, <2>5, <3>1, <3>2
    <3>3. CASE t # th
      BY <2>1, <2>2, <3>1, <3>3 DEF MergeInv, DecidedFits
    <3>4. QED
      BY <3>2, <3>3
  <2>7. QED
    BY <1>1, <2>1, <2>6, SameWorld DEF MergeInv
<1>3. ASSUME NEW th \in Writers, NEW u \in decided[th], ApplyOne(th, u)
      PROVE  MergeInv'
  BY <1>1, <1>3, ApplyLosesNothing, ApplyTells DEF MergeInv
<1>4. ASSUME object' = object, Told' = Told, built' = built,
             \A th \in Writers : /\ decided'[th] \subseteq decided[th]
                                 /\ decided'[th] # {} => result'[th] = result[th]
      PROVE  MergeInv'
  <2>1. DecidedFits'
    <3>1. \A o : Known(o)' = Known(o) /\ (NeverDeleted(o)' <=> NeverDeleted(o))
      BY <1>4 DEF Known, W!Exists, NeverDeleted
    <3>2. QED
      BY <1>4, <3>1 DEF MergeInv, DecidedFits
  <2>2. QED
    BY <1>1, <1>4, <2>1, SameWorld DEF MergeInv
<1>5. ASSUME NEW th \in Writers, NEW u \in decided[th], SkipRefused(th, u)
      PROVE  MergeInv'
  <2>1. object' = object /\ Told' = Told /\ built' = built /\ result' = result
    BY <1>5 DEF SkipRefused, W!Refuse, W!worldVars, Told
  <2>2. \A t \in Writers : decided'[t] \subseteq decided[t]
    BY <1>5 DEF SkipRefused, MergeInv, TypeOK
  <2>3. QED
    BY <1>4, <2>1, <2>2
<1>6. ASSUME NEW th \in Writers, Accept(th)
      PROVE  MergeInv'
  <2>1. object' = object /\ Told' = Told /\ built' = built /\ decided' = decided
    BY <1>6 DEF Accept, world, Told
  <2>2. \A t \in Writers : decided[t] # {} => result'[t] = result[t]
    BY <1>6 DEF Accept, MergeInv, TypeOK
  <2>3. QED
    BY <1>4, <2>1, <2>2
<1>7. ASSUME NEW th \in Writers, Fire(th)
      PROVE  MergeInv'
  <2>1. /\ object' = object /\ built' = built /\ decided' = decided
        /\ result' = result
    BY <1>7 DEF Fire, W!Fire
  <2>2. Told' = Told
    <3>1. \A t \in Writers : event'[t] = IF t = th THEN {} ELSE event[t]
      BY <1>7 DEF Fire, W!Fire, MergeInv, TypeOK
    <3>2. heard' = heard \cup event[th]
      BY <1>7 DEF Fire
    <3>3. \A e : e \in Told' <=> e \in Told
      BY <3>1, <3>2 DEF Told
    <3>4. QED
      BY <3>3
  <2>3. QED
    BY <1>4, <2>1, <2>2
<1>8. ASSUME NEW th \in Writers, NEW o \in Objects, Delete(th, o)
      PROVE  MergeInv'
  BY <1>1, <1>8, DeleteStep DEF MergeInv
<1>9. CASE UNCHANGED vars
  BY <1>4, <1>9 DEF vars, world, Told
<1>10. QED
  BY <1>2, <1>3, <1>5, <1>6, <1>7, <1>8, <1>9 DEF Next

\* Optimistic concurrency works: in any number of concurrent merges a result that
\* was merged under the version it was computed from stays (world.go:91-100), as
\* long as the object is not deleted.  That the versions of such an object never
\* come back is what the proof rests on (DecidedFits).
THEOREM MergesLoseNothing == Spec => []NoUpdateIsLost
<1>1. MergeInv => NoUpdateIsLost
  BY DEF MergeInv
<1>2. QED
  BY <1>1, MergeStep, MergeInit, PTL DEF Spec

\* The handlers hear of every version, and until a deletion of one content per
\* version, though events are fired after w.mu.Unlock() (world.go:134-136).
THEOREM EventsAreFaithful == Spec => []EventsTellTheHistory
<1>1. MergeInv => EventsTellTheHistory
  BY DEF MergeInv
<1>2. QED
  BY <1>1, MergeStep, MergeInit, PTL DEF Spec

-----------------------------------------------------------------------------
(* Ends are told *)

\* What is true between an object's creation and its deletion: no event is ahead
\* of it, or a deletion that is not behind the event has been told.
NoneIsAhead ==
    \A e \in Told :
       \/ W!Exists(e.id) /\ e.object.version <= object[e.id].version
       \/ \E d \in Told : /\ d.kind = "deleted" /\ d.id = e.id
                         /\ d.object.version >= e.object.version

EndsInv == EndsAreTold /\ NoneIsAhead

\* A deletion adds the event that carries what was deleted.
LEMMA ToldByDelete ==
    ASSUME TypeOK, NEW th \in Writers, NEW o \in Objects, Delete(th, o)
    PROVE  /\ W!Exists(o)
           /\ object' = [object EXCEPT ![o] = W!Absent]
           /\ Told' = Told \cup {[kind |-> "deleted", id |-> o, object |-> object[o]]}
<1> DEFINE new == [kind |-> "deleted", id |-> o, object |-> object[o]]
<1>1. /\ W!Exists(o)
      /\ event[th] = {}
      /\ object' = [object EXCEPT ![o] = W!Absent]
      /\ event' = [event EXCEPT ![th] = {new}]
      /\ heard' = heard
  BY DEF Delete, W!Delete
<1>2. \A t \in Writers : event'[t] = IF t = th THEN {new} ELSE event[t]
  BY <1>1 DEF TypeOK
<1>3. \A e : e \in Told' <=> e \in Told \/ e = new
  BY <1>1, <1>2 DEF Told
<1>4. QED
  BY <1>1, <1>3

\* Only updates and deletions change the world or what is told of it.
LEMMA WorldSteps ==
    ASSUME TypeOK, [Next]_vars
    PROVE  \/ object' = object /\ Told' = Told
           \/ \E th \in Writers : \/ \E u \in decided[th] : ApplyOne(th, u)
                                \/ \E o \in Objects : Delete(th, o)
<1>1. ASSUME NEW th \in Writers, NEW r \in Results, NEW S \in SUBSET Objects,
             NEW conditional \in BOOLEAN, Decide(th, r, S, conditional)
      PROVE  object' = object /\ Told' = Told
  BY <1>1 DEF Decide, world, Told
<1>2. ASSUME NEW th \in Writers, NEW u \in decided[th], SkipRefused(th, u)
      PROVE  object' = object /\ Told' = Told
  BY <1>2 DEF SkipRefused, W!Refuse, W!worldVars, Told
<1>3. ASSUME NEW th \in Writers, Accept(th)
      PROVE  object' = object /\ Told' = Told
  BY <1>3 DEF Accept, world, Told
<1>4. ASSUME NEW th \in Writers, Fire(th)
      PROVE  object' = object /\ Told' = Told
  <2>1. \A t \in Writers : event'[t] = IF t = th THEN {} ELSE event[t]
    BY <1>4 DEF Fire, W!Fire, TypeOK
  <2>2. heard' = heard \cup event[th] /\ object' = object
    BY <1>4 DEF Fire, W!Fire
  <2>3. \A e : e \in Told' <=> e \in Told
    BY <2>1, <2>2 DEF Told
  <2>4. QED
    BY <2>2, <2>3
<1>5. CASE UNCHANGED vars
  BY <1>5 DEF vars, world, Told
<1>6. QED
  BY <1>1, <1>2, <1>3, <1>4, <1>5 DEF Next

LEMMA EndsInit == Init => EndsInv
<1> SUFFICES ASSUME Init
             PROVE  EndsInv
  OBVIOUS
<1>1. Told = {}
  BY DEF Init, W!Init, Told
<1>2. ASSUME NEW o \in Objects
      PROVE  ~W!Exists(o)
  <2>1. object[o].version = 0
    BY DEF Init, W!Init, W!Absent
  <2>2. QED
    BY <2>1 DEF W!Exists
<1>3. QED
  BY <1>1, <1>2 DEF EndsInv, EndsAreTold, NoneIsAhead

\* The new content is told by its own event, and overtakes those before.
LEMMA EndsByApply ==
    ASSUME TypeOK, EndsInv, NEW th \in Writers, NEW u \in decided[th], ApplyOne(th, u)
    PROVE  EndsInv'
<1> DEFINE o == u.id
           new == News(u)
<1>1. /\ o \in Objects
      /\ object[o].version \in Nat
      /\ object' = [object EXCEPT ![o] = Applied(u)]
      /\ Told' = Told \cup {new}
  BY ApplyFacts, ToldByApply DEF Update, W!Object
<1>2. object'[o] = Applied(u) /\ Applied(u).version = object[o].version + 1
  BY <1>1 DEF Applied, TypeOK
<1>3. new.id = o /\ new.object = Applied(u) /\ new.kind # "deleted"
  BY DEF News
<1>4. \A q \in Objects \ {o} : object'[q] = object[q] /\ (W!Exists(q)' <=> W!Exists(q))
  BY <1>1 DEF TypeOK, W!Exists
<1>5. W!Exists(o)'
  BY <1>1, <1>2 DEF W!Exists
<1>6. \A e \in Told : e.id \in Objects /\ e.object.version \in Nat
  BY DEF Told, TypeOK, W!Event, W!Object
<1>7. ASSUME NEW q \in Objects, W!Exists(q)'
      PROVE  \E e \in Told' : e.kind # "deleted" /\ e.id = q /\ e.object = object'[q]
  <2>1. CASE q = o
    BY <1>1, <1>2, <1>3, <2>1
  <2>2. CASE q # o
    BY <1>1, <1>4, <1>7, <2>2 DEF EndsInv, EndsAreTold
  <2>3. QED
    BY <2>1, <2>2
<1>8. ASSUME NEW e \in Told'
      PROVE  \/ W!Exists(e.id)' /\ e.object.version <= object'[e.id].version
             \/ \E d \in Told' : /\ d.kind = "deleted" /\ d.id = e.id
                                /\ d.object.version >= e.object.version
  <2>1. CASE e = new
    BY <1>1, <1>2, <1>3, <1>5, <2>1
  <2>2. CASE e \in Told
    <3>1. CASE \E d \in Told : /\ d.kind = "deleted" /\ d.id = e.id
                              /\ d.object.version >= e.object.version
      BY <1>1, <3>1
    <3>2. CASE W!Exists(e.id) /\ e.object.version <= object[e.id].version
      <4>1. CASE e.id = o
        BY <1>1, <1>2, <1>5, <1>6, <2>2, <3>2, <4>1
      <4>2. CASE e.id # o
        BY <1>4, <1>6, <2>2, <3>2, <4>2
      <4>3. QED
        BY <4>1, <4>2
    <3>3. QED
      BY <2>2, <3>1, <3>2 DEF EndsInv, NoneIsAhead
  <2>3. QED
    BY <1>1, <2>1, <2>2
<1>9. ASSUME NEW e \in Told', ~W!Exists(e.id)'
      PROVE  \E d \in Told' : /\ d.kind = "deleted" /\ d.id = e.id
                             /\ d.object.version >= e.object.version
  BY <1>8, <1>9
<1>10. ASSUME NEW d \in Told', d.kind = "deleted"
       PROVE  \E e \in Told' : e.kind # "deleted" /\ e.id = d.id /\ e.object = d.object
  BY <1>1, <1>3, <1>10 DEF EndsInv, EndsAreTold
<1>11. QED
  BY <1>7, <1>8, <1>9, <1>10 DEF EndsInv, EndsAreTold, NoneIsAhead

\* A deletion carries the last content, which was told when it was written, and
\* is not behind any event of its object.
LEMMA EndsByDelete ==
    ASSUME TypeOK, EndsInv, NEW th \in Writers, NEW o \in Objects, Delete(th, o)
    PROVE  EndsInv'
<1> DEFINE new == [kind |-> "deleted", id |-> o, object |-> object[o]]
<1>1. /\ W!Exists(o)
      /\ object' = [object EXCEPT ![o] = W!Absent]
      /\ Told' = Told \cup {new}
  BY ToldByDelete
<1>2. \A q \in Objects \ {o} : object'[q] = object[q] /\ (W!Exists(q)' <=> W!Exists(q))
  BY <1>1 DEF TypeOK, W!Exists
<1>3. ~W!Exists(o)'
  BY <1>1 DEF W!Exists, W!Absent, TypeOK
<1>4. \A e \in Told' : e.id \in Objects /\ e.object.version \in Nat
  BY <1>1 DEF Told, TypeOK, W!Event, W!Object
<1>5. ASSUME NEW q \in Objects, W!Exists(q)'
      PROVE  \E e \in Told' : e.kind # "deleted" /\ e.id = q /\ e.object = object'[q]
  BY <1>1, <1>2, <1>3, <1>5 DEF EndsInv, EndsAreTold
<1>6. ASSUME NEW e \in Told'
      PROVE  \/ W!Exists(e.id)' /\ e.object.version <= object'[e.id].version
             \/ \E d \in Told' : /\ d.kind = "deleted" /\ d.id = e.id
                                /\ d.object.version >= e.object.version
  <2>1. CASE e = new
    BY <1>1, <1>4, <2>1
  <2>2. CASE e \in Told
    <3>1. CASE \E d \in Told : /\ d.kind = "deleted" /\ d.id = e.id
                              /\ d.object.version >= e.object.version
      BY <1>1, <3>1
    <3>2. CASE W!Exists(e.id) /\ e.object.version <= object[e.id].version
      <4>1. CASE e.id = o
        <5>1. new \in Told' /\ new.kind = "deleted" /\ new.id = o
          BY <1>1
        <5>2. object[o].version \in Nat /\ e.object.version \in Nat
          BY <1>4, <5>1
        <5>3. new.object.version >= e.object.version
          BY <3>2, <4>1, <5>2
        <5>4. QED
          BY <4>1, <5>1, <5>3
      <4>2. CASE e.id # o
        BY <1>2, <1>4, <3>2, <4>2
      <4>3. QED
        BY <4>1, <4>2
    <3>3. QED
      BY <2>2, <3>1, <3>2 DEF EndsInv, NoneIsAhead
  <2>3. QED
    BY <1>1, <2>1, <2>2
<1>7. ASSUME NEW e \in Told', ~W!Exists(e.id)'
      PROVE  \E d \in Told' : /\ d.kind = "deleted" /\ d.id = e.id
                             /\ d.object.version >= e.object.version
  BY <1>6, <1>7
<1>8. ASSUME NEW d \in Told', d.kind = "deleted"
      PROVE  \E e \in Told' : e.kind # "deleted" /\ e.id = d.id /\ e.object = d.object
  <2>1. CASE d = new
    BY <1>1, <2>1 DEF EndsInv, EndsAreTold
  <2>2. CASE d \in Told
    BY <1>1, <1>8, <2>2 DEF EndsInv, EndsAreTold
  <2>3. QED
    BY <1>1, <2>1, <2>2
<1>9. QED
  BY <1>5, <1>6, <1>7, <1>8 DEF EndsInv, EndsAreTold, NoneIsAhead

LEMMA EndsStep == TypeOK /\ EndsInv /\ [Next]_vars => EndsInv'
<1> SUFFICES ASSUME TypeOK, EndsInv, [Next]_vars
             PROVE  EndsInv'
  OBVIOUS
<1>1. CASE object' = object /\ Told' = Told
  BY <1>1 DEF EndsInv, EndsAreTold, NoneIsAhead, W!Exists
<1>2. QED
  BY <1>1, WorldSteps, EndsByApply, EndsByDelete

\* Whoever follows the change events learns of every object that is gone that it
\* is (world.go:140-157), and of the content of every object that is there, in
\* whatever order the events of several goroutines come.
THEOREM EndsReachTheFollowers == Spec => []EndsAreTold
<1>1. EndsInv => EndsAreTold
  BY DEF EndsInv
<1>2. QED
  BY <1>1, EndsStep, EndsInit, MergeTypes, PTL DEF Spec

=============================================================================
