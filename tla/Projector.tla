------------------------------- MODULE Projector -------------------------------
(***************************************************************************)
(* The projection of the world to the sessions: projector.go's tick, the   *)
(* bounded outbox of session.go and the way of a message to its client.    *)
(*                                                                         *)
(* A tick copies the world, then takes a snapshot of the sessions, then    *)
(* visits them one by one; sessions come, change their tags and go, and    *)
(* the world changes, in between.  A visit (computeDiffs and Send) is one  *)
(* step: the versions it remembers are the projector's own.  Contents are  *)
(* told apart by their versions, so a message is a set of versions.        *)
(***************************************************************************)
EXTENDS Naturals, Sequences

CONSTANTS
    Objects, Nil, MaxVersion,
    Tags,           \* tags of objects
    Star,           \* the tag "*", which a session subscribes to to see all
    TCP, UDP,       \* session IDs
    OutboxSize,     \* outboxBuffer
    Writer          \* the goroutine that changes the world

ASSUME ProjectorAssumption ==
    /\ Star \notin Tags
    /\ \A T \in SUBSET Tags : Nil # T
    /\ TCP \cap UDP = {}
    /\ OutboxSize \in Nat \ {0}
    /\ MaxVersion \in Nat

VARIABLES
    object, event,  \* the world
    phase, subs,    \* per session: where it is in its life, its tags
    seen,           \* p.seen; a version 0 stands for a missing entry
    copy,           \* the tick's copy of the world
    visits,         \* the sessions the tick has still to visit
    ticking,        \* the tick is past p.world.List
    outbox,         \* per session: messages queued
    view,           \* per session: the versions its client has received last
    missed,         \* history, per session: the objects of the messages dropped or
                    \* lost since its client last had the world's version of them
    deleted         \* history: the objects whose versions have started anew

world == <<object, event>>
history == <<missed, deleted>>
vars == <<world, phase, subs, seen, copy, visits, ticking, outbox, view, history>>

Sessions == TCP \cup UDP

W == INSTANCE World WITH Writers <- {Writer}, Data <- {}

Versions == [Objects -> 0..MaxVersion]
NoVersions == [o \in Objects |-> 0]

\* A world_update: the objects it carries, with their versions.
Message == UNION {[S -> 1..MaxVersion] : S \in SUBSET Objects}

Present(s) == phase[s] \in {"open", "leaving"}

\* sessionMatchesAnyTag
Matches(s, tags) == Star \in subs[s] \/ (tags # Nil /\ tags \cap subs[s] # {})

Init ==
    /\ W!Init
    /\ phase = [s \in Sessions |-> "new"]
    /\ subs = [s \in Sessions |-> {}]
    /\ seen = [s \in Sessions |-> NoVersions]
    /\ copy = object
    /\ visits = {}
    /\ ticking = FALSE
    /\ outbox = [s \in Sessions |-> <<>>]
    /\ view = [s \in Sessions |-> NoVersions]
    /\ missed = [s \in Sessions |-> {}]
    /\ deleted = {}

-----------------------------------------------------------------------------
(* The world and the sessions *)

projection == <<seen, copy, visits, ticking, outbox, view, missed>>

Change(o, tags) ==
    /\ W!Apply(Writer, o, 0, Nil, tags)
    /\ UNCHANGED <<phase, subs, projection, deleted>>

Delete(o) ==
    /\ W!Delete(Writer, o)
    /\ deleted' = deleted \cup {o}
    /\ UNCHANGED <<phase, subs, projection>>

Fire ==
    /\ W!Fire(Writer)
    /\ UNCHANGED <<phase, subs, projection, deleted>>

Connect(s) ==
    /\ phase[s] = "new"
    /\ phase' = [phase EXCEPT ![s] = "open"]
    /\ UNCHANGED <<world, subs, projection, deleted>>

Subscribe(s, tag) ==
    /\ phase[s] = "open"
    /\ subs' = [subs EXCEPT ![s] = @ \cup {tag}]
    /\ UNCHANGED <<world, phase, projection, deleted>>

Unsubscribe(s, tag) ==
    /\ phase[s] = "open"
    /\ subs' = [subs EXCEPT ![s] = @ \ {tag}]
    /\ UNCHANGED <<world, phase, projection, deleted>>

\* onDisconnect calls ForgetSession; nothing of the outbox is sent any more.
\* The manager still has the session: a tick may visit it once more.
Disconnect(s) ==
    /\ phase[s] = "open"
    /\ phase' = [phase EXCEPT ![s] = "leaving"]
    /\ seen' = [seen EXCEPT ![s] = NoVersions]
    /\ UNCHANGED <<world, subs, copy, visits, ticking, outbox, view, history>>

Remove(s) ==
    /\ phase[s] = "leaving"
    /\ phase' = [phase EXCEPT ![s] = "gone"]
    /\ UNCHANGED <<world, subs, projection, deleted>>

-----------------------------------------------------------------------------
(* A tick *)

\* p.world.List(nil)
TickStart ==
    /\ ~ticking
    /\ ticking' = TRUE
    /\ copy' = object
    /\ UNCHANGED <<world, phase, subs, seen, visits, outbox, view, history>>

\* manager.Each takes its snapshot.  A tick with nobody to visit is over.
TickSessions ==
    /\ ticking
    /\ visits = {}
    /\ LET present == {s \in Sessions : Present(s)}
       IN  /\ visits' = present
           /\ ticking' = (present # {})
    /\ UNCHANGED <<world, phase, subs, seen, copy, outbox, view, history>>

\* A variant: any other version is news.
DiffsByInequality(s) ==
    {o \in Objects : /\ copy[o].version > 0
                     /\ Matches(s, copy[o].tags)
                     /\ copy[o].version # seen[s][o]}

\* The objects a visit of session s sends.
Diffs(s) == {o \in Objects : /\ Matches(s, copy[o].tags)
                             /\ copy[o].version > seen[s][o]}

\* A variant: every version is remembered, sent or not.
RememberedAll(s, diffs) == [o \in Objects |-> copy[o].version]

Remembered(s, diffs) ==
    [o \in Objects |-> IF o \in diffs THEN copy[o].version ELSE seen[s][o]]

\* A variant: the buffer takes one message too many.
HasRoomForOneMore(s) == Len(outbox[s]) <= OutboxSize

HasRoom(s) == Len(outbox[s]) < OutboxSize

\* computeDiffs remembers the versions before Send is called; Send drops the
\* message in silence when the outbox is full, and does nothing for a session
\* that was closed.
Visit(s) ==
    /\ s \in visits
    /\ visits' = visits \ {s}
    /\ ticking' = (visits # {s})
    /\ LET diffs == Diffs(s)
       IN  /\ seen' = [seen EXCEPT ![s] = Remembered(s, diffs)]
           /\ IF diffs # {} /\ Present(s) /\ HasRoom(s)
               THEN /\ outbox' = [outbox EXCEPT ![s] =
                                   Append(@, [o \in diffs |-> copy[o].version])]
                    /\ UNCHANGED missed
               ELSE /\ missed' = [missed EXCEPT ![s] = @ \cup diffs]
                    /\ UNCHANGED outbox
    /\ UNCHANGED <<world, phase, subs, copy, view, deleted>>

-----------------------------------------------------------------------------
(* The way to the client *)

Deliver(s) ==
    /\ phase[s] = "open"
    /\ outbox[s] # <<>>
    /\ LET message == Head(outbox[s])
       IN  /\ view' = [view EXCEPT ![s] =
                         [o \in Objects |-> IF o \in DOMAIN message THEN message[o] ELSE @[o]]]
           /\ missed' = [missed EXCEPT ![s] =
                           @ \ {o \in DOMAIN message : message[o] = object[o].version}]
    /\ outbox' = [outbox EXCEPT ![s] = Tail(@)]
    /\ UNCHANGED <<world, phase, subs, seen, copy, visits, ticking, deleted>>

\* A datagram is lost.  That the network may also reorder datagrams is left to
\* the client: view is what it makes of the messages in the order of writing.
Lose(s) ==
    /\ s \in UDP
    /\ phase[s] = "open"
    /\ outbox[s] # <<>>
    /\ missed' = [missed EXCEPT ![s] = @ \cup DOMAIN Head(outbox[s])]
    /\ outbox' = [outbox EXCEPT ![s] = Tail(@)]
    /\ UNCHANGED <<world, phase, subs, seen, copy, visits, ticking, view, deleted>>

-----------------------------------------------------------------------------
Tick == TickStart \/ TickSessions \/ \E s \in Sessions : Visit(s)

Next ==
    \/ \E o \in Objects : Delete(o) \/ \E tags \in (SUBSET Tags) \cup {Nil} : Change(o, tags)
    \/ Fire
    \/ \E s \in Sessions :
          \/ Connect(s) \/ Disconnect(s) \/ Remove(s)
          \/ \E tag \in Tags \cup {Star} : Subscribe(s, tag) \/ Unsubscribe(s, tag)
          \/ Deliver(s) \/ Lose(s)
    \/ Tick

Spec == Init /\ [][Next]_vars

\* The ticker keeps ticking, and what is queued for a client is written to it.
Fairness ==
    /\ WF_vars(Tick)
    /\ \A s \in Sessions : WF_vars(Deliver(s))

FairSpec == Spec /\ Fairness

=============================================================================
