---------------------------- MODULE ProjectorProps ----------------------------
(***************************************************************************)
(* The properties of the projection.                                       *)
(***************************************************************************)
EXTENDS Projector

\* The projector's and the sessions' data keep their types, and no outbox
\* holds more than its buffer.
TypeOK ==
    /\ object \in [Objects -> W!Object]
    /\ event \in [{Writer} -> SUBSET W!Event]
    /\ phase \in [Sessions -> {"new", "open", "leaving", "gone"}]
    /\ subs \in [Sessions -> SUBSET (Tags \cup {Star})]
    /\ seen \in [Sessions -> Versions]
    /\ copy \in [Objects -> W!Object]
    /\ visits \in SUBSET Sessions
    /\ ticking \in BOOLEAN
    /\ outbox \in [Sessions -> Seq(Message)]
    /\ \A s \in Sessions : Len(outbox[s]) <= OutboxSize
    /\ view \in [Sessions -> Versions]
    /\ missed \in [Sessions -> SUBSET Objects]
    /\ deleted \in SUBSET Objects

\* The messages to a client never take an object back to an earlier version,
\* though a tick works on a copy of the world that may be stale, and whatever tag
\* changes, deletions, full outboxes and losses come in between (projector.go:74,
\* 117).
NeverBackwards ==
    [][\A s \in Sessions, o \in Objects : view'[s][o] >= view[s][o]]_vars

\* README.md:7: the backend "distributes synchronized updates back to
\* participants".  A client that stays subscribed to an object ends up with the
\* version the world has, however its subscriptions, the changes and the ticks
\* interleave, with two exceptions.  The projector counts a version as sent before
\* the session takes the message (projector.go:124, session.go:94): when the outbox
\* drops it, or the network loses the datagram, the client has an old version
\* until it is sent the next one.  And the versions of an object that was deleted
\* start anew, below those the projector remembers (projector.go:117).
SubscribersCatchUp ==
    \A s \in Sessions, o \in Objects :
        phase[s] = "open" /\ Matches(s, object[o].tags) /\ W!Exists(o)
        ~> \/ view[s][o] = object[o].version
           \/ phase[s] # "open"
           \/ ~Matches(s, object[o].tags)
           \/ o \in missed[s] \cup deleted

=============================================================================
