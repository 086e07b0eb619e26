--------------------------------- MODULE World ---------------------------------
(***************************************************************************)
(* The versioned world of internal/world/world.go.                         *)
(*                                                                         *)
(* Apply and Delete do their work under w.mu and fire the change event     *)
(* after w.mu.Unlock(): event[th] is the event goroutine th still has to   *)
(* hand to the handlers.  Meta is kept, replaced and copied exactly as     *)
(* Data is, and left out.                                                  *)
(***************************************************************************)
EXTENDS Naturals

CONSTANTS
    Objects,    \* object IDs
    Data, Tags, \* what an update may carry
    Nil,        \* the nil slice: "keep what is there"
    Writers,    \* goroutines that call Apply and Delete
    MaxVersion  \* bound on the versions

VARIABLES
    object,     \* w.objects; version 0 when there is no such object
    event       \* per goroutine: the change event it has to fire, if any

worldVars == <<object, event>>

Object == [version : 0..MaxVersion,
           data    : Data \cup {Nil},
           tags    : (SUBSET Tags) \cup {Nil}]

Absent == [version |-> 0, data |-> Nil, tags |-> Nil]

\* A deletion's event carries the deleted object, with its version.
Event == [kind : {"created", "updated", "deleted"}, id : Objects, object : Object]

Exists(o) == object[o].version > 0

Init ==
    /\ object = [o \in Objects |-> Absent]
    /\ event = [th \in Writers |-> {}]

-----------------------------------------------------------------------------
\* A variant: only a version the object has not reached is refused.
AdmittedUnlessAhead(o, expected) == expected = 0 \/ object[o].version >= expected

\* ExpectedVersion 0 admits any state of the object, none included.
Admitted(o, expected) == expected = 0 \/ object[o].version = expected

Given(new, old) == IF new = Nil THEN old ELSE new

\* A variant: an update that leaves the tags alone keeps the version.
ApplyKeepingVersion(th, o, expected, data, tags) ==
    LET old == object[o]
        new == [version |-> IF old.version > 0 /\ tags = Nil
                              THEN old.version ELSE old.version + 1,
                data    |-> Given(data, old.data),
                tags    |-> Given(tags, old.tags)]
    IN  /\ event[th] = {}
        /\ Admitted(o, expected)
        /\ old.version < MaxVersion
        /\ object' = [object EXCEPT ![o] = new]
        /\ event' = [event EXCEPT ![th] =
                       {[kind |-> IF Exists(o) THEN "updated" ELSE "created",
                         id |-> o, object |-> new]}]

Apply(th, o, expected, data, tags) ==
    LET old == object[o]
        new == [version |-> old.version + 1,
                data    |-> Given(data, old.data),
                tags    |-> Given(tags, old.tags)]
    IN  /\ event[th] = {}
        /\ Admitted(o, expected)
        /\ old.version < MaxVersion
        /\ object' = [object EXCEPT ![o] = new]
        /\ event' = [event EXCEPT ![th] =
                       {[kind |-> IF Exists(o) THEN "updated" ELSE "created",
                         id |-> o, object |-> new]}]

\* ErrObjectNotFound or ErrVersionConflict.
Refuse(th, o, expected) ==
    /\ event[th] = {}
    /\ ~Admitted(o, expected)
    /\ UNCHANGED worldVars

\* A variant: the event carries no content.
DeleteOfAbsent(th, o) ==
    /\ event[th] = {}
    /\ Exists(o)
    /\ object' = [object EXCEPT ![o] = Absent]
    /\ event' = [event EXCEPT ![th] =
                   {[kind |-> "deleted", id |-> o, object |-> Absent]}]

Delete(th, o) ==
    /\ event[th] = {}
    /\ Exists(o)
    /\ object' = [object EXCEPT ![o] = Absent]
    /\ event' = [event EXCEPT ![th] =
                   {[kind |-> "deleted", id |-> o, object |-> object[o]]}]

\* The handlers return.
Fire(th) ==
    /\ event[th] # {}
    /\ event' = [event EXCEPT ![th] = {}]
    /\ UNCHANGED object

=============================================================================
