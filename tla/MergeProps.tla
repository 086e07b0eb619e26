------------------------------ MODULE MergeProps ------------------------------
(***************************************************************************)
(* The properties of merging results into the world.                       *)
(***************************************************************************)
EXTENDS Merge

\* The data of the world and of Submit keep their types.
TypeOK ==
    /\ object \in [Objects -> W!Object]
    /\ event \in [Writers -> SUBSET W!Event]
    /\ result \in [Writers -> Results \cup {Nil}]
    /\ decided \in [Writers -> SUBSET Update]
    /\ accepted \in SUBSET Results
    /\ merged \in SUBSET Results
    /\ built \in [Objects -> SUBSET Results]
    /\ heard \in SUBSET W!Event

Told == heard \cup UNION {event[th] : th \in Writers}

\* Nobody has deleted the object so far.
NeverDeleted(o) == \A e \in Told : e.kind = "deleted" => e.id # o

\* No lost update: a result that was merged under the version it was computed
\* from stays in the object, however many merges run at once, until an update
\* that names no version overwrites it.  Only objects that were never deleted
\* keep this promise.
NoUpdateIsLost ==
    \A o \in Objects : NeverDeleted(o) => built[o] \subseteq Known(o)

\* The change events tell the history of an object: the handlers hear of every
\* version, in some order, and, until the object is deleted, never of two
\* contents under one version.  Peer mode replicates objects from these events
\* alone (peer.go:36-48) and tells contents apart by their version.
EventsTellTheHistory ==
    /\ \A o \in Objects : \A v \in 1..object[o].version :
          \E e \in Told : e.id = o /\ e.object.version = v
    /\ \A e, f \in Told :
          /\ e.id = f.id
          /\ e.object.version = f.object.version
          /\ NeverDeleted(e.id)
          => e.object = f.object

(* What makes the two inductive. *)

ContentsOK ==
    /\ \A o \in Objects : W!Exists(o) => object[o].data \in SUBSET Results
    /\ \A th \in Writers : decided[th] # {} => result[th] \in Results

\* An update that names the version an object still has adds to what is there;
\* a version, once left, comes back only by a deletion.
DecidedFits ==
    \A th \in Writers : \A u \in decided[th] :
       /\ result[th] \in u.data
       /\ NeverDeleted(u.id) =>
             /\ u.expected <= object[u.id].version
             /\ u.expected > 0 /\ u.expected = object[u.id].version
                  => Known(u.id) \subseteq u.data

\* No event is ahead of an object never deleted, and the latest has its content.
EventsAreCurrent ==
    \A e \in Told :
       NeverDeleted(e.id) =>
          /\ e.object.version \in 1..object[e.id].version
          /\ e.object.version = object[e.id].version => e.object = object[e.id]

MergeInv ==
    /\ TypeOK /\ ContentsOK /\ DecidedFits /\ NoUpdateIsLost
    /\ EventsAreCurrent /\ EventsTellTheHistory

\* Deletions tell the end of an object: whoever follows the change events, in
\* whatever order they come, finds a deletion of every object that is gone,
\* naming a content the object was last known to have, and finds the content of
\* every object that is there.
EndsAreTold ==
    /\ \A o \in Objects :
          W!Exists(o) => \E e \in Told : /\ e.kind # "deleted"
                                         /\ e.id = o /\ e.object = object[o]
    /\ \A e \in Told :
          ~W!Exists(e.id) => \E d \in Told : /\ d.kind = "deleted" /\ d.id = e.id
                                             /\ d.object.version >= e.object.version
    /\ \A d \in Told :
          d.kind = "deleted" => \E e \in Told : /\ e.kind # "deleted"
                                                /\ e.id = d.id /\ e.object = d.object

=============================================================================
