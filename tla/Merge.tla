--------------------------------- MODULE Merge ---------------------------------
(***************************************************************************)
(* Results that are merged into the world concurrently: merge.go's Submit, *)
(* called by the dispatcher once per result, over World.                   *)
(*                                                                         *)
(* The merge function is the application's.  This one reads the world and  *)
(* decides on one update per object it looked at, which adds the result to *)
(* what it read; it names the version it read, or none at all.  An         *)
(* object's data is thus the set of the results it incorporates.           *)
(***************************************************************************)
EXTENDS Naturals

CONSTANTS
    Objects, Nil, Writers, MaxVersion,
    Results         \* results that clients submit, each at most once

ASSUME MergeAssumption ==
    /\ Nil \notin Results
    /\ \A S \in SUBSET Results : Nil # S
    /\ MaxVersion \in Nat

VARIABLES
    object, event,  \* the world
    result,         \* per goroutine: the result it is merging, or Nil
    decided,        \* the updates Submit still has to apply
    accepted,       \* results acknowledged with result_accepted
    merged,         \* results of which an update was applied
    built,          \* history: per object, the results that went into it since
                    \* it was last created, deleted or overwritten blindly
    heard           \* history: the change events the handlers were given

world == <<object, event>>
vars == <<world, result, decided, accepted, merged, built, heard>>

W == INSTANCE World WITH Data <- SUBSET Results, Tags <- {}

Update == [id : Objects, expected : 0..MaxVersion, data : SUBSET Results]

Init ==
    /\ W!Init
    /\ result = [th \in Writers |-> Nil]
    /\ decided = [th \in Writers |-> {}]
    /\ accepted = {}
    /\ merged = {}
    /\ built = [o \in Objects |-> {}]
    /\ heard = {}

Known(o) == IF W!Exists(o) THEN object[o].data ELSE {}

\* The merge function accepts result r: it reads the objects of S and decides
\* on an update of each.  A version can be named only of an object that exists.
\* A result it rejects changes nothing.
Decide(th, r, S, conditional) ==
    /\ result[th] = Nil
    /\ r \notin merged \cup accepted
    /\ \A other \in Writers : result[other] # r
    /\ conditional => \A o \in S : W!Exists(o)
    /\ result' = [result EXCEPT ![th] = r]
    /\ decided' = [decided EXCEPT ![th] =
                     {[id |-> o,
                       expected |-> IF conditional THEN object[o].version ELSE 0,
                       data |-> Known(o) \cup {r}] : o \in S}]
    /\ UNCHANGED <<world, accepted, merged, built, heard>>

\* One round of Submit's loop; the merge function chose the order.
ApplyOne(th, u) ==
    /\ u \in decided[th]
    /\ W!Apply(th, u.id, u.expected, u.data, Nil)
    /\ decided' = [decided EXCEPT ![th] = @ \ {u}]
    /\ merged' = merged \cup {result[th]}
    /\ built' = [built EXCEPT ![u.id] = IF u.expected = 0 THEN u.data
                                                         ELSE @ \cup {result[th]}]
    /\ UNCHANGED <<result, accepted, heard>>

\* An update that is refused is recorded, and the loop goes on.
SkipRefused(th, u) ==
    /\ u \in decided[th]
    /\ W!Refuse(th, u.id, u.expected)
    /\ decided' = [decided EXCEPT ![th] = @ \ {u}]
    /\ UNCHANGED <<result, accepted, merged, built, heard>>

\* A variant: not tied to a submission.
AcceptAnything(th) ==
    /\ decided[th] = {}
    /\ event[th] = {}
    /\ accepted' = accepted \cup {result[th]}
    /\ result' = [result EXCEPT ![th] = Nil]
    /\ UNCHANGED <<world, decided, merged, built, heard>>

\* Submit returns Accepted, whatever became of the updates, and the dispatcher
\* acknowledges the result.
Accept(th) ==
    /\ result[th] # Nil
    /\ decided[th] = {}
    /\ event[th] = {}
    /\ accepted' = accepted \cup {result[th]}
    /\ result' = [result EXCEPT ![th] = Nil]
    /\ UNCHANGED <<world, decided, merged, built, heard>>

Delete(th, o) ==
    /\ result[th] = Nil
    /\ W!Delete(th, o)
    /\ built' = [built EXCEPT ![o] = {}]
    /\ UNCHANGED <<result, decided, accepted, merged, heard>>

Fire(th) ==
    /\ W!Fire(th)
    /\ heard' = heard \cup event[th]
    /\ UNCHANGED <<result, decided, accepted, merged, built>>

Next ==
    \E th \in Writers :
       \/ \E r \in Results, S \in (SUBSET Objects) \ {{}}, conditional \in BOOLEAN :
             Decide(th, r, S, conditional)
       \/ \E u \in decided[th] : ApplyOne(th, u) \/ SkipRefused(th, u)
       \/ Accept(th)
       \/ \E o \in Objects : Delete(th, o)
       \/ Fire(th)

Spec == Init /\ [][Next]_vars

=============================================================================
