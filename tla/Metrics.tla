-------------------------------- MODULE Metrics --------------------------------
(***************************************************************************)
(* The metrics recorder (internal/metrics/metrics.go), as the dispatcher,  *)
(* the registry's lost handler and the TCP transport's callbacks call it   *)
(* (dispatcher.go:58-119, main.go:47-48, 87-92), over the task registry.   *)
(*                                                                         *)
(* Every session has a goroutine of its own.  The recorder is called after *)
(* the registry has let go of its lock, so that what it records of one     *)
(* task comes in an order of its own; the maps are locked, each by itself, *)
(* the numbers they hold are not: SessionStats.CurrentOwned is looked at,  *)
(* loaded and stored by steps of their own, on a pointer that outlives the *)
(* entry.  It is the counter modelled here; the others are incremented in  *)
(* the same way and never read by the program.                             *)
(***************************************************************************)
EXTENDS Naturals, FiniteSets

CONSTANTS
    Tasks, NoOwner, Watcher,
    Sessions,   \* session IDs, and the goroutines that serve them
    App,        \* the goroutine that registers tasks
    Width,      \* CurrentOwned is a number modulo 2^Width
    MaxClaims   \* bound: how many claims are begun

ASSUME MetricsAssumption ==
    /\ NoOwner \notin Sessions
    /\ Watcher \notin Sessions \cup {App}
    /\ App \notin Sessions
    /\ Width \in Nat \ {0} /\ MaxClaims \in Nat

VARIABLES
    task, notices, claim, watching, announced,  \* the task registry
    phase,      \* where each session is in its life
    totalClaims,    \* an atomic counter
    rec,        \* per goroutine: the call of the recorder it is in, if any
    entries,    \* the sessions that have a SessionStats in r.sessions
    owned,      \* its CurrentOwned, 0 without an entry
    inFlight,   \* per task: the owners in TaskStats.inFlight
    disturbed,  \* history: sessions that are there and whose CurrentOwned was spoilt
    stale,      \* history: <<session, task>> whose inFlight was spoilt
    haunted     \* history: sessions of which an eviction was still to be
                \* recorded by another goroutine when they left

registryVars == <<task, notices, claim, watching, announced>>
recorderVars == <<entries, owned, inFlight>>
historyVars  == <<disturbed, stale, haunted>>
vars == <<registryVars, phase, totalClaims, rec, recorderVars, historyVars>>

R == INSTANCE TaskRegistry WITH Owners <- Sessions, Callers <- Sessions \cup {App}

Threads == R!Threads

Phase  == {"new", "open", "leaving", "gone"}
Events == {"claimed", "released", "evicted", "completed", "rejected"}

\* Steps on CurrentOwned, with the pointer in hand.
OnEntry == {"check", "load", "store"}

Record == [event : Events, task : Tasks, owner : Sessions,
           step : {"flight"} \cup OnEntry, val : 0..(2^Width - 1)]

Init ==
    /\ R!Init
    /\ phase = [s \in Sessions |-> "new"]
    /\ totalClaims = 0
    /\ rec = [th \in Threads |-> {}]
    /\ entries = {}
    /\ owned = [s \in Sessions |-> 0]
    /\ inFlight = [t \in Tasks |-> {}]
    /\ disturbed = {}
    /\ stale = {}
    /\ haunted = {}

\* The goroutine calls the recorder.
Recorded(th, event, t, s) ==
    rec' = [rec EXCEPT ![th] =
              {[event |-> event, task |-> t, owner |-> s, step |-> "flight", val |-> 0]}]

Spoil(S) == disturbed' = disturbed \cup {s \in S : phase[s] # "gone"}

\* The goroutine is between two requests.
Free(th) == R!Idle(th) /\ rec[th] = {}

\* It is about to handle a request of its session.
Serving(s) == phase[s] = "open" /\ Free(s)

-----------------------------------------------------------------------------
(* The callers *)

Connect(s) ==
    /\ phase[s] = "new"
    /\ phase' = [phase EXCEPT ![s] = "open"]
    /\ entries' = entries \cup {s}
    /\ UNCHANGED <<registryVars, totalClaims, rec, owned, inFlight, historyVars>>

Register(t) ==
    /\ Free(App)
    /\ R!Register(App, t)
    /\ UNCHANGED <<phase, totalClaims, rec, recorderVars, historyVars>>

Claimed(s, t) ==
    /\ totalClaims' = totalClaims + 1
    /\ Recorded(s, "claimed", t, s)

\* handleAcquire: TaskClaimed is called once Acquire has returned.
Acquire(s, t) ==
    /\ Serving(s)
    /\ totalClaims < MaxClaims
    /\ \/ R!AcquireFree(s, t, s) /\ Claimed(s, t)
       \/ R!AcquireExpired(s, t, s) /\ UNCHANGED <<totalClaims, rec>>
    /\ UNCHANGED <<phase, recorderVars, historyVars>>

\* The second critical section of Acquire.  That another session loses the
\* task by it, is recorded nowhere.
Resume(s, t) ==
    /\ rec[s] = {}
    /\ R!AcquireResume(s, t, s)
    /\ Claimed(s, t)
    /\ LET robbed == {task[t].owner} \ {s, NoOwner}
       IN  /\ Spoil(robbed)
           /\ stale' = stale \cup {<<o, t>> : o \in robbed}
    /\ UNCHANGED <<phase, recorderVars, haunted>>

\* handleRelease: TaskReleased is called once Release has returned.
Release(s, t) ==
    /\ Serving(s)
    /\ R!Release(s, t, s)
    /\ Recorded(s, "released", t, s)
    /\ UNCHANGED <<phase, totalClaims, recorderVars, historyVars>>

\* handleSubmit: anybody's result may be rejected, of a task that is not
\* there too, an owner's completed.
Submit(s, t) ==
    /\ Serving(s)
    /\ \/ Recorded(s, "rejected", t, s)
       \/ task[t].owner = s /\ Recorded(s, "completed", t, s)
    /\ UNCHANGED <<registryVars, phase, totalClaims, recorderVars, historyVars>>

\* onDisconnect: ReleaseAll ...
Disconnect(s) ==
    /\ Serving(s)
    /\ R!ReleaseAll(s, s)
    /\ phase' = [phase EXCEPT ![s] = "leaving"]
    /\ UNCHANGED <<totalClaims, rec, recorderVars, historyVars>>

\* An eviction of s that th has still to record in the session's entry.
Owed(th, s) ==
    \/ \E n \in notices[th] : n.owner = s /\ "lost" \in n.left
    \/ \E r \in rec[th] : r.owner = s /\ r.step = "flight"

\* Deletes the entry.  What goroutines still do to it by its pointer, is lost.
DeleteEntry(s) ==
    /\ entries' = entries \ {s}
    /\ owned' = [owned EXCEPT ![s] = 0]
    /\ rec' = [th \in Threads |-> {r \in rec[th] : r.owner # s \/ r.step \notin OnEntry}]
    /\ disturbed' = disturbed \ {s}
    /\ haunted' = IF \E th \in Threads \ {s} : Owed(th, s)
                    THEN haunted \cup {s} ELSE haunted

\* A variant: SessionDisconnected does not wait for the handlers of ReleaseAll.
ForgetEarly(s) ==
    /\ phase[s] = "leaving"
    /\ DeleteEntry(s)
    /\ phase' = [phase EXCEPT ![s] = "gone"]
    /\ UNCHANGED <<registryVars, totalClaims, inFlight, stale>>

\* ... and SessionDisconnected.
Forget(s) ==
    /\ phase[s] = "leaving"
    /\ Free(s)
    /\ DeleteEntry(s)
    /\ phase' = [phase EXCEPT ![s] = "gone"]
    /\ UNCHANGED <<registryVars, totalClaims, inFlight, stale>>

\* A variant: only what the watcher evicts is recorded.
FireByWatcherOnly(th, n) ==
    /\ rec[th] = {} \/ \E r \in rec[th] : r.event = "released"
    /\ R!Fire(th, n)
    /\ IF R!NextKind(n) = "lost" /\ th = Watcher
         THEN Recorded(th, "evicted", n.task, n.owner) ELSE UNCHANGED rec
    /\ UNCHANGED <<phase, totalClaims, recorderVars, historyVars>>

\* The lost handler calls TaskEvicted.
Fire(th, n) ==
    /\ rec[th] = {} \/ \E r \in rec[th] : r.event = "released"
    /\ R!Fire(th, n)
    /\ IF R!NextKind(n) = "lost"
         THEN Recorded(th, "evicted", n.task, n.owner) ELSE UNCHANGED rec
    /\ UNCHANGED <<phase, totalClaims, recorderVars, historyVars>>

Watch ==
    /\ Free(Watcher)
    /\ R!EvictExpired
    /\ UNCHANGED <<phase, totalClaims, rec, recorderVars, historyVars>>

LeaseRunsOut(t) ==
    /\ R!LeaseRunsOut(t)
    /\ UNCHANGED <<phase, totalClaims, rec, recorderVars, historyVars>>

-----------------------------------------------------------------------------
(* The recorder *)

\* The next step of the call th is in, or its end.
Go(th, r, step, val) == rec' = [rec EXCEPT ![th] = {[r EXCEPT !.step = step, !.val = val]}]
Done(th) == rec' = [rec EXCEPT ![th] = {}]

\* A claim of the same that its goroutine has not yet put into inFlight.
LateClaim(r) ==
    \E q \in rec[r.owner] : q.event = "claimed" /\ q.task = r.task /\ q.step = "flight"

\* The calls of the goroutines in S that have the stats of s in hand.
UsingEntry(s, S) ==
    {r \in UNION {rec[th] : th \in S} : r.owner = s /\ r.step \in OnEntry}

\* A variant: the SessionStats that was made is not put into the map.
FlightWithoutEntry(th) ==
    \E r \in rec[th] :
        /\ r.step = "flight"
        /\ r.event = "released" => notices[th] = {}
        /\ inFlight' = [inFlight EXCEPT ![r.task] =
                          IF r.event = "claimed" THEN @ \cup {r.owner} ELSE @ \ {r.owner}]
        /\ stale' = IF r.event = "evicted" /\ LateClaim(r)
                      THEN stale \cup {<<r.owner, r.task>>} ELSE stale
        /\ CASE r.event = "claimed"                 -> Go(th, r, "load", 0)
             [] r.event \in {"released", "evicted"} -> Go(th, r, "check", 0)
             [] OTHER                               -> Done(th)
        /\ Spoil({q.owner : q \in UsingEntry(r.owner, Threads \ {th})})
        /\ UNCHANGED <<registryVars, phase, totalClaims, entries, owned, haunted>>

\* A variant: only TaskReleased and TaskCompleted clear inFlight.
FlightNotEvicted(th) ==
    \E r \in rec[th] :
        /\ r.step = "flight"
        /\ r.event = "released" => notices[th] = {}
        /\ inFlight' = [inFlight EXCEPT ![r.task] =
                          IF r.event = "claimed" THEN @ \cup {r.owner}
                          ELSE IF r.event = "evicted" THEN @ ELSE @ \ {r.owner}]
        /\ stale' = IF r.event = "evicted" /\ LateClaim(r)
                      THEN stale \cup {<<r.owner, r.task>>} ELSE stale
        /\ entries' = entries \cup {r.owner}
        /\ CASE r.event = "claimed"                 -> Go(th, r, "load", 0)
             [] r.event \in {"released", "evicted"} -> Go(th, r, "check", 0)
             [] OTHER                               -> Done(th)
        /\ Spoil({q.owner : q \in UsingEntry(r.owner, Threads \ {th})})
        /\ UNCHANGED <<registryVars, phase, totalClaims, owned, haunted>>

\* The start and the duration of the work go by inFlight, with its lock held;
\* then getOrCreateSession, with r.sessionsMu held.
Flight(th) ==
    \E r \in rec[th] :
        /\ r.step = "flight"
        /\ r.event = "released" => notices[th] = {}
        /\ inFlight' = [inFlight EXCEPT ![r.task] =
                          IF r.event = "claimed" THEN @ \cup {r.owner} ELSE @ \ {r.owner}]
        /\ stale' = IF r.event = "evicted" /\ LateClaim(r)
                      THEN stale \cup {<<r.owner, r.task>>} ELSE stale
        /\ entries' = entries \cup {r.owner}
        /\ CASE r.event = "claimed"                 -> Go(th, r, "load", 0)
             [] r.event \in {"released", "evicted"} -> Go(th, r, "check", 0)
             [] OTHER                               -> Done(th)
        /\ Spoil({q.owner : q \in UsingEntry(r.owner, Threads \ {th})})
        /\ UNCHANGED <<registryVars, phase, totalClaims, owned, haunted>>

\* The test that keeps CurrentOwned from going below zero.
Check(th) ==
    \E r \in rec[th] :
        /\ r.step = "check"
        /\ IF owned[r.owner] > 0
             THEN Go(th, r, "load", 0) /\ UNCHANGED disturbed
             ELSE Done(th) /\ Spoil({r.owner})
        /\ UNCHANGED <<registryVars, phase, totalClaims, recorderVars, stale, haunted>>

Load(th) ==
    \E r \in rec[th] :
        /\ r.step = "load"
        /\ Go(th, r, "store", owned[r.owner])
        /\ UNCHANGED <<registryVars, phase, totalClaims, recorderVars, historyVars>>

Store(th) ==
    \E r \in rec[th] :
        /\ r.step = "store"
        /\ owned' = [owned EXCEPT ![r.owner] =
                       IF r.event = "claimed" THEN (r.val + 1) % 2^Width
                                              ELSE (r.val + 2^Width - 1) % 2^Width]
        /\ Done(th)
        /\ UNCHANGED <<registryVars, phase, totalClaims, entries, inFlight, historyVars>>

-----------------------------------------------------------------------------
Next ==
    \/ \E s \in Sessions : Connect(s) \/ Disconnect(s) \/ Forget(s)
    \/ \E s \in Sessions, t \in Tasks :
          Acquire(s, t) \/ Resume(s, t) \/ Release(s, t) \/ Submit(s, t)
    \/ \E t \in Tasks : Register(t) \/ LeaseRunsOut(t)
    \/ Watch
    \/ \E th \in Threads :
          \/ \E n \in notices[th] : Fire(th, n)
          \/ Flight(th) \/ Check(th) \/ Load(th) \/ Store(th)

Spec == Init /\ [][Next]_vars

=============================================================================
