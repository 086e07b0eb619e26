----------------------------- MODULE TaskRegistry -----------------------------
(***************************************************************************)
(* The task registry of internal/task/task.go: tasks, their owners and     *)
(* their leases, shared by goroutines that call its methods concurrently.  *)
(*                                                                         *)
(* Every method does its work under r.mu and fires its events (ownership   *)
(* lost, task available) after r.mu.Unlock().  A critical section is one   *)
(* step here; the events it still has to fire are the thread's notices,    *)
(* handed to the handlers one at a time by later steps.  Acquire of a task *)
(* whose lease ran out has two critical sections with the handlers called  *)
(* in between: the second one is claim[th].                                *)
(*                                                                         *)
(* Time is abstract: a lease is "zero" (LeaseUntil.IsZero()), "live" or    *)
(* "expired" (time.Now() is after LeaseUntil), and any live lease may run  *)
(* out at any moment, because LeaseOptions.Duration is the caller's.       *)
(***************************************************************************)
EXTENDS Naturals

CONSTANTS
    Tasks,      \* task IDs the application may register
    Owners,     \* owner IDs (session IDs in server mode)
    Callers,    \* goroutines that call the registry's methods
    Watcher,    \* the goroutine of leaseWatcher
    NoOwner     \* the empty OwnerID

ASSUME RegistryAssumption == NoOwner \notin Owners /\ Watcher \notin Callers

VARIABLES
    task,       \* r.tasks, "absent" when the ID is not registered
    notices,    \* per thread: events still to be fired, outside the lock
    claim,      \* per thread: the Acquire that will take r.mu a second time
    watching,   \* leaseWatcher has not returned
    announced   \* history: tasks whose AvailableEvent was fired since they
                \* last became available

vars == <<task, notices, claim, watching, announced>>

Threads == Callers \cup {Watcher}

-----------------------------------------------------------------------------
(* Data *)

Kinds == {"lost", "available"}

Task == [status : {"absent", "available", "owned", "completed"},
         owner  : Owners \cup {NoOwner},
         lease  : {"zero", "live", "expired"}]

\* The events of one task that a call has to fire: those left of the script
\* its reason calls for.
Notice == [task   : Tasks,
           owner  : Owners \cup {NoOwner},
           reason : {"registered", "released", "lease_expired", "disconnected"},
           left   : (SUBSET Kinds) \ {{}}]

Free(status) == [status |-> status, owner |-> NoOwner, lease |-> "zero"]

\* A variant: the caller's zero duration is not replaced by the default.
OwnedForever(o) == [status |-> "owned", owner |-> o, lease |-> "zero"]

OwnedBy(o) == [status |-> "owned", owner |-> o, lease |-> "live"]

Expired(t) == task[t].status = "owned" /\ task[t].lease = "expired"

OwnedTasks(o) == {t \in Tasks : task[t].status = "owned" /\ task[t].owner = o}

\* ReleaseAll calls the available handlers first, the eviction paths the
\* lost handlers first.
NextKind(n) == IF n.left = Kinds
                 THEN IF n.reason = "disconnected" THEN "available" ELSE "lost"
                 ELSE CHOOSE k \in Kinds : k \in n.left

\* The loop over the affected tasks finishes one task before the next.
MayFire(th, n) ==
    /\ n \in notices[th]
    /\ (\E m \in notices[th] : m.left # Kinds) => n.left # Kinds

-----------------------------------------------------------------------------
(* Pieces of the critical sections *)

Idle(th) == notices[th] = {} /\ claim[th] = {}

\* A variant: the tasks get a status of their own instead of "available".
MakeAvailableAsExpired(th, S, reason, kinds) ==
    /\ task' = [t \in Tasks |-> IF t \in S THEN Free("expired") ELSE task[t]]
    /\ notices' = [notices EXCEPT ![th] =
                     {[task |-> t, owner |-> task[t].owner,
                       reason |-> reason, left |-> kinds] : t \in S}]
    /\ announced' = announced \ S

\* The tasks of S become available; the thread owes the events of each.
MakeAvailable(th, S, reason, kinds) ==
    /\ task' = [t \in Tasks |-> IF t \in S THEN Free("available") ELSE task[t]]
    /\ notices' = [notices EXCEPT ![th] =
                     {[task |-> t, owner |-> task[t].owner,
                       reason |-> reason, left |-> kinds] : t \in S}]
    /\ announced' = announced \ S

Grant(t, o) ==
    /\ task' = [task EXCEPT ![t] = OwnedBy(o)]
    /\ announced' = announced \ {t}

-----------------------------------------------------------------------------
(* The methods *)

Init ==
    /\ task = [t \in Tasks |-> Free("absent")]
    /\ notices = [th \in Threads |-> {}]
    /\ claim = [th \in Threads |-> {}]
    /\ watching = TRUE
    /\ announced = {}

Register(th, t) ==
    /\ Idle(th)
    /\ task[t].status = "absent"
    /\ MakeAvailable(th, {t}, "registered", {"available"})
    /\ UNCHANGED <<claim, watching>>

\* Acquire of a task that is not owned.  The code tests only for
\* StatusOwned, so a completed task is granted too.
AcquireFree(th, t, o) ==
    /\ Idle(th)
    /\ task[t].status \in {"available", "completed"}
    /\ Grant(t, o)
    /\ UNCHANGED <<notices, claim, watching>>

\* Acquire of a task whose lease ran out: first critical section.
AcquireExpired(th, t, o) ==
    /\ Idle(th)
    /\ Expired(t)
    /\ MakeAvailable(th, {t}, "lease_expired", Kinds)
    /\ claim' = [claim EXCEPT ![th] = {<<t, o>>}]
    /\ UNCHANGED watching

\* Second critical section, once the handlers have returned: the task is
\* granted without a look at what became of it in the meantime.
AcquireResume(th, t, o) ==
    /\ notices[th] = {}
    /\ <<t, o>> \in claim[th]
    /\ Grant(t, o)
    /\ claim' = [claim EXCEPT ![th] = {}]
    /\ UNCHANGED <<notices, watching>>

\* A variant: the event of the release is forgotten.
ReleaseInSilence(th, t, o) ==
    /\ Idle(th)
    /\ task[t].status # "absent"
    /\ task[t].owner = o
    /\ task' = [task EXCEPT ![t] = Free("available")]
    /\ announced' = announced \ {t}
    /\ UNCHANGED <<notices, claim, watching>>

Release(th, t, o) ==
    /\ Idle(th)
    /\ task[t].status # "absent"
    /\ task[t].owner = o
    /\ MakeAvailable(th, {t}, "released", {"available"})
    /\ UNCHANGED <<claim, watching>>

ReleaseAll(th, o) ==
    /\ Idle(th)
    /\ MakeAvailable(th, OwnedTasks(o), "disconnected", Kinds)
    /\ UNCHANGED <<claim, watching>>

\* A variant: the OwnerID stays behind.
MarkCompletedKeepingOwner(th, t, o) ==
    /\ Idle(th)
    /\ task[t].status # "absent"
    /\ task[t].owner = o
    /\ task' = [task EXCEPT ![t].status = "completed", ![t].lease = "zero"]
    /\ UNCHANGED <<notices, claim, announced, watching>>

MarkCompleted(th, t, o) ==
    /\ Idle(th)
    /\ task[t].status # "absent"
    /\ task[t].owner = o
    /\ task' = [task EXCEPT ![t] = Free("completed")]
    /\ UNCHANGED <<notices, claim, announced, watching>>

\* Two variants of the watcher's tick: without the test of the lease, and
\* without the call of fireAvailable.
EvictOwned ==
    /\ watching
    /\ Idle(Watcher)
    /\ MakeAvailable(Watcher, {t \in Tasks : task[t].status = "owned"},
                     "lease_expired", Kinds)
    /\ UNCHANGED <<claim, watching>>

EvictExpiredInSilence ==
    /\ watching
    /\ Idle(Watcher)
    /\ MakeAvailable(Watcher, {t \in Tasks : Expired(t)}, "lease_expired", {"lost"})
    /\ UNCHANGED <<claim, watching>>

\* One tick of leaseWatcher.
EvictExpired ==
    /\ watching
    /\ Idle(Watcher)
    /\ MakeAvailable(Watcher, {t \in Tasks : Expired(t)}, "lease_expired", Kinds)
    /\ UNCHANGED <<claim, watching>>

\* One handler call: the next event of notice n is handed over.
Fire(th, n) ==
    /\ MayFire(th, n)
    /\ LET k    == NextKind(n)
           rest == [n EXCEPT !.left = @ \ {k}]
       IN  /\ notices' = [notices EXCEPT ![th] =
                            (@ \ {n}) \cup (IF rest.left = {} THEN {} ELSE {rest})]
           /\ announced' = IF k = "available" THEN announced \cup {n.task}
                                              ELSE announced
    /\ UNCHANGED <<task, claim, watching>>

\* Close closes r.done; the watcher returns when it sees it, between two
\* ticks.  Nothing else depends on r.closed, so the two are one step.
Close ==
    /\ watching
    /\ Idle(Watcher)
    /\ watching' = FALSE
    /\ UNCHANGED <<task, notices, claim, announced>>

LeaseRunsOut(t) ==
    /\ task[t].lease = "live"
    /\ task' = [task EXCEPT ![t].lease = "expired"]
    /\ UNCHANGED <<notices, claim, announced, watching>>

-----------------------------------------------------------------------------
Call(th) ==
    \/ \E t \in Tasks : Register(th, t)
    \/ \E t \in Tasks, o \in Owners :
          \/ AcquireFree(th, t, o)
          \/ AcquireExpired(th, t, o)
          \/ Release(th, t, o)
          \/ MarkCompleted(th, t, o)
    \/ \E o \in Owners : ReleaseAll(th, o)

\* What a thread does once it is inside a call.
Proceed(th) ==
    \/ \E n \in notices[th] : Fire(th, n)
    \/ \E t \in Tasks, o \in Owners : AcquireResume(th, t, o)

Next ==
    \/ \E th \in Callers : Call(th)
    \/ \E th \in Threads : Proceed(th)
    \/ EvictExpired
    \/ Close
    \/ \E t \in Tasks : LeaseRunsOut(t)

Spec == Init /\ [][Next]_vars

\* A goroutine that is inside a call is eventually scheduled, handlers return,
\* and the ticker of leaseWatcher keeps ticking.  Nothing makes a caller call.
Fairness ==
    /\ \A th \in Threads : WF_vars(Proceed(th))
    /\ WF_vars(EvictExpired)

FairSpec == Spec /\ Fairness

=============================================================================
