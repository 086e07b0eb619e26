-------------------------- MODULE TaskRegistryProps --------------------------
(***************************************************************************)
(* The properties of the task registry, and the refinement of TaskLease.   *)
(***************************************************************************)
EXTENDS TaskRegistry

\* The registry's data keep their types.
TypeOK ==
    /\ task \in [Tasks -> Task]
    /\ notices \in [Threads -> SUBSET Notice]
    /\ claim \in [Threads -> SUBSET (Tasks \X Owners)]
    /\ watching \in BOOLEAN
    /\ announced \in SUBSET Tasks

\* OwnerID, Status and LeaseUntil never disagree.  Release and MarkCompleted
\* compare only the OwnerID and the eviction paths only Status and LeaseUntil
\* (task.go:159-160, 209, 269, 303): a field left behind by one method would
\* let another one release, complete or evict a task that is not owned.
OwnershipCoherent ==
    \A t \in Tasks :
        /\ task[t].owner # NoOwner <=> task[t].status = "owned"
        /\ task[t].lease # "zero"  <=> task[t].status = "owned"

\* No task becomes available in silence: its task_available event was fired
\* since it last became available, or some thread is still about to fire it.
\* Clients learn of available tasks from these events alone once they have
\* subscribed, so a silent one would never be worked on.
AvailableIsAnnounced ==
    \A t \in Tasks :
        task[t].status = "available" =>
            \/ t \in announced
            \/ \E th \in Threads : \E n \in notices[th] :
                   n.task = t /\ "available" \in n.left

-----------------------------------------------------------------------------
(* Refinement *)

owedNow == UNION {{<<th, n.owner, n.task>> :
                     n \in {m \in notices[th] : "lost" \in m.left}} :
                  th \in Threads}

claimsNow == UNION {{<<th, c[1], c[2]>> : c \in claim[th]} : th \in Threads}

Lease == INSTANCE TaskLease WITH
    holder <- [t \in Tasks |-> task[t].owner],
    ranOut <- {t \in Tasks : task[t].lease = "expired"},
    owed   <- owedNow,
    claims <- claimsNow

\* The registry implements TaskLease: whatever the interleaving of calls,
\* evictions and handler calls, an owner is deprived of a task only after its
\* lease ran out or by its own disconnection, the notice it is owed is
\* delivered once, and only an Acquire that evicted the task may overtake.
ImplementsTaskLease == Lease!Spec

-----------------------------------------------------------------------------
(* Liveness, under FairSpec *)

\* A task whose owner went silent is offered again: once its lease has run
\* out, the watcher or an Acquire evicts it and the event is fired, unless its
\* owner completes it or an Acquire that was under way grants it anew, or
\* Close has stopped the watcher.
ExpiredIsOfferedAgain ==
    \A t \in Tasks :
        Expired(t) ~> \/ t \in announced
                      \/ task[t].status = "completed"
                      \/ task[t].lease = "live"
                      \/ ~watching

=============================================================================
