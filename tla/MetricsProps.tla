----------------------------- MODULE MetricsProps -----------------------------
(***************************************************************************)
(* The properties of the metrics recorder.                                 *)
(***************************************************************************)
EXTENDS Metrics

\* The recorder's data keep their types, and who holds a pointer to the stats
\* of a session got it from the map.
TypeOK ==
    /\ phase \in [Sessions -> Phase]
    /\ totalClaims \in Nat
    /\ rec \in [Threads -> SUBSET Record]
    /\ \A th \in Threads : Cardinality(rec[th]) <= 1
    /\ entries \in SUBSET Sessions
    /\ owned \in [Sessions -> 0..(2^Width - 1)]
    /\ inFlight \in [Tasks -> SUBSET Sessions]
    /\ disturbed \in SUBSET Sessions
    /\ stale \in SUBSET (Sessions \X Tasks)
    /\ haunted \in SUBSET Sessions
    /\ \A th \in Threads : \A r \in rec[th] : r.step \in OnEntry => r.owner \in entries

\* Nothing about s is still to be recorded.
Settled(s) ==
    /\ \A th \in Threads : \A r \in rec[th] : r.owner # s
    /\ \A th \in Threads : \A n \in notices[th] : n.owner = s => "lost" \notin n.left

\* The current_owned of a session is the number of tasks it owns, whenever
\* nothing about it is still to be recorded, although claims, releases and
\* evictions are recorded by different goroutines in any order.  It is spoilt
\* for good by three things: two goroutines at the counter at once, an eviction
\* recorded before its claim, which finds zero (metrics.go:190), and an Acquire
\* that takes the task from another session, which nobody records.
OwnedIsExact ==
    \A s \in Sessions :
        phase[s] = "open" /\ Settled(s) /\ s \notin disturbed
        => owned[s] = Cardinality(R!OwnedTasks(s))

\* inFlight, by which compute times are measured, holds the start of nobody's
\* work but the owner's, unless the release or the eviction is about to be
\* recorded, or was recorded before the claim, or was not recorded at all.
InFlightIsOwned ==
    \A t \in Tasks : \A s \in inFlight[t] :
        task[t].owner # s
        => \/ <<s, t>> \in stale
           \/ \E th \in Threads :
                 \/ \E r \in rec[th] : r.owner = s /\ r.task = t /\ r.step = "flight"
                 \/ \E n \in notices[th] :
                       n.owner = s /\ n.task = t /\ "lost" \in n.left

\* A session that has left has no entry, unless another goroutine was recording
\* an eviction of it at that moment: then getOrCreateSession makes the entry
\* anew and nobody ever deletes it (metrics.go:188, 241-243).
OnlyTheHauntedStay ==
    \A s \in entries : phase[s] = "gone" => s \in haunted

=============================================================================
