----------------------------- MODULE ServerProps -----------------------------
(***************************************************************************)
(* The properties of server mode.                                          *)
(***************************************************************************)
EXTENDS Server

\* The server's data keep their types; the registry's have their own invariant.
TypeOK ==
    /\ phase \in [Sessions -> Phase]
    /\ subs \in [Sessions -> SUBSET Tags]
    /\ job \in [Threads -> Job]
    /\ cast \in [Threads -> SUBSET (Tasks \X Sessions)]
    /\ offered \in [Sessions -> SUBSET Tasks]
    /\ told \in [Sessions -> [Tasks -> {"nothing", "owner", "lost"}]]
    /\ misled \in SUBSET (Sessions \X Tasks)

-----------------------------------------------------------------------------
\* A broadcast or a listing that will still reach session s with task t.
OfferUnderWay(s, t) ==
    \/ \E th \in Threads :
          \/ <<t, s>> \in cast[th]
          \/ \E n \in notices[th] : n.task = t /\ "available" \in n.left
    \/ \E j \in {job[th] : th \in Threads} :
          \/ j.kind = "listing" /\ j.session = s /\ Listed(t, j.filter)
          \/ j.kind = "offering" /\ j.session = s /\ t \in j.left

\* A session never misses a task it subscribed to.  Subscribing, listing,
\* making a task available and broadcasting it take four different locks and
\* interleave freely; whatever the order, a task that waits for a worker has
\* been offered to every session that has one of its tags, or is about to be.
NoTaskIsMissed ==
    \A s \in Sessions, t \in Tasks :
        /\ Present(s)
        /\ task[t].status = "available"
        /\ TaskTags[t] \cap subs[s] # {}
        => t \in offered[s] \/ OfferUnderWay(s, t)

\* A client that takes itself for the owner of a task it does not own is about
\* to be told so by a lost event, unless it is one of those the code leaves
\* misled: its acknowledgement was sent after it had lost the task, or an
\* Acquire under way took the task from it.
LossIsTold ==
    \A s \in Sessions, t \in Tasks :
        /\ Present(s)
        /\ told[s][t] = "owner"
        /\ task[t].owner # s
        => \/ <<s, t>> \in misled
           \/ \E th \in Threads : \E n \in notices[th] :
                 n.owner = s /\ n.task = t /\ "lost" \in n.left

\* Whose results are merged.  handleSubmit compares the owner on a copy of the
\* task and merges without any lock (dispatcher.go:91-108), so that the task may
\* change hands before the result is applied.  But a result is never merged for a
\* session that did not have the task or gave it back: whoever is overtaken had
\* the lease run out under it and has been, or is about to be, told of the loss.
LateResultsAreOfLosers ==
    \A s \in TCP, t \in Tasks :
        /\ job[s] = [kind |-> "submitting", session |-> s, task |-> t]
        /\ task[t].owner # s
        => \/ told[s][t] = "lost"
           \/ <<s, t>> \in misled
           \/ \E th \in Threads : \E n \in notices[th] :
                 n.owner = s /\ n.task = t /\ "lost" \in n.left

\* A TCP session leaves nothing behind.  Its tasks are released and its session
\* removed by the goroutine that ran its requests, so no request of it can be
\* granted a task after ReleaseAll; a UDP session's can.
NothingLeftBehind ==
    \A s \in TCP, t \in Tasks :
        phase[s] \in {"leaving", "gone"} => task[t].owner # s

-----------------------------------------------------------------------------
\* What a UDP session that was evicted in the middle of a request leaves behind
\* is not lost: its lease runs out and the watcher takes the task back.
OrphansAreReclaimed ==
    \A s \in Sessions, t \in Tasks :
        phase[s] = "gone" /\ task[t].owner = s ~> task[t].owner # s

=============================================================================
