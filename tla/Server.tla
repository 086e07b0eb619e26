-------------------------------- MODULE Server --------------------------------
(***************************************************************************)
(* Server mode: sessions, the dispatcher and the task registry, wired      *)
(* together as in cmd/server/main.go.                                      *)
(*                                                                         *)
(* A TCP session is served by a goroutine of its own (handleConn), which   *)
(* also disconnects it.  All UDP sessions are served by the one readLoop   *)
(* and disconnected by the timeoutLoop, concurrently.  A handler runs to   *)
(* its end on the goroutine that called it, but gives way to the others at *)
(* every lock it takes: job[th] says what is left of it, and the registry  *)
(* keeps the events th still has to fire.  The available event is a        *)
(* broadcast, which looks at one session after the other: cast[th] holds   *)
(* the looks to come.                                                      *)
(*                                                                         *)
(* An outbox is abstracted to what Send was given for it: offered (which   *)
(* tasks) and told (the last news about owning a task).  That Send drops   *)
(* messages when the outbox is full is the subject of Projector.  Messages *)
(* that no property is about (errors, pings, fail and reject replies,      *)
(* world updates) are left out.                                            *)
(***************************************************************************)
EXTENDS Naturals, FiniteSets

CONSTANTS
    Tasks, NoOwner, Watcher,
    TCP, UDP,       \* session IDs, by the transport that makes them
    Tags,
    TaskTags,       \* the tags each task is registered with
    Reader, Timer,  \* the readLoop and the timeoutLoop of the UDP server
    App             \* the goroutine that registers tasks

Sessions == TCP \cup UDP
Callers  == TCP \cup {Reader, Timer, App}

ASSUME ServerAssumption ==
    /\ TCP \cap UDP = {}
    /\ NoOwner \notin Sessions
    /\ Watcher \notin Callers
    /\ Cardinality({Reader, Timer, App} \ TCP) = 3
    /\ TaskTags \in [Tasks -> SUBSET Tags]

VARIABLES
    task, notices, claim, watching, announced,  \* the task registry
    phase,      \* where each session is in its life
    subs,       \* its tags
    job,        \* what is left of the handler each goroutine runs
    cast,       \* per goroutine: <<task, session>> looks of its broadcast
    offered,    \* per session: tasks it was sent a task_available for since
                \* they last became available
    told,       \* per session and task: the last it was told of owning it
    misled      \* history: <<session, task>> told "owner" wrongly, and why
                \* not even an ownership_lost will put it right

registryVars == <<task, notices, claim, watching, announced>>
clientVars   == <<offered, told, misled>>
vars == <<registryVars, phase, subs, job, cast, clientVars>>

R == INSTANCE TaskRegistry WITH Owners <- Sessions

Threads == R!Threads

-----------------------------------------------------------------------------
(* Sessions and jobs *)

\* "evicted": its UDP client entry is gone; "leaving": ReleaseAll is done.
Phase == {"new", "open", "evicted", "leaving", "gone"}

\* The session manager has it.
Present(s) == phase[s] \in {"open", "evicted", "leaving"}

Job == [kind : {"none"}]
       \cup [kind : {"handling", "closing"}, session : Sessions]
       \cup [kind : {"acking", "submitting"}, session : Sessions, task : Tasks]
       \cup [kind : {"listing"}, session : Sessions, filter : SUBSET Tags]
       \cup [kind : {"offering"}, session : Sessions, left : (SUBSET Tasks) \ {{}}]

NoJob == [kind |-> "none"]

\* What is left for the goroutine to do after this step.
Continue(th, j) == job' = [job EXCEPT ![th] = j]

\* The goroutine is between two calls of the registry and no broadcast of it
\* is under way.
Free(th) == R!Idle(th) /\ cast[th] = {}

\* Handle has found session s and is about to run its handler on th.
Serving(th, s) ==
    /\ Free(th)
    /\ \/ s \in TCP /\ th = s /\ phase[s] = "open" /\ job[th] = NoJob
       \/ s \in UDP /\ th = Reader /\ job[th] = [kind |-> "handling", session |-> s]

\* tagsIntersect of the registry, sessionMatchesTags of the session manager.
Listed(t, filter) == filter = {} \/ TaskTags[t] \cap filter # {}
Matches(t, s)     == TaskTags[t] = {} \/ TaskTags[t] \cap subs[s] # {}

\* Whatever became available in this step was not offered to anybody yet.
ForgetOffers ==
    LET freed == {t \in Tasks : /\ task'[t].status = "available"
                                /\ task[t].status # "available"}
    IN  offered' = [s \in Sessions |-> offered[s] \ freed]

\* Send, of a task_available message: nothing reaches a closed session.
SendOffer(s, t) ==
    offered' = IF Present(s) THEN [offered EXCEPT ![s] = @ \cup {t}] ELSE offered

Init ==
    /\ R!Init
    /\ phase = [s \in Sessions |-> "new"]
    /\ subs = [s \in Sessions |-> {}]
    /\ job = [th \in Threads |-> NoJob]
    /\ cast = [th \in Threads |-> {}]
    /\ offered = [s \in Sessions |-> {}]
    /\ told = [s \in Sessions |-> [t \in Tasks |-> "nothing"]]
    /\ misled = {}

-----------------------------------------------------------------------------
(* Transports *)

\* handleConn of a new connection.
Connect(s) ==
    /\ s \in TCP
    /\ phase[s] = "new"
    /\ phase' = [phase EXCEPT ![s] = "open"]
    /\ UNCHANGED <<registryVars, subs, job, cast, clientVars>>

\* handleDatagram, up to its call of the handler.  The datagram of an unknown
\* address opens a session.  The entry is looked up under s.mu, but nothing
\* keeps it from being evicted before the handler runs.
Receive(s) ==
    /\ s \in UDP
    /\ phase[s] \in {"new", "open"}
    /\ Free(Reader)
    /\ job[Reader] = NoJob
    /\ phase' = [phase EXCEPT ![s] = "open"]
    /\ Continue(Reader, [kind |-> "handling", session |-> s])
    /\ UNCHANGED <<registryVars, subs, cast, clientVars>>

\* A variant: the handler runs on a goroutine of its own, and the session may
\* be closed while it does.
DisconnectDuringHandler(s) ==
    /\ s \in TCP
    /\ phase[s] = "open"
    /\ notices[s] = {} /\ cast[s] = {}
    /\ R!MakeAvailable(s, R!OwnedTasks(s), "disconnected", R!Kinds)
    /\ phase' = [phase EXCEPT ![s] = "leaving"]
    /\ Continue(s, [kind |-> "closing", session |-> s])
    /\ ForgetOffers
    /\ UNCHANGED <<claim, watching, subs, cast, told, misled>>

\* The end of handleConn: onDisconnect, whose ReleaseAll comes first.
Disconnect(s) ==
    /\ s \in TCP
    /\ phase[s] = "open"
    /\ Free(s)
    /\ job[s] = NoJob
    /\ R!ReleaseAll(s, s)
    /\ phase' = [phase EXCEPT ![s] = "leaving"]
    /\ Continue(s, [kind |-> "closing", session |-> s])
    /\ ForgetOffers
    /\ UNCHANGED <<subs, cast, told, misled>>

\* evictExpired of the UDP server: the entries of clients that were silent for
\* too long are deleted under s.mu ...
EvictClients(S) ==
    /\ S # {}
    /\ \A s \in S : phase[s] = "open"
    /\ Free(Timer)
    /\ job[Timer] = NoJob
    /\ \A s \in UDP : phase[s] \notin {"evicted", "leaving"}
    /\ phase' = [s \in Sessions |-> IF s \in S THEN "evicted" ELSE phase[s]]
    /\ UNCHANGED <<registryVars, subs, job, cast, clientVars>>

\* ... and their sessions disconnected one after the other.
CloseClient(s) ==
    /\ phase[s] = "evicted"
    /\ Free(Timer)
    /\ job[Timer] = NoJob
    /\ R!ReleaseAll(Timer, s)
    /\ phase' = [phase EXCEPT ![s] = "leaving"]
    /\ Continue(Timer, [kind |-> "closing", session |-> s])
    /\ ForgetOffers
    /\ UNCHANGED <<subs, cast, told, misled>>

\* manager.Remove, after onDisconnect has returned.
Remove(th, s) ==
    /\ job[th] = [kind |-> "closing", session |-> s]
    /\ Free(th)
    /\ phase' = [phase EXCEPT ![s] = "gone"]
    /\ Continue(th, NoJob)
    /\ UNCHANGED <<registryVars, subs, cast, clientVars>>

-----------------------------------------------------------------------------
(* Handlers of the dispatcher *)

\* Every handler that only replies: ping, unknown types, failed and rejected
\* requests.  It ends the job of the readLoop and changes nothing else.
HandleWithoutEffect(s) ==
    /\ s \in UDP
    /\ Serving(Reader, s)
    /\ Continue(Reader, NoJob)
    /\ UNCHANGED <<registryVars, phase, subs, cast, clientVars>>

HandleAcquire(th, s, t) ==
    /\ Serving(th, s)
    /\ R!AcquireFree(th, t, s) \/ R!AcquireExpired(th, t, s)
    /\ Continue(th, [kind |-> "acking", session |-> s, task |-> t])
    /\ ForgetOffers
    /\ UNCHANGED <<phase, subs, cast, told, misled>>

\* task_acquired_ok goes into the outbox once Acquire has returned.
Acknowledge(th, s, t) ==
    /\ job[th] = [kind |-> "acking", session |-> s, task |-> t]
    /\ Free(th)
    /\ Continue(th, NoJob)
    /\ IF Present(s)
         THEN /\ told' = [told EXCEPT ![s][t] = "owner"]
              /\ misled' = IF task[t].owner = s THEN misled \ {<<s, t>>}
                                                ELSE misled \cup {<<s, t>>}
         ELSE UNCHANGED <<told, misled>>
    /\ UNCHANGED <<registryVars, phase, subs, cast, offered>>

HandleRelease(th, s, t) ==
    /\ Serving(th, s)
    /\ R!Release(th, t, s)
    /\ Continue(th, NoJob)
    /\ told' = [told EXCEPT ![s][t] = "nothing"]
    /\ misled' = misled \ {<<s, t>>}
    /\ ForgetOffers
    /\ UNCHANGED <<phase, subs, cast>>

\* A variant: the owner of the task is not looked at.
HandleSubmitUnchecked(th, s, t) ==
    /\ Serving(th, s)
    /\ Continue(th, [kind |-> "submitting", session |-> s, task |-> t])
    /\ UNCHANGED <<registryVars, phase, subs, cast, clientVars>>

\* handleSubmit up to the comparison of the owner, on a copy of the task.
HandleSubmit(th, s, t) ==
    /\ Serving(th, s)
    /\ task[t].owner = s
    /\ Continue(th, [kind |-> "submitting", session |-> s, task |-> t])
    /\ UNCHANGED <<registryVars, phase, subs, cast, clientVars>>

\* The rest of it: the merge function has run and the updates are applied.
ApplyResult(th) ==
    /\ job[th].kind = "submitting"
    /\ Continue(th, NoJob)
    /\ UNCHANGED <<registryVars, phase, subs, cast, clientVars>>

\* A variant: a subscriber is told of the tasks to come, not of those that wait.
SubscribeWithoutListing(th, s, filter) ==
    /\ Serving(th, s)
    /\ subs' = [subs EXCEPT ![s] = @ \cup filter]
    /\ Continue(th, NoJob)
    /\ UNCHANGED <<registryVars, phase, cast, clientVars>>

\* handleSubscribe subscribes first and lists afterwards: a task that becomes
\* available in between is broadcast to the session.
HandleSubscribe(th, s, filter) ==
    /\ Serving(th, s)
    /\ subs' = [subs EXCEPT ![s] = @ \cup filter]
    /\ Continue(th, [kind |-> "listing", session |-> s, filter |-> filter])
    /\ UNCHANGED <<registryVars, phase, cast, clientVars>>

\* The loop over the tasks that were listed and are still to be offered.
OfferRest(th, s, left) ==
    Continue(th, IF left = {} THEN NoJob
              ELSE [kind |-> "offering", session |-> s, left |-> left])

ListAvailable(th) ==
    /\ job[th].kind = "listing"
    /\ OfferRest(th, job[th].session, {t \in Tasks : /\ task[t].status = "available"
                                                   /\ Listed(t, job[th].filter)})
    /\ UNCHANGED <<registryVars, phase, subs, cast, clientVars>>

OfferListed(th, t) ==
    /\ job[th].kind = "offering"
    /\ t \in job[th].left
    /\ SendOffer(job[th].session, t)
    /\ OfferRest(th, job[th].session, job[th].left \ {t})
    /\ UNCHANGED <<registryVars, phase, subs, cast, told, misled>>

HandleUnsubscribe(th, s, filter) ==
    /\ Serving(th, s)
    /\ subs' = [subs EXCEPT ![s] = @ \ filter]
    /\ Continue(th, NoJob)
    /\ UNCHANGED <<registryVars, phase, cast, clientVars>>

-----------------------------------------------------------------------------
(* The registry's own steps, and the handlers main registers with it *)

Register(t) ==
    /\ Free(App)
    /\ R!Register(App, t)
    /\ ForgetOffers
    /\ UNCHANGED <<phase, subs, job, cast, told, misled>>

Watch ==
    /\ Free(Watcher)
    /\ R!EvictExpired
    /\ ForgetOffers
    /\ UNCHANGED <<phase, subs, job, cast, told, misled>>

LeaseRunsOut(t) ==
    /\ R!LeaseRunsOut(t)
    /\ UNCHANGED <<phase, subs, job, cast, clientVars>>

\* The second critical section of Acquire.  Whoever held the task by then is
\* told nothing.
ResumeAcquire(th, t, s) ==
    /\ cast[th] = {}
    /\ R!AcquireResume(th, t, s)
    /\ misled' = misled \cup {<<o, t>> : o \in {task[t].owner} \ {s, NoOwner}}
    /\ UNCHANGED <<phase, subs, job, cast, offered, told>>

\* A variant: the lost handler looks for the new owner of the task.
FireLostToNewOwner(th, n) ==
    /\ cast[th] = {}
    /\ R!NextKind(n) = "lost"
    /\ R!Fire(th, n)
    /\ LET s == task[n.task].owner
       IN  told' = IF s # NoOwner /\ Present(s)
                     THEN [told EXCEPT ![s][n.task] = "lost"] ELSE told
    /\ UNCHANGED <<phase, subs, job, cast, offered, misled>>

\* The lost handler: the previous owner is told, if the manager has it.
FireLost(th, n) ==
    /\ cast[th] = {}
    /\ R!NextKind(n) = "lost"
    /\ R!Fire(th, n)
    /\ IF Present(n.owner)
         THEN /\ told' = [told EXCEPT ![n.owner][n.task] = "lost"]
              /\ misled' = misled \ {<<n.owner, n.task>>}
         ELSE UNCHANGED <<told, misled>>
    /\ UNCHANGED <<phase, subs, job, cast, offered>>

\* The available handler: Broadcast takes a snapshot of the sessions.
FireAvailable(th, n) ==
    /\ cast[th] = {}
    /\ R!NextKind(n) = "available"
    /\ R!Fire(th, n)
    /\ cast' = [cast EXCEPT ![th] = {<<n.task, s>> : s \in {x \in Sessions : Present(x)}}]
    /\ UNCHANGED <<phase, subs, job, clientVars>>

\* Broadcast looks at the tags of one session and sends if they match.
Visit(th, t, s) ==
    /\ <<t, s>> \in cast[th]
    /\ cast' = [cast EXCEPT ![th] = @ \ {<<t, s>>}]
    /\ IF Matches(t, s) THEN SendOffer(s, t) ELSE UNCHANGED offered
    /\ UNCHANGED <<registryVars, phase, subs, job, told, misled>>

-----------------------------------------------------------------------------
\* What clients, their silence and the application bring about.
Request(th, s) ==
    \/ \E t \in Tasks :
          \/ HandleAcquire(th, s, t)
          \/ HandleRelease(th, s, t)
          \/ HandleSubmit(th, s, t)
    \/ \E filter \in SUBSET Tags :
          HandleSubscribe(th, s, filter) \/ HandleUnsubscribe(th, s, filter)

Environment ==
    \/ \E s \in Sessions : Connect(s) \/ Receive(s) \/ Disconnect(s)
    \/ \E S \in SUBSET UDP : EvictClients(S)
    \/ \E s \in Sessions, th \in TCP \cup {Reader} : Request(th, s)
    \/ \E t \in Tasks : Register(t)

\* What a goroutine does once it is inside a handler or a loop's iteration.
Proceed(th) ==
    \/ \E n \in notices[th] : FireLost(th, n) \/ FireAvailable(th, n)
    \/ \E t \in Tasks, s \in Sessions :
          \/ Visit(th, t, s)
          \/ ResumeAcquire(th, t, s)
          \/ Acknowledge(th, s, t)
    \/ ListAvailable(th)
    \/ \E t \in Tasks : OfferListed(th, t)
    \/ ApplyResult(th)
    \/ \E s \in Sessions : Remove(th, s)

Next ==
    \/ Environment
    \/ \E s \in UDP : HandleWithoutEffect(s)
    \/ \E s \in UDP : CloseClient(s)
    \/ \E th \in Threads : Proceed(th)
    \/ Watch
    \/ \E t \in Tasks : LeaseRunsOut(t)

Spec == Init /\ [][Next]_vars

\* Goroutines inside a handler are scheduled, the lease watcher ticks and time
\* passes, so that every lease (they are never renewed) runs out.
Fairness ==
    /\ \A th \in Threads : WF_vars(Proceed(th))
    /\ WF_vars(Watch)
    /\ \A t \in Tasks : WF_vars(LeaseRunsOut(t))

FairSpec == Spec /\ Fairness

=============================================================================
