----------------------------- MODULE ServerProofs -----------------------------
(***************************************************************************)
(* Proofs about server mode, for any sessions, tasks and tags.             *)
(*                                                                         *)
(* The server uses the registry only as the registry may be used, so that  *)
(* what TaskRegistryProofs proves holds in the server; on that rest the    *)
(* invariants of the sessions, the handlers and the broadcasts.            *)
(***************************************************************************)
EXTENDS ServerProps, TLAPS

USE ServerAssumption

P == INSTANCE TaskRegistryProofs WITH Owners <- Sessions

-----------------------------------------------------------------------------
(* The server's registry is the registry *)

\* What the registry assumes of its constants holds of the server's.
LEMMA RegistryAssumed == P!RegistryAssumption
BY DEF P!RegistryAssumption, Callers

\* The steps that change the registry's data.
LEMMA RegistryCases ==
    ASSUME [Next]_vars
    PROVE  \/ UNCHANGED registryVars
           \/ \E s \in TCP : Disconnect(s)
           \/ \E s \in UDP : CloseClient(s)
           \/ \E th \in TCP \cup {Reader}, s \in Sessions, t \in Tasks :
                 HandleAcquire(th, s, t) \/ HandleRelease(th, s, t)
           \/ \E t \in Tasks : Register(t) \/ LeaseRunsOut(t)
           \/ Watch
           \/ \E th \in Threads, t \in Tasks, s \in Sessions : ResumeAcquire(th, t, s)
           \/ \E th \in Threads : \E n \in notices[th] : FireLost(th, n) \/ FireAvailable(th, n)
<1>1. CASE UNCHANGED vars
  BY <1>1 DEF vars
<1>2. CASE Environment
  <2>1. ASSUME NEW s \in Sessions, Connect(s) \/ Receive(s) \/ Disconnect(s)
        PROVE  UNCHANGED registryVars \/ \E r \in TCP : Disconnect(r)
    BY <2>1 DEF Connect, Receive, Disconnect
  <2>2. ASSUME NEW S \in SUBSET UDP, EvictClients(S)
        PROVE  UNCHANGED registryVars
    BY <2>2 DEF EvictClients
  <2>3. ASSUME NEW s \in Sessions, NEW th \in TCP \cup {Reader}, Request(th, s)
        PROVE  \/ UNCHANGED registryVars
               \/ \E t \in Tasks : HandleAcquire(th, s, t) \/ HandleRelease(th, s, t)
    BY <2>3 DEF Request, HandleSubmit, HandleSubscribe, HandleUnsubscribe
  <2>4. QED
    BY <1>2, <2>1, <2>2, <2>3 DEF Environment
<1>3. ASSUME NEW s \in UDP, HandleWithoutEffect(s)
      PROVE  UNCHANGED registryVars
  BY <1>3 DEF HandleWithoutEffect
<1>4. ASSUME NEW th \in Threads, Proceed(th)
      PROVE  \/ UNCHANGED registryVars
             \/ \E t \in Tasks, s \in Sessions : ResumeAcquire(th, t, s)
             \/ \E n \in notices[th] : FireLost(th, n) \/ FireAvailable(th, n)
  BY <1>4 DEF Proceed, Visit, Acknowledge, ListAvailable, OfferListed, ApplyResult, Remove
<1>5. QED
  BY <1>1, <1>2, <1>3, <1>4 DEF Next

LEMMA ThreadFacts ==
    /\ TCP \subseteq Threads /\ Reader \in Threads /\ Timer \in Threads
    /\ App \in Threads /\ Watcher \in Threads
    /\ Threads = P!Threads
BY DEF Threads, R!Threads, P!Threads, Callers

LEMMA RegistryInit == Init => P!Init
BY DEF Init, R!Init, P!Init, R!Free, P!Free, R!Threads, P!Threads

LEMMA RegistryStep == [Next]_vars => [P!Next]_(P!vars)
<1> SUFFICES ASSUME [Next]_vars
             PROVE  [P!Next]_(P!vars)
  OBVIOUS
<1> USE ThreadFacts
<1>1. CASE UNCHANGED registryVars
  BY <1>1 DEF registryVars, P!vars
<1>2. ASSUME NEW th \in Callers, NEW s \in Sessions, R!ReleaseAll(th, s)
      PROVE  P!Next
  <2>1. P!ReleaseAll(th, s)
    BY <1>2 DEF R!ReleaseAll, P!ReleaseAll, R!Idle, P!Idle, R!MakeAvailable, P!MakeAvailable,
                R!OwnedTasks, P!OwnedTasks, R!Kinds, P!Kinds, R!Free, P!Free
  <2>2. QED
    BY <2>1 DEF P!Next, P!Call
<1>3. ASSUME NEW s \in TCP, Disconnect(s)
      PROVE  P!Next
  BY <1>2, <1>3 DEF Disconnect, Callers, Sessions
<1>4. ASSUME NEW s \in UDP, CloseClient(s)
      PROVE  P!Next
  BY <1>2, <1>4 DEF CloseClient, Callers, Sessions
<1>5. ASSUME NEW th \in TCP \cup {Reader}, NEW s \in Sessions, NEW t \in Tasks, HandleAcquire(th, s, t)
      PROVE  P!Next
  <2>1. th \in Callers
    BY DEF Callers
  <2>2. P!AcquireFree(th, t, s) \/ P!AcquireExpired(th, t, s)
    BY <1>5 DEF HandleAcquire, R!AcquireFree, P!AcquireFree, R!AcquireExpired, P!AcquireExpired,
                R!Idle, P!Idle, R!Grant, P!Grant, R!OwnedBy, P!OwnedBy, R!Expired, P!Expired,
                R!MakeAvailable, P!MakeAvailable, R!Kinds, P!Kinds, R!Free, P!Free
  <2>3. QED
    BY <2>1, <2>2 DEF P!Next, P!Call
<1>6. ASSUME NEW th \in TCP \cup {Reader}, NEW s \in Sessions, NEW t \in Tasks, HandleRelease(th, s, t)
      PROVE  P!Next
  <2>1. th \in Callers
    BY DEF Callers
  <2>2. P!Release(th, t, s)
    BY <1>6 DEF HandleRelease, R!Release, P!Release, R!Idle, P!Idle,
                R!MakeAvailable, P!MakeAvailable, R!Free, P!Free
  <2>3. QED
    BY <2>1, <2>2 DEF P!Next, P!Call
<1>7. ASSUME NEW t \in Tasks, Register(t) \/ LeaseRunsOut(t)
      PROVE  P!Next
  <2>1. App \in Callers
    BY DEF Callers
  <2>2. P!Register(App, t) \/ P!LeaseRunsOut(t)
    BY <1>7 DEF Register, LeaseRunsOut, R!Register, P!Register, R!LeaseRunsOut, P!LeaseRunsOut,
                R!Idle, P!Idle, R!MakeAvailable, P!MakeAvailable, R!Free, P!Free
  <2>3. QED
    BY <2>1, <2>2 DEF P!Next, P!Call
<1>8. CASE Watch
  <2>1. P!EvictExpired
    BY <1>8 DEF Watch, R!EvictExpired, P!EvictExpired, R!Idle, P!Idle, R!Expired, P!Expired,
                R!MakeAvailable, P!MakeAvailable, R!Kinds, P!Kinds, R!Free, P!Free
  <2>2. QED
    BY <2>1 DEF P!Next
<1>9. ASSUME NEW th \in Threads, NEW t \in Tasks, NEW s \in Sessions, ResumeAcquire(th, t, s)
      PROVE  P!Next
  <2>1. P!AcquireResume(th, t, s)
    BY <1>9 DEF ResumeAcquire, R!AcquireResume, P!AcquireResume, R!Grant, P!Grant,
                R!OwnedBy, P!OwnedBy
  <2>2. QED
    BY <2>1 DEF P!Next, P!Proceed
<1>10. ASSUME NEW th \in Threads, NEW n \in notices[th], FireLost(th, n) \/ FireAvailable(th, n)
       PROVE  P!Next
  <2>1. R!Fire(th, n)
    BY <1>10 DEF FireLost, FireAvailable
  <2>2. P!Fire(th, n)
    BY <2>1 DEF R!Fire, P!Fire, R!MayFire, P!MayFire, R!NextKind, P!NextKind, R!Kinds, P!Kinds
  <2>3. QED
    BY <2>2 DEF P!Next, P!Proceed
<1>11. QED
  BY RegistryCases, <1>1, <1>3, <1>4, <1>5, <1>6, <1>7, <1>8, <1>9, <1>10

\* What sessions, handlers and broadcasts do to the registry is what its callers
\* may do: every property proved of the registry alone (TaskRegistryProofs) is a
\* property of the server.
THEOREM RegistryContract == Spec => P!Spec
BY RegistryInit, RegistryStep, PTL DEF Spec, P!Spec

\* In server mode, too, an owner is deprived of a task only after its lease ran
\* out or by its own disconnection, and is told (task.go:251-321), except by an
\* Acquire that was under way and overtakes it (task.go:177).
THEOREM LeaseContract == Spec => P!ImplementsTaskLease
BY RegistryContract, P!Refinement

-----------------------------------------------------------------------------
(* What the proofs about sessions use of the registry *)

RegistryOK == P!TypeOK /\ P!OwnershipCoherent

LEMMA RegistryHolds == Spec => []RegistryOK
BY RegistryContract, P!TypeCorrect, P!Coherence, PTL DEF RegistryOK

LEMMA RegistryFacts ==
    ASSUME RegistryOK
    PROVE  /\ task \in [Tasks -> R!Task]
           /\ notices \in [Threads -> SUBSET R!Notice]
           /\ claim \in [Threads -> SUBSET (Tasks \X Sessions)]
           /\ \A t \in Tasks : task[t].owner # NoOwner <=> task[t].status = "owned"
BY ThreadFacts DEF RegistryOK, P!TypeOK, P!OwnershipCoherent, P!Task, R!Task, P!Notice, R!Notice,
                   P!Kinds, R!Kinds

-----------------------------------------------------------------------------
(* Types *)

LEMMA JobTypes ==
    /\ NoJob \in Job
    /\ \A s \in Sessions : /\ [kind |-> "handling", session |-> s] \in Job
                          /\ [kind |-> "closing", session |-> s] \in Job
    /\ \A s \in Sessions, t \in Tasks :
          /\ [kind |-> "acking", session |-> s, task |-> t] \in Job
          /\ [kind |-> "submitting", session |-> s, task |-> t] \in Job
    /\ \A s \in Sessions, filter \in SUBSET Tags :
          [kind |-> "listing", session |-> s, filter |-> filter] \in Job
    /\ \A s \in Sessions, left \in (SUBSET Tasks) \ {{}} :
          [kind |-> "offering", session |-> s, left |-> left] \in Job
BY DEF Job, NoJob

LEMMA JobFacts ==
    ASSUME NEW j \in Job
    PROVE  /\ j.kind = "none" <=> j = NoJob
           /\ j.kind # "none" => j.session \in Sessions
           /\ j.kind = "listing" => j.filter \in SUBSET Tags
           /\ j.kind = "offering" => /\ j.left \in (SUBSET Tasks) \ {{}}
                                    /\ j = [kind |-> "offering", session |-> j.session, left |-> j.left]
BY DEF Job, NoJob

LEMMA TypeInit == Init => TypeOK
BY JobTypes DEF Init, TypeOK, Phase

LEMMA ContinueTypes ==
    ASSUME TypeOK, NEW th \in Threads, NEW j \in Job, Continue(th, j)
    PROVE  job' \in [Threads -> Job]
BY DEF Continue, TypeOK

\* The loop over the listed tasks goes on with those that are left, or ends.
LEMMA OfferRestFacts ==
    ASSUME job \in [Threads -> Job], NEW th \in Threads, NEW s \in Sessions, NEW left \in SUBSET Tasks,
           OfferRest(th, s, left)
    PROVE  \/ left = {} /\ Continue(th, NoJob) /\ job'[th] = NoJob
           \/ \E j \in Job : /\ j = [kind |-> "offering", session |-> s, left |-> left]
                            /\ j.kind = "offering" /\ j.session = s /\ j.left = left
                            /\ Continue(th, j) /\ job'[th] = j
<1>1. CASE left = {}
  BY <1>1 DEF OfferRest, Continue
<1>2. CASE left # {}
  <2>1. PICK j \in Job : j = [kind |-> "offering", session |-> s, left |-> left]
    BY <1>2, JobTypes
  <2>2. Continue(th, j)
    BY <1>2, <2>1 DEF OfferRest
  <2>3. job'[th] = j
    BY <2>2 DEF Continue
  <2>4. j.kind = "offering" /\ j.session = s /\ j.left = left
    BY <2>1
  <2>5. QED
    BY <2>1, <2>2, <2>3, <2>4
<1>3. QED
  BY <1>1, <1>2

LEMMA TypeStep == TypeOK /\ RegistryOK /\ [Next]_vars => TypeOK'
<1> SUFFICES ASSUME TypeOK, RegistryOK, [Next]_vars
             PROVE  TypeOK'
  OBVIOUS
<1> USE DEF clientVars
<1> USE ThreadFacts
<1>c. TCP \subseteq Sessions /\ UDP \subseteq Sessions
  BY DEF Sessions
<1>o. ForgetOffers => offered' \in [Sessions -> SUBSET Tasks]
  BY DEF ForgetOffers, TypeOK
<1>p. \A s \in Sessions : \A q \in Phase : [phase EXCEPT ![s] = q] \in [Sessions -> Phase]
  BY DEF TypeOK
<1>q. {"new", "open", "evicted", "leaving", "gone"} = Phase
  BY DEF Phase
<1>j. \A th \in Threads : \A j \in Job : Continue(th, j) => job' \in [Threads -> Job]
  BY ContinueTypes
<1>1. ASSUME NEW s \in Sessions, Connect(s)
      PROVE  TypeOK'
  BY <1>1, <1>p, <1>q DEF Connect, TypeOK
<1>2. ASSUME NEW s \in Sessions, Receive(s)
      PROVE  TypeOK'
  BY <1>2, <1>p, <1>q, <1>j, JobTypes DEF Receive, TypeOK
<1>3. ASSUME NEW s \in Sessions, Disconnect(s)
      PROVE  TypeOK'
  BY <1>3, <1>o, <1>p, <1>q, <1>j, JobTypes DEF Disconnect, TypeOK
<1>4. ASSUME NEW S \in SUBSET UDP, EvictClients(S)
      PROVE  TypeOK'
  <2>1. phase' \in [Sessions -> Phase]
    BY <1>4, <1>q DEF EvictClients, TypeOK
  <2>2. QED
    BY <1>4, <2>1 DEF EvictClients, TypeOK
<1>5. ASSUME NEW s \in UDP, CloseClient(s)
      PROVE  TypeOK'
  BY <1>5, <1>c, <1>o, <1>p, <1>q, <1>j, JobTypes DEF CloseClient, TypeOK
<1>6. ASSUME NEW th \in Threads, NEW s \in Sessions, Remove(th, s)
      PROVE  TypeOK'
  BY <1>6, <1>p, <1>q, <1>j, JobTypes DEF Remove, TypeOK
<1>7. ASSUME NEW s \in UDP, HandleWithoutEffect(s)
      PROVE  TypeOK'
  BY <1>7, <1>j, JobTypes DEF HandleWithoutEffect, TypeOK
<1>8. ASSUME NEW th \in Threads, NEW s \in Sessions, NEW t \in Tasks, HandleAcquire(th, s, t)
      PROVE  TypeOK'
  BY <1>8, <1>o, <1>j, JobTypes DEF HandleAcquire, TypeOK
<1>9. ASSUME NEW th \in Threads, NEW s \in Sessions, NEW t \in Tasks, Acknowledge(th, s, t)
      PROVE  TypeOK'
  <2>1. told' \in [Sessions -> [Tasks -> {"nothing", "owner", "lost"}]]
    <3>1. told' = told \/ told' = [told EXCEPT ![s][t] = "owner"]
      BY <1>9 DEF Acknowledge
    <3>2. told \in [Sessions -> [Tasks -> {"nothing", "owner", "lost"}]]
      BY DEF TypeOK
    <3>3. told[s] \in [Tasks -> {"nothing", "owner", "lost"}]
      BY <3>2
    <3>4. [told[s] EXCEPT ![t] = "owner"] \in [Tasks -> {"nothing", "owner", "lost"}]
      BY <3>3
    <3>5. QED
      BY <3>1, <3>2, <3>4
  <2>2. misled' \in SUBSET (Sessions \X Tasks)
    BY <1>9 DEF Acknowledge, TypeOK
  <2>3. QED
    BY <1>9, <1>j, <2>1, <2>2, JobTypes DEF Acknowledge, TypeOK
<1>10. ASSUME NEW th \in Threads, NEW s \in Sessions, NEW t \in Tasks, HandleRelease(th, s, t)
       PROVE  TypeOK'
  <2>1. told' \in [Sessions -> [Tasks -> {"nothing", "owner", "lost"}]]
    BY <1>10 DEF HandleRelease, TypeOK
  <2>2. misled' \in SUBSET (Sessions \X Tasks)
    BY <1>10 DEF HandleRelease, TypeOK
  <2>3. QED
    BY <1>10, <1>o, <1>j, <2>1, <2>2, JobTypes DEF HandleRelease, TypeOK
<1>11. ASSUME NEW th \in Threads, NEW s \in Sessions, NEW t \in Tasks, HandleSubmit(th, s, t)
       PROVE  TypeOK'
  BY <1>11, <1>j, JobTypes DEF HandleSubmit, TypeOK
<1>12. ASSUME NEW th \in Threads, ApplyResult(th)
       PROVE  TypeOK'
  BY <1>12, <1>j, JobTypes DEF ApplyResult, TypeOK
<1>13. ASSUME NEW th \in Threads, NEW s \in Sessions, NEW filter \in SUBSET Tags,
              HandleSubscribe(th, s, filter) \/ HandleUnsubscribe(th, s, filter)
       PROVE  TypeOK'
  <2>1. subs[s] \in SUBSET Tags /\ subs[s] \cup filter \in SUBSET Tags /\ subs[s] \ filter \in SUBSET Tags
    BY DEF TypeOK
  <2>2. subs' \in [Sessions -> SUBSET Tags]
    BY <1>13, <2>1 DEF HandleSubscribe, HandleUnsubscribe, TypeOK
  <2>3. QED
    BY <1>13, <1>j, <2>2, JobTypes DEF HandleSubscribe, HandleUnsubscribe, TypeOK
<1>14. ASSUME NEW th \in Threads, NEW s \in Sessions, NEW left \in SUBSET Tasks, OfferRest(th, s, left)
       PROVE  job' \in [Threads -> Job]
  <2>1. PICK j \in Job : Continue(th, j)
    BY <1>14, OfferRestFacts, JobTypes DEF TypeOK
  <2>2. QED
    BY <1>j, <2>1
<1>15. ASSUME NEW th \in Threads, ListAvailable(th) \/ \E t \in Tasks : OfferListed(th, t)
       PROVE  TypeOK'
  <2>1. /\ job[th] \in Job /\ job[th].kind \in {"listing", "offering"}
        /\ UNCHANGED <<phase, subs, cast, told, misled>>
    BY <1>15 DEF ListAvailable, OfferListed, TypeOK, registryVars, clientVars
  <2>2. /\ job[th].session \in Sessions
        /\ job[th].kind = "offering" => job[th].left \in SUBSET Tasks
    BY <2>1, JobFacts
  <2>3. \E left \in SUBSET Tasks : OfferRest(th, job[th].session, left)
    <3>1. CASE ListAvailable(th)
      BY <3>1 DEF ListAvailable
    <3>2. ASSUME NEW t \in Tasks, OfferListed(th, t)
          PROVE  \E left \in SUBSET Tasks : OfferRest(th, job[th].session, left)
      <4>1. job[th].left \ {t} \in SUBSET Tasks
        BY <2>2, <3>2 DEF OfferListed
      <4>2. QED
        BY <3>2, <4>1 DEF OfferListed
    <3>3. QED
      BY <1>15, <3>1, <3>2
  <2>4. job' \in [Threads -> Job]
    BY <1>14, <2>2, <2>3
  <2>5. offered' \in [Sessions -> SUBSET Tasks]
    <3>1. CASE ListAvailable(th)
      BY <3>1 DEF ListAvailable, TypeOK, clientVars
    <3>2. ASSUME NEW t \in Tasks, OfferListed(th, t)
          PROVE  offered' \in [Sessions -> SUBSET Tasks]
      BY <2>2, <3>2 DEF OfferListed, SendOffer, TypeOK
    <3>3. QED
      BY <1>15, <3>1, <3>2
  <2>6. QED
    BY <2>1, <2>4, <2>5 DEF TypeOK
<1>16. ASSUME NEW t \in Tasks, Register(t) \/ LeaseRunsOut(t)
       PROVE  TypeOK'
  BY <1>16, <1>o DEF Register, LeaseRunsOut, TypeOK
<1>17. CASE Watch
  BY <1>17, <1>o DEF Watch, TypeOK
<1>18. ASSUME NEW th \in Threads, NEW t \in Tasks, NEW s \in Sessions, ResumeAcquire(th, t, s)
       PROVE  TypeOK'
  <2>1. {task[t].owner} \ {s, NoOwner} \subseteq Sessions
    BY RegistryFacts DEF R!Task
  <2>2. misled' \in SUBSET (Sessions \X Tasks)
    BY <1>18, <2>1 DEF ResumeAcquire, TypeOK
  <2>3. QED
    BY <1>18, <2>2 DEF ResumeAcquire, TypeOK
<1>19. ASSUME NEW th \in Threads, NEW n \in notices[th], FireLost(th, n)
       PROVE  TypeOK'
  <2>1. told' \in [Sessions -> [Tasks -> {"nothing", "owner", "lost"}]]
    BY <1>19 DEF FireLost, TypeOK
  <2>2. misled' \in SUBSET (Sessions \X Tasks)
    BY <1>19 DEF FireLost, TypeOK
  <2>3. QED
    BY <1>19, <2>1, <2>2 DEF FireLost, TypeOK
<1>20. ASSUME NEW th \in Threads, NEW n \in notices[th], FireAvailable(th, n)
       PROVE  TypeOK'
  <2>1. n.task \in Tasks
    BY RegistryFacts DEF R!Notice
  <2>2. {<<n.task, s>> : s \in {x \in Sessions : Present(x)}} \in SUBSET (Tasks \X Sessions)
    BY <2>1
  <2>3. cast' \in [Threads -> SUBSET (Tasks \X Sessions)]
    BY <1>20, <2>2 DEF FireAvailable, TypeOK
  <2>4. QED
    BY <1>20, <2>3 DEF FireAvailable, TypeOK
<1>21. ASSUME NEW th \in Threads, NEW t \in Tasks, NEW s \in Sessions, Visit(th, t, s)
       PROVE  TypeOK'
  <2>1. cast' \in [Threads -> SUBSET (Tasks \X Sessions)]
    BY <1>21 DEF Visit, TypeOK
  <2>2. offered' \in [Sessions -> SUBSET Tasks]
    BY <1>21 DEF Visit, SendOffer, TypeOK
  <2>3. QED
    BY <1>21, <2>1, <2>2 DEF Visit, TypeOK
<1>22. CASE UNCHANGED vars
  BY <1>22 DEF vars, TypeOK
<1>23. QED
  BY <1>1, <1>2, <1>3, <1>4, <1>5, <1>6, <1>7, <1>8, <1>9, <1>10, <1>11, <1>12, <1>13, <1>14,
     <1>15, <1>16, <1>17, <1>18, <1>19, <1>20, <1>21, <1>22
  DEF Next, Environment, Request, Proceed

-----------------------------------------------------------------------------
(* Which goroutine works for which session *)

\* Only the goroutine of a TCP session has an Acquire under way for it, and only
\* while the session is open.
ClaimsFit ==
    \A th \in Threads : \A c \in claim[th] :
        c[2] \in TCP => th = c[2] /\ phase[c[2]] = "open"

\* A handler runs for a session that has begun; one of a TCP session runs on its
\* goroutine, which closes it afterwards.
JobFits(th) ==
    job[th].kind # "none" =>
        /\ phase[job[th].session] # "new"
        /\ job[th].session \in TCP =>
              /\ th = job[th].session
              /\ phase[th] = IF job[th].kind = "closing" THEN "leaving" ELSE "open"

JobsFit == \A th \in Threads : JobFits(th)

PhasesFit ==
    /\ \A s \in Sessions : phase[s] = "new" =>
          subs[s] = {} /\ \A t \in Tasks : told[s][t] # "owner"
    /\ \A s \in TCP : phase[s] # "evicted"

Fits == TypeOK /\ RegistryOK /\ ClaimsFit /\ JobsFit /\ PhasesFit

LEMMA ServingFacts ==
    ASSUME Fits, NEW th \in Threads, NEW s \in Sessions, Serving(th, s)
    PROVE  /\ phase[s] # "new"
           /\ s \in TCP => th = s /\ phase[s] = "open"
           /\ notices[th] = {} /\ claim[th] = {} /\ cast[th] = {}
           /\ job[th].kind \in {"none", "handling"}
<1>1. notices[th] = {} /\ claim[th] = {} /\ cast[th] = {}
  BY DEF Serving, Free, R!Idle
<1>2. CASE s \in TCP /\ th = s /\ phase[s] = "open" /\ job[th] = NoJob
  BY <1>1, <1>2 DEF NoJob
<1>3. CASE s \in UDP /\ th = Reader /\ job[th] = [kind |-> "handling", session |-> s]
  <2>1. s \notin TCP
    BY <1>3
  <2>2. job[th].kind = "handling" /\ job[th].session = s
    BY <1>3
  <2>3. phase[s] # "new"
    BY <2>2 DEF Fits, JobsFit, JobFits
  <2>4. QED
    BY <1>1, <2>1, <2>2, <2>3
<1>4. QED
  BY <1>2, <1>3 DEF Serving

LEMMA FitsInit == Init => ClaimsFit /\ JobsFit /\ PhasesFit
BY DEF Init, R!Init, Threads, ClaimsFit, JobsFit, JobFits, NoJob, PhasesFit, Sessions

LEMMA ContinueFits ==
    ASSUME TypeOK, JobsFit, UNCHANGED phase, NEW th \in Threads, NEW j \in Job, Continue(th, j),
           \/ j = NoJob
           \/ /\ phase[j.session] # "new"
              /\ j.session \in TCP => /\ th = j.session /\ j.kind # "closing"
                                      /\ phase[th] = "open"
    PROVE  JobsFit'
<1>1. job' = [job EXCEPT ![th] = j] /\ job \in [Threads -> Job]
  BY DEF Continue, TypeOK
<1>2. ASSUME NEW x \in Threads, x # th
      PROVE  JobFits(x)'
  BY <1>1, <1>2 DEF JobsFit, JobFits
<1>3. JobFits(th)'
  BY <1>1 DEF JobFits, NoJob
<1>4. QED
  BY <1>2, <1>3 DEF JobsFit

\* What the goroutine goes on with serves the same session.
LEMMA ContinueSame ==
    ASSUME TypeOK, JobsFit, UNCHANGED phase, NEW th \in Threads, NEW j \in Job, Continue(th, j),
           job[th].kind \notin {"none", "closing"}, j.session = job[th].session, j.kind # "closing"
    PROVE  JobsFit'
<1>1. JobFits(th)
  BY DEF JobsFit
<1>2. QED
  BY <1>1, ContinueFits DEF JobFits

\* A listing and the offers that follow from it are one loop.
LEMMA OfferingGoesOn ==
    ASSUME job \in [Threads -> Job], NEW th \in Threads,
           ListAvailable(th) \/ \E t \in Tasks : OfferListed(th, t)
    PROVE  \E j \in Job :
              /\ job[th].kind \in {"listing", "offering"}
              /\ UNCHANGED <<phase, claim, subs, told>>
              /\ Continue(th, j) /\ job'[th] = j
              /\ j = NoJob \/ (j.kind = "offering" /\ j.session = job[th].session)
<1>1. /\ job[th] \in Job /\ job[th].kind \in {"listing", "offering"}
      /\ UNCHANGED <<phase, claim, subs, told>>
  BY DEF ListAvailable, OfferListed, registryVars, clientVars
<1>2. /\ job[th].session \in Sessions
      /\ job[th].kind = "offering" => job[th].left \in SUBSET Tasks
  BY <1>1, JobFacts
<1>3. \E left \in SUBSET Tasks : OfferRest(th, job[th].session, left)
  <2>1. CASE ListAvailable(th)
    BY <2>1 DEF ListAvailable
  <2>2. ASSUME NEW t \in Tasks, OfferListed(th, t)
        PROVE  \E left \in SUBSET Tasks : OfferRest(th, job[th].session, left)
    <3>1. job[th].left \ {t} \in SUBSET Tasks
      BY <1>2, <2>2 DEF OfferListed
    <3>2. QED
      BY <2>2, <3>1 DEF OfferListed
  <2>3. QED
    BY <2>1, <2>2
<1>4. PICK j \in Job : /\ Continue(th, j) /\ job'[th] = j
                       /\ j = NoJob \/ (j.kind = "offering" /\ j.session = job[th].session)
  BY <1>2, <1>3, OfferRestFacts, JobTypes
<1>5. QED
  BY <1>1, <1>4

\* A lost event tells its addressee of the loss, and nobody else of anything.
LEMMA ToldLost ==
    ASSUME TypeOK, NEW th \in Threads, NEW n \in notices[th], FireLost(th, n),
           NEW s \in Sessions, NEW t \in Tasks
    PROVE  told'[s][t] = IF s = n.owner /\ t = n.task /\ Present(s) THEN "lost" ELSE told[s][t]
<1>1. told \in [Sessions -> [Tasks -> {"nothing", "owner", "lost"}]]
  BY DEF TypeOK
<1>2. told' = IF Present(n.owner) THEN [told EXCEPT ![n.owner][n.task] = "lost"] ELSE told
  BY DEF FireLost
<1>3. CASE s # n.owner \/ ~Present(n.owner)
  BY <1>1, <1>2, <1>3
<1>4. CASE s = n.owner /\ Present(n.owner)
  <2>1. told'[s] = [told[s] EXCEPT ![n.task] = "lost"]
    BY <1>1, <1>2, <1>4
  <2>2. QED
    BY <1>1, <1>4, <2>1
<1>5. QED
  BY <1>3, <1>4

LEMMA FitsStep == Fits /\ [Next]_vars => ClaimsFit' /\ JobsFit' /\ PhasesFit'
<1> SUFFICES ASSUME Fits, [Next]_vars
             PROVE  ClaimsFit' /\ JobsFit' /\ PhasesFit'
  OBVIOUS
<1> USE DEF registryVars, clientVars
<1> USE ThreadFacts
<1>t. TypeOK /\ ClaimsFit /\ JobsFit /\ PhasesFit
  BY DEF Fits
<1>d. /\ phase \in [Sessions -> Phase]
      /\ job \in [Threads -> Job]
      /\ claim \in [Threads -> SUBSET (Tasks \X Sessions)]
  BY RegistryFacts DEF Fits, TypeOK
<1>c. TCP \subseteq Sessions /\ UDP \subseteq Sessions /\ TCP \cap UDP = {}
  BY DEF Sessions
<1>p. UNCHANGED <<phase, claim>> => ClaimsFit'
  BY <1>t DEF ClaimsFit
<1>q. UNCHANGED <<phase, subs, told>> => PhasesFit'
  BY <1>t DEF PhasesFit
<1>r. UNCHANGED <<phase, job>> => JobsFit'
  BY <1>t DEF JobsFit, JobFits
<1>s. ASSUME NEW th \in Threads, job[th].kind # "none"
      PROVE  phase[job[th].session] # "new" /\ job[th].session \in Sessions
  BY <1>s, <1>t, <1>d, JobFacts DEF JobsFit, JobFits
<1>1. ASSUME NEW s \in Sessions, Connect(s)
      PROVE  ClaimsFit' /\ JobsFit' /\ PhasesFit'
  <2>1. /\ phase[s] = "new" /\ phase' = [phase EXCEPT ![s] = "open"]
        /\ UNCHANGED <<claim, subs, job, told>>
    BY <1>1 DEF Connect
  <2>2. ClaimsFit'
    BY <1>t, <1>c, <1>d, <2>1 DEF ClaimsFit
  <2>3. JobsFit'
    BY <1>t, <1>c, <1>d, <1>s, <2>1 DEF JobsFit, JobFits
  <2>4. PhasesFit'
    BY <1>t, <1>c, <1>d, <2>1 DEF PhasesFit
  <2>5. QED
    BY <2>2, <2>3, <2>4
<1>2. ASSUME NEW s \in Sessions, Receive(s)
      PROVE  ClaimsFit' /\ JobsFit' /\ PhasesFit'
  <2>1. /\ s \in UDP /\ s \notin TCP /\ phase' = [phase EXCEPT ![s] = "open"]
        /\ job' = [job EXCEPT ![Reader] = [kind |-> "handling", session |-> s]]
        /\ UNCHANGED <<claim, subs, told>>
    BY <1>2 DEF Receive, Continue
  <2>2. ClaimsFit'
    BY <1>t, <1>c, <1>d, <2>1 DEF ClaimsFit
  <2>3. JobsFit'
    <3>1. ASSUME NEW th \in Threads, th # Reader
          PROVE  JobFits(th)'
      <4>1. JobFits(th) /\ job'[th] = job[th]
        BY <1>t, <1>d, <2>1, <3>1 DEF JobsFit
      <4>2. \A r \in Sessions : phase'[r] = phase[r] \/ (phase'[r] = "open" /\ r \notin TCP)
        BY <1>d, <2>1
      <4>3. QED
        BY <1>c, <1>s, <4>1, <4>2 DEF JobFits
    <3>2. JobFits(Reader)'
      <4>1. job'[Reader] = [kind |-> "handling", session |-> s] /\ phase'[s] = "open"
        BY <1>d, <2>1
      <4>2. QED
        BY <2>1, <4>1 DEF JobFits
    <3>3. QED
      BY <3>1, <3>2 DEF JobsFit
  <2>4. PhasesFit'
    BY <1>t, <1>c, <1>d, <2>1 DEF PhasesFit
  <2>5. QED
    BY <2>2, <2>3, <2>4
<1>3. ASSUME NEW s \in Sessions, Disconnect(s)
      PROVE  ClaimsFit' /\ JobsFit' /\ PhasesFit'
  <2>1. /\ s \in TCP /\ s \in Threads /\ phase[s] = "open" /\ phase' = [phase EXCEPT ![s] = "leaving"]
        /\ job[s] = NoJob
        /\ job' = [job EXCEPT ![s] = [kind |-> "closing", session |-> s]]
        /\ claim[s] = {} /\ UNCHANGED <<claim, subs, told>>
    BY <1>3 DEF Disconnect, Continue, Free, R!Idle, R!ReleaseAll
  <2>2. ClaimsFit'
    BY <1>t, <1>c, <1>d, <2>1 DEF ClaimsFit
  <2>3. JobsFit'
    <3>1. ASSUME NEW th \in Threads, th # s
          PROVE  JobFits(th)'
      <4>1. JobFits(th) /\ job'[th] = job[th]
        BY <1>t, <1>d, <2>1, <3>1 DEF JobsFit
      <4>2. \A r \in Sessions : phase'[r] = phase[r] \/ (phase'[r] = "leaving" /\ r = s)
        BY <1>d, <2>1
      <4>3. QED
        BY <1>c, <1>s, <2>1, <3>1, <4>1, <4>2 DEF JobFits
    <3>2. JobFits(s)'
      <4>1. job'[s] = [kind |-> "closing", session |-> s] /\ phase'[s] = "leaving"
        BY <1>d, <1>c, <2>1
      <4>2. QED
        BY <2>1, <4>1 DEF JobFits
    <3>3. QED
      BY <3>1, <3>2 DEF JobsFit
  <2>4. PhasesFit'
    BY <1>t, <1>c, <1>d, <2>1 DEF PhasesFit
  <2>5. QED
    BY <2>2, <2>3, <2>4
<1>4. ASSUME NEW S \in SUBSET UDP, EvictClients(S)
      PROVE  ClaimsFit' /\ JobsFit' /\ PhasesFit'
  <2>1. /\ \A r \in Sessions : \/ phase'[r] = phase[r]
                               \/ r \notin TCP /\ phase[r] = "open" /\ phase'[r] = "evicted"
        /\ UNCHANGED <<claim, subs, job, told>>
    <3>1. /\ \A r \in S : phase[r] = "open" /\ r \notin TCP
          /\ \A r \in Sessions : phase'[r] = IF r \in S THEN "evicted" ELSE phase[r]
          /\ UNCHANGED <<claim, subs, job, told>>
      <4>1. \A r \in S : r \in UDP /\ r \notin TCP
        BY <1>c
      <4>2. /\ \A r \in S : phase[r] = "open"
            /\ phase' = [r \in Sessions |-> IF r \in S THEN "evicted" ELSE phase[r]]
            /\ UNCHANGED <<claim, subs, job, told>>
        BY <1>4 DEF EvictClients
      <4>3. QED
        BY <4>1, <4>2
    <3>2. QED
      BY <3>1
  <2>2. ClaimsFit'
    BY <1>t, <1>c, <2>1 DEF ClaimsFit
  <2>3. ASSUME NEW th \in Threads
        PROVE  JobFits(th)'
    BY <1>t, <1>c, <1>s, <2>1 DEF JobsFit, JobFits
  <2>4. PhasesFit'
    BY <1>t, <1>c, <2>1 DEF PhasesFit
  <2>5. QED
    BY <2>2, <2>3, <2>4 DEF JobsFit
<1>5. ASSUME NEW s \in UDP, CloseClient(s)
      PROVE  ClaimsFit' /\ JobsFit' /\ PhasesFit'
  <2>1. /\ s \notin TCP /\ phase[s] = "evicted" /\ phase' = [phase EXCEPT ![s] = "leaving"]
        /\ job' = [job EXCEPT ![Timer] = [kind |-> "closing", session |-> s]]
        /\ UNCHANGED <<claim, subs, told>>
    BY <1>5, <1>c DEF CloseClient, Continue, R!ReleaseAll
  <2>2. ClaimsFit'
    BY <1>t, <1>c, <1>d, <2>1 DEF ClaimsFit
  <2>3. JobsFit'
    <3>1. ASSUME NEW th \in Threads, th # Timer
          PROVE  JobFits(th)'
      <4>1. JobFits(th) /\ job'[th] = job[th]
        BY <1>t, <1>d, <2>1, <3>1 DEF JobsFit
      <4>2. \A r \in Sessions : phase'[r] = phase[r] \/ (phase'[r] = "leaving" /\ r \notin TCP)
        BY <1>d, <2>1
      <4>3. QED
        BY <1>c, <1>s, <4>1, <4>2 DEF JobFits
    <3>2. JobFits(Timer)'
      <4>1. job'[Timer] = [kind |-> "closing", session |-> s] /\ phase'[s] = "leaving"
        BY <1>c, <1>d, <2>1
      <4>2. QED
        BY <2>1, <4>1 DEF JobFits
    <3>3. QED
      BY <3>1, <3>2 DEF JobsFit
  <2>4. PhasesFit'
    BY <1>t, <1>c, <1>d, <2>1 DEF PhasesFit
  <2>5. QED
    BY <2>2, <2>3, <2>4
<1>6. ASSUME NEW th \in Threads, NEW s \in Sessions, Remove(th, s)
      PROVE  ClaimsFit' /\ JobsFit' /\ PhasesFit'
  <2>1. /\ job[th].kind = "closing" /\ job[th].session = s
        /\ phase' = [phase EXCEPT ![s] = "gone"]
        /\ job' = [job EXCEPT ![th] = NoJob]
        /\ UNCHANGED <<claim, subs, told>>
    BY <1>6 DEF Remove, Continue
  <2>2. phase[s] # "new" /\ (s \in TCP => th = s /\ phase[s] = "leaving")
    BY <1>t, <2>1 DEF JobsFit, JobFits
  <2>3. ClaimsFit'
    BY <1>t, <1>c, <1>d, <2>1, <2>2 DEF ClaimsFit
  <2>4. JobsFit'
    <3>1. ASSUME NEW x \in Threads, x # th
          PROVE  JobFits(x)'
      <4>1. JobFits(x) /\ job'[x] = job[x]
        BY <1>t, <1>d, <2>1, <3>1 DEF JobsFit
      <4>2. \A r \in Sessions : phase'[r] = phase[r] \/ (phase'[r] = "gone" /\ r = s)
        BY <1>d, <2>1
      <4>3. QED
        BY <1>c, <1>s, <2>2, <3>1, <4>1, <4>2 DEF JobFits
    <3>2. JobFits(th)'
      <4>1. job'[th] = NoJob
        BY <1>d, <2>1
      <4>2. QED
        BY <4>1 DEF JobFits, NoJob
    <3>3. QED
      BY <3>1, <3>2 DEF JobsFit
  <2>5. PhasesFit'
    BY <1>t, <1>c, <1>d, <2>1 DEF PhasesFit
  <2>6. QED
    BY <2>3, <2>4, <2>5
<1>7. ASSUME NEW s \in UDP, HandleWithoutEffect(s)
      PROVE  ClaimsFit' /\ JobsFit' /\ PhasesFit'
  <2>1. UNCHANGED <<phase, claim, subs, told>> /\ Continue(Reader, NoJob)
    BY <1>7 DEF HandleWithoutEffect
  <2>2. JobsFit'
    BY <1>t, <2>1, ContinueFits, JobTypes
  <2>3. QED
    BY <1>p, <1>q, <2>1, <2>2
<1>8. ASSUME NEW th \in Threads, NEW s \in Sessions, NEW t \in Tasks, HandleAcquire(th, s, t)
      PROVE  ClaimsFit' /\ JobsFit' /\ PhasesFit'
  <2>1. /\ UNCHANGED <<phase, subs, told>> /\ Serving(th, s)
        /\ claim' = claim \/ claim' = [claim EXCEPT ![th] = {<<t, s>>}]
        /\ Continue(th, [kind |-> "acking", session |-> s, task |-> t])
    BY <1>8 DEF HandleAcquire, R!AcquireFree, R!AcquireExpired
  <2>2. JobsFit'
    <3>1. PICK j \in Job : j = [kind |-> "acking", session |-> s, task |-> t]
      BY JobTypes
    <3>2. j.session = s /\ j.kind # "closing" /\ Continue(th, j)
      BY <2>1, <3>1
    <3>3. phase[s] # "new" /\ (s \in TCP => th = s /\ phase[s] = "open")
      BY <2>1, ServingFacts
    <3>4. QED
      BY <1>t, <2>1, <3>2, <3>3, ContinueFits
  <2>3. ClaimsFit'
    BY <1>t, <1>d, <2>1, ServingFacts DEF ClaimsFit
  <2>4. QED
    BY <1>q, <2>1, <2>2, <2>3
<1>9. ASSUME NEW th \in Threads, NEW s \in Sessions, NEW t \in Tasks, Acknowledge(th, s, t)
      PROVE  ClaimsFit' /\ JobsFit' /\ PhasesFit'
  <2>1. /\ UNCHANGED <<phase, claim, subs>> /\ Continue(th, NoJob)
        /\ job[th].kind = "acking" /\ job[th].session = s
        /\ told' = told \/ told' = [told EXCEPT ![s][t] = "owner"]
    BY <1>9 DEF Acknowledge
  <2>2. phase[s] # "new"
    BY <1>s, <2>1
  <2>3. PhasesFit'
    <3>1. ASSUME NEW r \in Sessions, phase[r] = "new"
          PROVE  told'[r] = told[r]
      BY <2>1, <2>2, <3>1, <1>t DEF TypeOK
    <3>2. QED
      BY <1>t, <2>1, <3>1 DEF PhasesFit
  <2>4. JobsFit'
    BY <1>t, <2>1, ContinueFits, JobTypes
  <2>5. QED
    BY <1>p, <2>1, <2>3, <2>4
<1>10. ASSUME NEW th \in Threads, NEW s \in Sessions, NEW t \in Tasks, HandleRelease(th, s, t)
       PROVE  ClaimsFit' /\ JobsFit' /\ PhasesFit'
  <2>1. /\ UNCHANGED <<phase, claim, subs>> /\ Continue(th, NoJob) /\ Serving(th, s)
        /\ told' = [told EXCEPT ![s][t] = "nothing"]
    BY <1>10 DEF HandleRelease, R!Release
  <2>2. PhasesFit'
    <3>1. ASSUME NEW r \in Sessions, phase[r] = "new"
          PROVE  told'[r] = told[r]
      BY <2>1, <3>1, <1>t, ServingFacts DEF TypeOK
    <3>2. QED
      BY <1>t, <2>1, <3>1 DEF PhasesFit
  <2>3. JobsFit'
    BY <1>t, <2>1, ContinueFits, JobTypes
  <2>4. QED
    BY <1>p, <2>1, <2>2, <2>3
<1>11. ASSUME NEW th \in Threads, NEW s \in Sessions, NEW t \in Tasks, HandleSubmit(th, s, t)
       PROVE  ClaimsFit' /\ JobsFit' /\ PhasesFit'
  <2>1. /\ UNCHANGED <<phase, claim, subs, told>> /\ Serving(th, s)
        /\ Continue(th, [kind |-> "submitting", session |-> s, task |-> t])
    BY <1>11 DEF HandleSubmit
  <2>2. JobsFit'
    <3>1. PICK j \in Job : j = [kind |-> "submitting", session |-> s, task |-> t]
      BY JobTypes
    <3>2. j.session = s /\ j.kind # "closing" /\ Continue(th, j)
      BY <2>1, <3>1
    <3>3. phase[s] # "new" /\ (s \in TCP => th = s /\ phase[s] = "open")
      BY <2>1, ServingFacts
    <3>4. QED
      BY <1>t, <2>1, <3>2, <3>3, ContinueFits
  <2>3. QED
    BY <1>p, <1>q, <2>1, <2>2
<1>12. ASSUME NEW th \in Threads, ApplyResult(th)
       PROVE  ClaimsFit' /\ JobsFit' /\ PhasesFit'
  <2>1. UNCHANGED <<phase, claim, subs, told>> /\ Continue(th, NoJob)
    BY <1>12 DEF ApplyResult
  <2>2. JobsFit'
    BY <1>t, <2>1, ContinueFits, JobTypes
  <2>3. QED
    BY <1>p, <1>q, <2>1, <2>2
<1>13. ASSUME NEW th \in Threads, NEW s \in Sessions, NEW filter \in SUBSET Tags,
              HandleSubscribe(th, s, filter) \/ HandleUnsubscribe(th, s, filter)
       PROVE  ClaimsFit' /\ JobsFit' /\ PhasesFit'
  <2>1. /\ UNCHANGED <<phase, claim, told>> /\ Serving(th, s)
        /\ \/ Continue(th, [kind |-> "listing", session |-> s, filter |-> filter])
           \/ Continue(th, NoJob)
        /\ \A r \in Sessions : r # s => subs'[r] = subs[r]
    BY <1>t, <1>13 DEF HandleSubscribe, HandleUnsubscribe, TypeOK
  <2>2. PhasesFit'
    BY <1>t, <2>1, ServingFacts DEF PhasesFit
  <2>3. JobsFit'
    BY <1>t, <2>1, ServingFacts, ContinueFits, JobTypes
  <2>4. QED
    BY <1>p, <2>1, <2>2, <2>3
<1>14. ASSUME NEW th \in Threads, ListAvailable(th) \/ \E t \in Tasks : OfferListed(th, t)
       PROVE  ClaimsFit' /\ JobsFit' /\ PhasesFit'
  <2>1. PICK j \in Job :
           /\ job[th].kind \in {"listing", "offering"}
           /\ UNCHANGED <<phase, claim, subs, told>>
           /\ Continue(th, j)
           /\ j = NoJob \/ (j.kind = "offering" /\ j.session = job[th].session)
    BY <1>14, <1>d, OfferingGoesOn
  <2>2. JobsFit'
    <3>1. CASE j.kind = "offering" /\ j.session = job[th].session
      BY <1>t, <2>1, <3>1, ContinueSame
    <3>2. CASE j = NoJob
      BY <1>t, <2>1, <3>2, ContinueFits, JobTypes
    <3>3. QED
      BY <2>1, <3>1, <3>2
  <2>3. QED
    BY <1>p, <1>q, <2>1, <2>2
<1>15. ASSUME NEW t \in Tasks, Register(t) \/ LeaseRunsOut(t)
       PROVE  ClaimsFit' /\ JobsFit' /\ PhasesFit'
  BY <1>15, <1>p, <1>q, <1>r DEF Register, LeaseRunsOut, R!Register, R!LeaseRunsOut
<1>16. CASE Watch
  BY <1>16, <1>p, <1>q, <1>r DEF Watch, R!EvictExpired
<1>17. ASSUME NEW th \in Threads, NEW t \in Tasks, NEW s \in Sessions, ResumeAcquire(th, t, s)
       PROVE  ClaimsFit' /\ JobsFit' /\ PhasesFit'
  <2>1. UNCHANGED <<phase, job, subs, told>> /\ claim' = [claim EXCEPT ![th] = {}]
    BY <1>17 DEF ResumeAcquire, R!AcquireResume
  <2>2. ClaimsFit'
    BY <1>t, <1>d, <2>1 DEF ClaimsFit
  <2>3. QED
    BY <1>q, <1>r, <2>1, <2>2
<1>18. ASSUME NEW th \in Threads, NEW n \in notices[th], FireLost(th, n)
       PROVE  ClaimsFit' /\ JobsFit' /\ PhasesFit'
  <2>1. UNCHANGED <<phase, job, subs, claim>>
    BY <1>18 DEF FireLost, R!Fire
  <2>2. PhasesFit'
    <3>1. ASSUME NEW r \in Sessions, NEW t \in Tasks, told[r][t] # "owner"
          PROVE  told'[r][t] # "owner"
      BY <1>t, <1>18, <3>1, ToldLost
    <3>2. QED
      BY <1>t, <2>1, <3>1 DEF PhasesFit
  <2>3. QED
    BY <1>p, <1>r, <2>1, <2>2
<1>19. ASSUME NEW th \in Threads, NEW n \in notices[th], FireAvailable(th, n)
       PROVE  ClaimsFit' /\ JobsFit' /\ PhasesFit'
  BY <1>19, <1>p, <1>q, <1>r DEF FireAvailable, R!Fire
<1>20. ASSUME NEW th \in Threads, NEW t \in Tasks, NEW s \in Sessions, Visit(th, t, s)
       PROVE  ClaimsFit' /\ JobsFit' /\ PhasesFit'
  BY <1>20, <1>p, <1>q, <1>r DEF Visit
<1>21. CASE UNCHANGED vars
  BY <1>21, <1>p, <1>q, <1>r DEF vars
<1>22. QED
  BY <1>1, <1>2, <1>3, <1>4, <1>5, <1>6, <1>7, <1>8, <1>9, <1>10, <1>11, <1>12, <1>13, <1>14,
     <1>15, <1>16, <1>17, <1>18, <1>19, <1>20, <1>21
  DEF Next, Environment, Request, Proceed

LEMMA FitsHolds == Spec => []Fits
<1>1. Init => TypeOK /\ ClaimsFit /\ JobsFit /\ PhasesFit
  BY TypeInit, FitsInit
<1>2. Fits /\ [Next]_vars => TypeOK' /\ ClaimsFit' /\ JobsFit' /\ PhasesFit'
  BY TypeStep, FitsStep DEF Fits
<1>3. Fits <=> TypeOK /\ RegistryOK /\ ClaimsFit /\ JobsFit /\ PhasesFit
  BY DEF Fits
<1>4. QED
  BY <1>1, <1>2, <1>3, RegistryHolds, PTL DEF Spec

-----------------------------------------------------------------------------
(* What a step does to tasks and to the events owed *)

LEMMA MakeAvailableFacts ==
    ASSUME Fits, NEW th \in Threads, NEW S \in SUBSET Tasks, NEW reason, NEW kinds,
           R!MakeAvailable(th, S, reason, kinds)
    PROVE  /\ \A t \in Tasks : t \notin S => task'[t] = task[t]
           /\ \A t \in S : /\ task'[t].status = "available" /\ task'[t].owner = NoOwner
                          /\ \E n \in notices'[th] :
                                n.task = t /\ n.owner = task[t].owner /\ n.left = kinds
           /\ \A x \in Threads : x # th => notices'[x] = notices[x]
<1>1. /\ task' = [t \in Tasks |-> IF t \in S THEN R!Free("available") ELSE task[t]]
      /\ notices' = [notices EXCEPT ![th] =
                        {[task |-> t, owner |-> task[t].owner,
                          reason |-> reason, left |-> kinds] : t \in S}]
  BY DEF R!MakeAvailable
<1>2. notices \in [Threads -> SUBSET R!Notice]
  BY RegistryFacts DEF Fits
<1>3. ASSUME NEW t \in S
      PROVE  \E n \in notices'[th] : n.task = t /\ n.owner = task[t].owner /\ n.left = kinds
  <2>1. [task |-> t, owner |-> task[t].owner, reason |-> reason, left |-> kinds] \in notices'[th]
    BY <1>1, <1>2
  <2>2. QED
    BY <2>1
<1>4. QED
  BY <1>1, <1>2, <1>3 DEF R!Free

LEMMA TakenBack ==
    ASSUME Fits, NEW th \in Threads, NEW S \in SUBSET Tasks, NEW reason, NEW kinds,
           R!MakeAvailable(th, S, reason, kinds), NEW t \in S
    PROVE  /\ task'[t].owner = NoOwner
           /\ \E n \in notices'[th] : n.task = t /\ n.owner = task[t].owner /\ n.left = kinds
BY MakeAvailableFacts

LEMMA OwnedTasksFacts ==
    ASSUME NEW s \in Sessions
    PROVE  \E S \in SUBSET Tasks : /\ S = R!OwnedTasks(s)
                                   /\ \A t \in S : task[t].status = "owned"
BY DEF R!OwnedTasks

\* A step that makes tasks available leaves their available events owed and,
\* unless it is a registration or a release, their lost events.
TakesBack(th, S, reason, kinds) ==
    /\ R!MakeAvailable(th, S, reason, kinds)
    /\ notices[th] = {}
    /\ "available" \in kinds
    /\ \/ "lost" \in kinds /\ \A t \in S : task[t].status = "owned"
       \/ \A t \in S : task[t].status = "absent"
       \/ \E x \in Threads, s \in Sessions, t \in Tasks :
             HandleRelease(x, s, t) /\ S = {t} /\ task[t].owner = s

LEMMA RegistryEffects ==
    ASSUME Fits, [Next]_vars
    PROVE  \/ UNCHANGED registryVars
           \/ \E th \in Threads, S \in SUBSET Tasks :
                 \E reason, kinds : TakesBack(th, S, reason, kinds)
           \/ \E th \in TCP \cup {Reader}, s \in Sessions, t \in Tasks :
                 HandleAcquire(th, s, t) /\ R!AcquireFree(th, t, s)
           \/ \E t \in Tasks : LeaseRunsOut(t)
           \/ \E th \in Threads, t \in Tasks, s \in Sessions : ResumeAcquire(th, t, s)
           \/ \E th \in Threads : \E n \in notices[th] : FireLost(th, n) \/ FireAvailable(th, n)
<1> USE ThreadFacts
<1> DEFINE Goal == \E th \in Threads, S \in SUBSET Tasks :
                     \E reason, kinds : TakesBack(th, S, reason, kinds)
<1>1. ASSUME NEW th \in Threads, NEW s \in Sessions, R!ReleaseAll(th, s)
      PROVE  Goal
  <2>1. PICK S \in SUBSET Tasks : S = R!OwnedTasks(s) /\ \A t \in S : task[t].status = "owned"
    BY OwnedTasksFacts
  <2>2. R!MakeAvailable(th, S, "disconnected", R!Kinds) /\ notices[th] = {}
    BY <1>1, <2>1 DEF R!ReleaseAll, R!Idle
  <2>3. TakesBack(th, S, "disconnected", R!Kinds)
    BY <2>1, <2>2 DEF TakesBack, R!Kinds
  <2>4. QED
    BY <2>3
<1>2. ASSUME NEW s \in TCP, Disconnect(s)
      PROVE  Goal
  BY <1>1, <1>2 DEF Disconnect, Sessions
<1>3. ASSUME NEW s \in UDP, CloseClient(s)
      PROVE  Goal
  BY <1>1, <1>3 DEF CloseClient, Sessions
<1>4. ASSUME NEW th \in TCP \cup {Reader}, NEW s \in Sessions, NEW t \in Tasks,
             HandleAcquire(th, s, t), R!AcquireExpired(th, t, s)
      PROVE  Goal
  <2>1. R!MakeAvailable(th, {t}, "lease_expired", R!Kinds) /\ notices[th] = {} /\ task[t].status = "owned"
    BY <1>4 DEF R!AcquireExpired, R!Idle, R!Expired
  <2>2. TakesBack(th, {t}, "lease_expired", R!Kinds)
    BY <2>1 DEF TakesBack, R!Kinds
  <2>3. QED
    BY <2>2
<1>5. ASSUME NEW th \in TCP \cup {Reader}, NEW s \in Sessions, NEW t \in Tasks, HandleRelease(th, s, t)
      PROVE  Goal
  <2>1. R!MakeAvailable(th, {t}, "released", {"available"}) /\ notices[th] = {} /\ task[t].owner = s
    BY <1>5 DEF HandleRelease, R!Release, R!Idle
  <2>2. TakesBack(th, {t}, "released", {"available"})
    BY <1>5, <2>1 DEF TakesBack
  <2>3. QED
    BY <2>2
<1>6. ASSUME NEW t \in Tasks, Register(t)
      PROVE  Goal
  <2>1. R!MakeAvailable(App, {t}, "registered", {"available"}) /\ notices[App] = {}
        /\ task[t].status = "absent"
    BY <1>6 DEF Register, R!Register, R!Idle
  <2>2. TakesBack(App, {t}, "registered", {"available"})
    BY <2>1 DEF TakesBack
  <2>3. QED
    BY <2>2
<1>7. CASE Watch
  <2>1. PICK S \in SUBSET Tasks : S = {t \in Tasks : R!Expired(t)}
    OBVIOUS
  <2>2. R!MakeAvailable(Watcher, S, "lease_expired", R!Kinds) /\ notices[Watcher] = {}
    BY <1>7, <2>1 DEF Watch, R!EvictExpired, R!Idle
  <2>3. TakesBack(Watcher, S, "lease_expired", R!Kinds)
    BY <2>1, <2>2 DEF TakesBack, R!Kinds, R!Expired
  <2>4. QED
    BY <2>3
<1>8. \A th \in TCP \cup {Reader}, s \in Sessions, t \in Tasks :
         HandleAcquire(th, s, t) => R!AcquireFree(th, t, s) \/ R!AcquireExpired(th, t, s)
  BY DEF HandleAcquire
<1> HIDE DEF Goal
<1>9. QED
  BY RegistryCases, <1>2, <1>3, <1>4, <1>5, <1>6, <1>7, <1>8 DEF Goal

LEMMA FireFacts ==
    ASSUME Fits, NEW th \in Threads, NEW n \in notices[th], R!Fire(th, n)
    PROVE  /\ task' = task /\ n \in R!Notice
           /\ \A x \in Threads : \A m \in notices[x] :
                 (x # th \/ m # n) => m \in notices'[x]
           /\ \A k \in n.left : k # R!NextKind(n) =>
                 \E m \in notices'[th] : m.task = n.task /\ m.owner = n.owner /\ k \in m.left
<1> DEFINE rest == [n EXCEPT !.left = @ \ {R!NextKind(n)}]
<1>1. notices \in [Threads -> SUBSET R!Notice] /\ n \in R!Notice
  BY RegistryFacts DEF Fits
<1>2. /\ rest.task = n.task /\ rest.owner = n.owner
      /\ rest.left = n.left \ {R!NextKind(n)}
  BY <1>1 DEF R!Notice
<1>3. /\ task' = task
      /\ notices' = [notices EXCEPT ![th] =
                        (@ \ {n}) \cup (IF rest.left = {} THEN {} ELSE {rest})]
  BY DEF R!Fire
<1> HIDE DEF rest
<1>4. \A x \in Threads : \A m \in notices[x] : (x # th \/ m # n) => m \in notices'[x]
  BY <1>1, <1>3
<1>5. ASSUME NEW k \in n.left, k # R!NextKind(n)
      PROVE  \E m \in notices'[th] : m.task = n.task /\ m.owner = n.owner /\ k \in m.left
  <2>1. k \in rest.left /\ rest.left # {}
    BY <1>2, <1>5
  <2>2. rest \in notices'[th]
    BY <1>1, <1>3, <2>1
  <2>3. QED
    BY <1>2, <2>1, <2>2
<1>6. QED
  BY <1>1, <1>3, <1>4, <1>5

\* An event owed stays owed until its handler is called.
LEMMA NoticeStep ==
    ASSUME Fits, [Next]_vars, NEW th \in Threads, NEW n \in notices[th]
    PROVE  n \in notices'[th] \/ FireLost(th, n) \/ FireAvailable(th, n)
<1>1. CASE UNCHANGED registryVars
  BY <1>1 DEF registryVars
<1>2. ASSUME NEW x \in Threads, NEW S \in SUBSET Tasks, NEW reason, NEW kinds,
             TakesBack(x, S, reason, kinds)
      PROVE  n \in notices'[th]
  <2>1. R!MakeAvailable(x, S, reason, kinds) /\ notices[x] = {}
    BY <1>2 DEF TakesBack
  <2>2. QED
    BY <2>1, MakeAvailableFacts
<1>3. ASSUME NEW x \in TCP \cup {Reader}, NEW s \in Sessions, NEW t \in Tasks, R!AcquireFree(x, t, s)
      PROVE  n \in notices'[th]
  BY <1>3 DEF R!AcquireFree
<1>4. ASSUME NEW t \in Tasks, LeaseRunsOut(t)
      PROVE  n \in notices'[th]
  BY <1>4 DEF LeaseRunsOut, R!LeaseRunsOut
<1>5. ASSUME NEW x \in Threads, NEW t \in Tasks, NEW s \in Sessions, ResumeAcquire(x, t, s)
      PROVE  n \in notices'[th]
  BY <1>5 DEF ResumeAcquire, R!AcquireResume
<1>6. ASSUME NEW x \in Threads, NEW m \in notices[x], FireLost(x, m) \/ FireAvailable(x, m)
      PROVE  n \in notices'[th] \/ FireLost(th, n) \/ FireAvailable(th, n)
  <2>1. R!Fire(x, m)
    BY <1>6 DEF FireLost, FireAvailable
  <2>2. CASE x = th /\ m = n
    BY <1>6, <2>2
  <2>3. CASE x # th \/ m # n
    BY <2>1, <2>3, FireFacts
  <2>4. QED
    BY <2>2, <2>3
<1>7. QED
  BY RegistryEffects, <1>1, <1>2, <1>3, <1>4, <1>5, <1>6

\* Whoever ceases to own a task is owed the lost event, has released it, or was
\* overtaken by an Acquire under way.
LEMMA OwnerStep ==
    ASSUME Fits, [Next]_vars, NEW s \in Sessions, NEW t \in Tasks,
           task[t].owner = s, task'[t].owner # s
    PROVE  \/ \E th \in Threads : \E n \in notices'[th] :
                 n.owner = s /\ n.task = t /\ "lost" \in n.left
           \/ \E th \in Threads : HandleRelease(th, s, t)
           \/ <<s, t>> \in misled'
<1>0. task \in [Tasks -> R!Task] /\ task[t].status = "owned" /\ s # NoOwner
  BY RegistryFacts DEF Fits
<1>1. CASE UNCHANGED registryVars
  BY <1>1 DEF registryVars
<1>2. ASSUME NEW x \in Threads, NEW S \in SUBSET Tasks, NEW reason, NEW kinds,
             TakesBack(x, S, reason, kinds)
      PROVE  \/ \E th \in Threads : \E n \in notices'[th] :
                   n.owner = s /\ n.task = t /\ "lost" \in n.left
             \/ \E th \in Threads : HandleRelease(th, s, t)
  <2>1. R!MakeAvailable(x, S, reason, kinds)
    BY <1>2 DEF TakesBack
  <2>2. /\ t \in S
        /\ \E n \in notices'[x] : n.task = t /\ n.owner = s /\ n.left = kinds
    BY <2>1, MakeAvailableFacts
  <2>3. "lost" \in kinds \/ \E th \in Threads : HandleRelease(th, s, t)
    BY <1>0, <1>2, <2>2 DEF TakesBack
  <2>4. QED
    BY <2>2, <2>3
<1>3. ASSUME NEW x \in TCP \cup {Reader}, NEW r \in Sessions, NEW y \in Tasks, R!AcquireFree(x, y, r)
      PROVE  FALSE
  <2>1. task' = [task EXCEPT ![y] = R!OwnedBy(r)] /\ task[y].status # "owned"
    BY <1>3 DEF R!AcquireFree, R!Grant
  <2>2. QED
    BY <1>0, <2>1
<1>4. ASSUME NEW y \in Tasks, LeaseRunsOut(y)
      PROVE  FALSE
  <2>1. task' = [task EXCEPT ![y].lease = "expired"]
    BY <1>4 DEF LeaseRunsOut, R!LeaseRunsOut
  <2>2. task[y] \in R!Task
    BY <1>0
  <2>3. [task[y] EXCEPT !.lease = "expired"].owner = task[y].owner
    BY <2>2 DEF R!Task
  <2>4. task'[t].owner = task[t].owner
    BY <1>0, <2>1, <2>3
  <2>5. QED
    BY <2>4
<1>5. ASSUME NEW x \in Threads, NEW y \in Tasks, NEW r \in Sessions, ResumeAcquire(x, y, r)
      PROVE  <<s, t>> \in misled'
  <2>1. /\ task' = [task EXCEPT ![y] = R!OwnedBy(r)]
        /\ misled' = misled \cup {<<o, y>> : o \in {task[y].owner} \ {r, NoOwner}}
    BY <1>5 DEF ResumeAcquire, R!AcquireResume, R!Grant
  <2>2. t = y
    BY <1>0, <2>1
  <2>3. R!OwnedBy(r).owner = r
    BY DEF R!OwnedBy
  <2>4. s # r
    BY <1>0, <2>1, <2>2, <2>3
  <2>5. QED
    BY <1>0, <2>1, <2>2, <2>4
<1>6. ASSUME NEW x \in Threads, NEW m \in notices[x], FireLost(x, m) \/ FireAvailable(x, m)
      PROVE  FALSE
  <2>1. R!Fire(x, m)
    BY <1>6 DEF FireLost, FireAvailable
  <2>2. QED
    BY <2>1, FireFacts
<1>7. QED
  BY RegistryEffects, <1>1, <1>2, <1>3, <1>4, <1>5, <1>6

\* What becomes available is owed the available event.
LEMMA AvailableStep ==
    ASSUME Fits, [Next]_vars, NEW t \in Tasks,
           task[t].status # "available", task'[t].status = "available"
    PROVE  \E th \in Threads : \E n \in notices'[th] : n.task = t /\ "available" \in n.left
<1>0. task \in [Tasks -> R!Task]
  BY RegistryFacts DEF Fits
<1>1. CASE UNCHANGED registryVars
  BY <1>1 DEF registryVars
<1>2. ASSUME NEW x \in Threads, NEW S \in SUBSET Tasks, NEW reason, NEW kinds,
             TakesBack(x, S, reason, kinds)
      PROVE  \E th \in Threads : \E n \in notices'[th] : n.task = t /\ "available" \in n.left
  <2>1. R!MakeAvailable(x, S, reason, kinds) /\ "available" \in kinds
    BY <1>2 DEF TakesBack
  <2>2. \A u \in Tasks : u \notin S => task'[u] = task[u]
    BY <2>1, MakeAvailableFacts
  <2>3. t \in S
    BY <2>2
  <2>4. PICK n \in notices'[x] : n.task = t /\ n.left = kinds
    BY <2>1, <2>3, TakenBack
  <2>5. QED
    BY <2>1, <2>4
<1>3. ASSUME NEW y \in Tasks, NEW r \in Sessions, R!Grant(y, r)
      PROVE  FALSE
  <2>1. task' = [task EXCEPT ![y] = R!OwnedBy(r)] /\ R!OwnedBy(r).status = "owned"
    BY <1>3 DEF R!Grant, R!OwnedBy
  <2>2. QED
    BY <1>0, <2>1
<1>4. ASSUME NEW x \in TCP \cup {Reader}, NEW r \in Sessions, NEW y \in Tasks, R!AcquireFree(x, y, r)
      PROVE  FALSE
  BY <1>3, <1>4 DEF R!AcquireFree
<1>5. ASSUME NEW y \in Tasks, LeaseRunsOut(y)
      PROVE  FALSE
  <2>1. task' = [task EXCEPT ![y].lease = "expired"]
    BY <1>5 DEF LeaseRunsOut, R!LeaseRunsOut
  <2>2. [task[y] EXCEPT !.lease = "expired"].status = task[y].status
    BY <1>0 DEF R!Task
  <2>3. task'[t].status = task[t].status
    BY <1>0, <2>1, <2>2
  <2>4. QED
    BY <2>3
<1>6. ASSUME NEW x \in Threads, NEW y \in Tasks, NEW r \in Sessions, ResumeAcquire(x, y, r)
      PROVE  FALSE
  BY <1>3, <1>6 DEF ResumeAcquire, R!AcquireResume
<1>7. ASSUME NEW x \in Threads, NEW m \in notices[x], FireLost(x, m) \/ FireAvailable(x, m)
      PROVE  FALSE
  <2>1. R!Fire(x, m)
    BY <1>7 DEF FireLost, FireAvailable
  <2>2. QED
    BY <2>1, FireFacts
<1>8. QED
  BY RegistryEffects, <1>1, <1>2, <1>4, <1>5, <1>6, <1>7

-----------------------------------------------------------------------------
(* What a step does to handlers and to what clients were told *)

\* The handlers' loops go on as they must, other handlers end in one step.
LEMMA JobStep ==
    ASSUME Fits, [Next]_vars, NEW th \in Threads
    PROVE  \/ job'[th] = job[th]
           \/ /\ job[th].kind \notin {"listing", "offering"}
              /\ job'[th].kind \in {"none", "handling", "closing", "acking"}
           \/ \E s \in Sessions, t \in Tasks :
                 HandleSubmit(th, s, t) /\ job'[th] = [kind |-> "submitting", session |-> s, task |-> t]
           \/ \E s \in Sessions, filter \in SUBSET Tags : HandleSubscribe(th, s, filter)
           \/ ListAvailable(th)
           \/ \E t \in Tasks : OfferListed(th, t)
<1> USE ThreadFacts DEF registryVars, clientVars
<1> DEFINE Goal(x) ==
           \/ job'[x] = job[x]
           \/ /\ job[x].kind \notin {"listing", "offering"}
              /\ job'[x].kind \in {"none", "handling", "closing", "acking"}
           \/ \E s \in Sessions, t \in Tasks :
                 HandleSubmit(x, s, t) /\ job'[x] = [kind |-> "submitting", session |-> s, task |-> t]
           \/ \E s \in Sessions, filter \in SUBSET Tags : HandleSubscribe(x, s, filter)
           \/ ListAvailable(x)
           \/ \E t \in Tasks : OfferListed(x, t)
<1>d. job \in [Threads -> Job]
  BY DEF Fits, TypeOK
<1>c. \A x \in Threads : \A j \in Job :
         Continue(x, j) => job'[th] = IF th = x THEN j ELSE job[th]
  BY <1>d DEF Continue
<1>n. NoJob.kind = "none"
  BY DEF NoJob
<1>g. ASSUME NEW x \in Threads, NEW j \in Job, Continue(x, j),
             job[x].kind \notin {"listing", "offering"},
             j.kind \in {"none", "handling", "closing", "acking"}
      PROVE  Goal(th)
  BY <1>c, <1>g
<1>u. job' = job => Goal(th)
  OBVIOUS
<1>s. \A x \in Threads, s \in Sessions : Serving(x, s) => job[x].kind \notin {"listing", "offering"}
  BY ServingFacts
<1>1. ASSUME NEW s \in Sessions, Connect(s)
      PROVE  Goal(th)
  BY <1>1, <1>u DEF Connect
<1>2. ASSUME NEW s \in Sessions, Receive(s)
      PROVE  Goal(th)
  <2>1. PICK j \in Job : j = [kind |-> "handling", session |-> s]
    BY JobTypes
  <2>2. Continue(Reader, j) /\ j.kind = "handling" /\ job[Reader].kind = "none"
    BY <1>2, <1>n, <2>1 DEF Receive
  <2>3. QED
    BY <1>g, <2>2
<1>3. ASSUME NEW s \in Sessions, Disconnect(s)
      PROVE  Goal(th)
  <2>1. PICK j \in Job : j = [kind |-> "closing", session |-> s]
    BY JobTypes
  <2>2. Continue(s, j) /\ j.kind = "closing" /\ job[s].kind = "none" /\ s \in Threads
    BY <1>3, <1>n, <2>1 DEF Disconnect
  <2>3. QED
    BY <1>g, <2>2
<1>4. ASSUME NEW S \in SUBSET UDP, EvictClients(S)
      PROVE  Goal(th)
  BY <1>4, <1>u DEF EvictClients
<1>5. ASSUME NEW s \in UDP, CloseClient(s)
      PROVE  Goal(th)
  <2>1. PICK j \in Job : j = [kind |-> "closing", session |-> s]
    BY JobTypes DEF Sessions
  <2>2. Continue(Timer, j) /\ j.kind = "closing" /\ job[Timer].kind = "none"
    BY <1>5, <1>n, <2>1 DEF CloseClient
  <2>3. QED
    BY <1>g, <2>2
<1>6. ASSUME NEW x \in Threads, NEW s \in Sessions, Remove(x, s)
      PROVE  Goal(th)
  <2>1. Continue(x, NoJob) /\ job[x].kind = "closing"
    BY <1>6 DEF Remove
  <2>2. QED
    BY <1>g, <1>n, <2>1, JobTypes
<1>7. ASSUME NEW s \in UDP, HandleWithoutEffect(s)
      PROVE  Goal(th)
  <2>1. Continue(Reader, NoJob) /\ Serving(Reader, s) /\ s \in Sessions
    BY <1>7 DEF HandleWithoutEffect, Sessions
  <2>2. QED
    BY <1>g, <1>n, <1>s, <2>1, JobTypes
<1>8. ASSUME NEW x \in Threads, NEW s \in Sessions, NEW t \in Tasks, HandleAcquire(x, s, t)
      PROVE  Goal(th)
  <2>1. PICK j \in Job : j = [kind |-> "acking", session |-> s, task |-> t]
    BY JobTypes
  <2>2. Continue(x, j) /\ j.kind = "acking" /\ Serving(x, s)
    BY <1>8, <2>1 DEF HandleAcquire
  <2>3. QED
    BY <1>g, <1>s, <2>2
<1>9. ASSUME NEW x \in Threads, NEW s \in Sessions, NEW t \in Tasks, Acknowledge(x, s, t)
      PROVE  Goal(th)
  <2>1. Continue(x, NoJob) /\ job[x].kind = "acking"
    BY <1>9 DEF Acknowledge
  <2>2. QED
    BY <1>g, <1>n, <2>1, JobTypes
<1>10. ASSUME NEW x \in Threads, NEW s \in Sessions, NEW t \in Tasks, HandleRelease(x, s, t)
       PROVE  Goal(th)
  <2>1. Continue(x, NoJob) /\ Serving(x, s)
    BY <1>10 DEF HandleRelease
  <2>2. QED
    BY <1>g, <1>n, <1>s, <2>1, JobTypes
<1>11. ASSUME NEW x \in Threads, NEW s \in Sessions, NEW t \in Tasks, HandleSubmit(x, s, t)
       PROVE  Goal(th)
  <2>1. PICK j \in Job : j = [kind |-> "submitting", session |-> s, task |-> t]
    BY JobTypes
  <2>2. Continue(x, j)
    BY <1>11, <2>1 DEF HandleSubmit
  <2>3. QED
    BY <1>11, <1>c, <2>1, <2>2
<1>12. ASSUME NEW x \in Threads, ApplyResult(x)
       PROVE  Goal(th)
  <2>1. Continue(x, NoJob) /\ job[x].kind = "submitting"
    BY <1>12 DEF ApplyResult
  <2>2. QED
    BY <1>g, <1>n, <2>1, JobTypes
<1>13. ASSUME NEW x \in Threads, NEW s \in Sessions, NEW filter \in SUBSET Tags,
              HandleSubscribe(x, s, filter)
       PROVE  Goal(th)
  <2>1. PICK j \in Job : j = [kind |-> "listing", session |-> s, filter |-> filter]
    BY JobTypes
  <2>2. Continue(x, j)
    BY <1>13, <2>1 DEF HandleSubscribe
  <2>3. QED
    BY <1>13, <1>c, <2>2
<1>14. ASSUME NEW x \in Threads, NEW s \in Sessions, NEW filter \in SUBSET Tags,
              HandleUnsubscribe(x, s, filter)
       PROVE  Goal(th)
  <2>1. Continue(x, NoJob) /\ Serving(x, s)
    BY <1>14 DEF HandleUnsubscribe
  <2>2. QED
    BY <1>g, <1>n, <1>s, <2>1, JobTypes
<1>15. ASSUME NEW x \in Threads, ListAvailable(x) \/ \E t \in Tasks : OfferListed(x, t)
       PROVE  Goal(th)
  <2>1. CASE th = x
    BY <1>15, <2>1
  <2>2. CASE th # x
    BY <1>d, <1>15, <2>2 DEF ListAvailable, OfferListed, OfferRest, Continue
  <2>3. QED
    BY <2>1, <2>2
<1>16. ASSUME NEW t \in Tasks, Register(t) \/ LeaseRunsOut(t)
       PROVE  Goal(th)
  BY <1>16, <1>u DEF Register, LeaseRunsOut
<1>17. ASSUME Watch
       PROVE  Goal(th)
  BY <1>17, <1>u DEF Watch
<1>18. ASSUME NEW x \in Threads, NEW t \in Tasks, NEW s \in Sessions, ResumeAcquire(x, t, s) \/ Visit(x, t, s)
       PROVE  Goal(th)
  BY <1>18, <1>u DEF ResumeAcquire, Visit
<1>19. ASSUME NEW x \in Threads, NEW n \in notices[x], FireLost(x, n) \/ FireAvailable(x, n)
       PROVE  Goal(th)
  BY <1>19, <1>u DEF FireLost, FireAvailable
<1>20. ASSUME UNCHANGED vars
       PROVE  Goal(th)
  BY <1>20, <1>u DEF vars
<1> HIDE DEF Goal
<1>21. Goal(th)
  <2>1. CASE Environment
    <3>1. ASSUME NEW x \in Threads, NEW s \in Sessions, Request(x, s)
          PROVE  Goal(th)
      BY <1>8, <1>10, <1>11, <1>13, <1>14, <3>1 DEF Request
    <3>2. QED
      BY <1>1, <1>2, <1>3, <1>4, <1>16, <2>1, <3>1 DEF Environment
  <2>2. ASSUME NEW x \in Threads, Proceed(x)
        PROVE  Goal(th)
    <3>1. CASE \E n \in notices[x] : FireLost(x, n) \/ FireAvailable(x, n)
      BY <1>19, <3>1
    <3>2. CASE \E t \in Tasks, s \in Sessions : Visit(x, t, s) \/ ResumeAcquire(x, t, s)
      BY <1>18, <3>2
    <3>3. CASE \E t \in Tasks, s \in Sessions : Acknowledge(x, s, t)
      BY <1>9, <3>3
    <3>4. CASE ListAvailable(x) \/ \E t \in Tasks : OfferListed(x, t)
      BY <1>15, <3>4
    <3>5. CASE ApplyResult(x) \/ \E s \in Sessions : Remove(x, s)
      BY <1>6, <1>12, <3>5
    <3>6. QED
      BY <2>2, <3>1, <3>2, <3>3, <3>4, <3>5 DEF Proceed
  <2>3. CASE (\E s \in UDP : HandleWithoutEffect(s)) \/ (\E s \in UDP : CloseClient(s))
    BY <1>5, <1>7, <2>3
  <2>4. CASE Watch \/ \E t \in Tasks : LeaseRunsOut(t)
    BY <1>16, <1>17, <2>4
  <2>5. CASE Next
    BY <2>1, <2>2, <2>3, <2>4, <2>5 DEF Next
  <2>6. QED
    BY <1>20, <2>5
<1>22. QED
  BY <1>21 DEF Goal

LEMMA ToldCases ==
    ASSUME [Next]_vars
    PROVE  \/ UNCHANGED <<told, misled>>
           \/ \E th \in Threads, s \in Sessions, t \in Tasks :
                 \/ Acknowledge(th, s, t)
                 \/ HandleRelease(th, s, t)
                 \/ ResumeAcquire(th, t, s)
           \/ \E th \in Threads : \E n \in notices[th] : FireLost(th, n)
<1> USE ThreadFacts DEF clientVars
<1>1. CASE UNCHANGED vars
  BY <1>1 DEF vars
<1>2. CASE Environment
  <2>1. ASSUME NEW s \in Sessions, Connect(s) \/ Receive(s) \/ Disconnect(s)
        PROVE  UNCHANGED <<told, misled>>
    BY <2>1 DEF Connect, Receive, Disconnect
  <2>2. ASSUME NEW S \in SUBSET UDP, EvictClients(S)
        PROVE  UNCHANGED <<told, misled>>
    BY <2>2 DEF EvictClients
  <2>3. ASSUME NEW s \in Sessions, NEW th \in TCP \cup {Reader}, Request(th, s)
        PROVE  UNCHANGED <<told, misled>> \/ \E t \in Tasks : HandleRelease(th, s, t)
    BY <2>3 DEF Request, HandleAcquire, HandleSubmit, HandleSubscribe, HandleUnsubscribe
  <2>4. ASSUME NEW t \in Tasks, Register(t)
        PROVE  UNCHANGED <<told, misled>>
    BY <2>4 DEF Register
  <2>5. QED
    BY <1>2, <2>1, <2>2, <2>3, <2>4 DEF Environment
<1>3. ASSUME NEW s \in UDP, HandleWithoutEffect(s) \/ CloseClient(s)
      PROVE  UNCHANGED <<told, misled>>
  BY <1>3 DEF HandleWithoutEffect, CloseClient
<1>4. ASSUME NEW th \in Threads, Proceed(th)
      PROVE  \/ UNCHANGED <<told, misled>>
             \/ \E s \in Sessions, t \in Tasks : Acknowledge(th, s, t) \/ ResumeAcquire(th, t, s)
             \/ \E n \in notices[th] : FireLost(th, n)
  BY <1>4 DEF Proceed, Visit, FireAvailable, ListAvailable, OfferListed, ApplyResult, Remove
<1>5. ASSUME Watch \/ \E t \in Tasks : LeaseRunsOut(t)
      PROVE  UNCHANGED <<told, misled>>
  BY <1>5 DEF Watch, LeaseRunsOut
<1>6. QED
  BY <1>1, <1>2, <1>3, <1>4, <1>5 DEF Next

\* What a client was told of a task is news of that task.
LEMMA ToldStep ==
    ASSUME Fits, [Next]_vars, NEW s \in Sessions, NEW t \in Tasks
    PROVE  \/ told'[s][t] = told[s][t] /\ (<<s, t>> \in misled => <<s, t>> \in misled')
           \/ told'[s][t] = "lost"
           \/ \E th \in Threads : Acknowledge(th, s, t) \/ HandleRelease(th, s, t)
<1>d. told \in [Sessions -> [Tasks -> {"nothing", "owner", "lost"}]]
  BY DEF Fits, TypeOK
<1>1. ASSUME NEW th \in Threads, NEW r \in Sessions, NEW y \in Tasks, r # s \/ y # t,
             Acknowledge(th, r, y) \/ HandleRelease(th, r, y)
      PROVE  told'[s][t] = told[s][t] /\ (<<s, t>> \in misled => <<s, t>> \in misled')
  <2>1. /\ \/ told' = told
           \/ told' = [told EXCEPT ![r][y] = "owner"]
           \/ told' = [told EXCEPT ![r][y] = "nothing"]
        /\ misled \ {<<r, y>>} \subseteq misled'
    BY <1>1 DEF Acknowledge, HandleRelease
  <2>2. told[r] \in [Tasks -> {"nothing", "owner", "lost"}]
    BY <1>d
  <2>3. told'[s][t] = told[s][t]
    BY <1>1, <1>d, <2>1, <2>2
  <2>4. QED
    BY <1>1, <2>1, <2>3
<1>2. ASSUME NEW th \in Threads, NEW r \in Sessions, NEW y \in Tasks, ResumeAcquire(th, y, r)
      PROVE  told'[s][t] = told[s][t] /\ (<<s, t>> \in misled => <<s, t>> \in misled')
  BY <1>2 DEF ResumeAcquire
<1>3. ASSUME NEW th \in Threads, NEW n \in notices[th], FireLost(th, n)
      PROVE  \/ told'[s][t] = told[s][t] /\ (<<s, t>> \in misled => <<s, t>> \in misled')
             \/ told'[s][t] = "lost"
  <2>1. told'[s][t] = IF s = n.owner /\ t = n.task /\ Present(s) THEN "lost" ELSE told[s][t]
    BY <1>3, ToldLost DEF Fits
  <2>2. CASE s = n.owner /\ t = n.task /\ Present(s)
    BY <2>1, <2>2
  <2>3. CASE ~(s = n.owner /\ t = n.task /\ Present(s))
    <3>1. <<s, t>> \in misled => <<s, t>> \in misled'
      BY <1>3, <2>3 DEF FireLost
    <3>2. QED
      BY <2>1, <2>3, <3>1
  <2>4. QED
    BY <2>2, <2>3
<1>4. QED
  BY <1>1, <1>2, <1>3, ToldCases

\* The steps that begin, end or close a session.
LEMMA PhaseCases ==
    ASSUME [Next]_vars
    PROVE  \/ UNCHANGED phase
           \/ \E s \in Sessions : Connect(s) \/ Receive(s)
           \/ \E s \in TCP : Disconnect(s)
           \/ \E s \in UDP : CloseClient(s)
           \/ \E S \in SUBSET UDP : EvictClients(S)
           \/ \E th \in Threads, s \in Sessions : Remove(th, s)
<1>1. CASE UNCHANGED vars
  BY <1>1 DEF vars
<1>2. CASE Environment
  <2>1. ASSUME NEW s \in Sessions, Disconnect(s)
        PROVE  s \in TCP
    BY <2>1 DEF Disconnect
  <2>2. ASSUME NEW s \in Sessions, NEW th \in TCP \cup {Reader}, Request(th, s)
        PROVE  UNCHANGED phase
    BY <2>2 DEF Request, HandleAcquire, HandleRelease, HandleSubmit, HandleSubscribe, HandleUnsubscribe
  <2>3. ASSUME NEW t \in Tasks, Register(t)
        PROVE  UNCHANGED phase
    BY <2>3 DEF Register
  <2>4. QED
    BY <1>2, <2>1, <2>2, <2>3 DEF Environment
<1>3. ASSUME NEW s \in UDP, HandleWithoutEffect(s)
      PROVE  UNCHANGED phase
  BY <1>3 DEF HandleWithoutEffect
<1>4. ASSUME NEW th \in Threads, Proceed(th)
      PROVE  UNCHANGED phase \/ \E s \in Sessions : Remove(th, s)
  BY <1>4 DEF Proceed, Visit, Acknowledge, ResumeAcquire, FireLost, FireAvailable, ListAvailable,
              OfferListed, ApplyResult
<1>5. ASSUME Watch \/ \E t \in Tasks : LeaseRunsOut(t)
      PROVE  UNCHANGED phase
  BY <1>5 DEF Watch, LeaseRunsOut
<1>6. QED
  BY <1>1, <1>2, <1>3, <1>4, <1>5 DEF Next

LEMMA PhaseStep ==
    ASSUME Fits, [Next]_vars, NEW s \in Sessions
    PROVE  /\ Present(s)' => Present(s) \/ phase[s] = "new"
           /\ s \in TCP /\ phase'[s] \in {"leaving", "gone"} =>
                 phase[s] \in {"leaving", "gone"} \/ Disconnect(s)
<1>d. phase \in [Sessions -> Phase] /\ TCP \cap UDP = {}
  BY DEF Fits, TypeOK
<1>1. CASE UNCHANGED phase
  BY <1>1 DEF Present
<1>2. ASSUME NEW r \in Sessions, Connect(r) \/ Receive(r)
      PROVE  phase'[s] = phase[s] \/ (phase'[s] = "open" /\ phase[s] \in {"new", "open"})
  BY <1>d, <1>2 DEF Connect, Receive
<1>3. ASSUME NEW r \in TCP, Disconnect(r)
      PROVE  phase'[s] = phase[s] \/ (phase[s] = "open" /\ s = r)
  BY <1>d, <1>3 DEF Disconnect
<1>4. ASSUME NEW r \in UDP, CloseClient(r)
      PROVE  phase'[s] = phase[s] \/ (phase[s] = "evicted" /\ s \notin TCP)
  BY <1>d, <1>4 DEF CloseClient
<1>5. ASSUME NEW S \in SUBSET UDP, EvictClients(S)
      PROVE  phase'[s] = phase[s] \/ (phase[s] = "open" /\ phase'[s] = "evicted")
  <2>1. /\ phase' = [x \in Sessions |-> IF x \in S THEN "evicted" ELSE phase[x]]
        /\ \A x \in S : phase[x] = "open"
    BY <1>5 DEF EvictClients
  <2>2. QED
    BY <2>1
<1>6. ASSUME NEW th \in Threads, NEW r \in Sessions, Remove(th, r)
      PROVE  phase'[s] = phase[s] \/ (phase'[s] = "gone" /\ (s \in TCP => phase[s] = "leaving"))
  <2>1. job[th].kind = "closing" /\ job[th].session = r /\ phase' = [phase EXCEPT ![r] = "gone"]
    BY <1>6 DEF Remove
  <2>2. r \in TCP => phase[r] = "leaving"
    BY <2>1 DEF Fits, JobsFit, JobFits
  <2>3. QED
    BY <1>d, <2>1, <2>2
<1>7. QED
  BY PhaseCases, <1>1, <1>2, <1>3, <1>4, <1>5, <1>6 DEF Present

-----------------------------------------------------------------------------
(* Nothing left behind *)

\* A task is granted to the session whose Acquire it is.
LEMMA OwnerGain ==
    ASSUME Fits, [Next]_vars, NEW s \in Sessions, NEW t \in Tasks,
           task[t].owner # s, task'[t].owner = s
    PROVE  /\ UNCHANGED phase
           /\ s \in TCP => phase[s] = "open"
<1> USE ThreadFacts
<1>0. task \in [Tasks -> R!Task] /\ s # NoOwner
  BY RegistryFacts DEF Fits
<1>1. CASE UNCHANGED registryVars
  BY <1>1 DEF registryVars
<1>2. ASSUME NEW x \in Threads, NEW S \in SUBSET Tasks, NEW reason, NEW kinds,
             TakesBack(x, S, reason, kinds)
      PROVE  FALSE
  <2>1. R!MakeAvailable(x, S, reason, kinds)
    BY <1>2 DEF TakesBack
  <2>2. QED
    BY <1>0, <2>1, MakeAvailableFacts
<1>3. ASSUME NEW y \in Tasks, NEW r \in Sessions, R!Grant(y, r)
      PROVE  y = t /\ r = s
  <2>1. task' = [task EXCEPT ![y] = R!OwnedBy(r)] /\ R!OwnedBy(r).owner = r
    BY <1>3 DEF R!Grant, R!OwnedBy
  <2>2. QED
    BY <1>0, <2>1
<1>4. ASSUME NEW x \in TCP \cup {Reader}, NEW r \in Sessions, NEW y \in Tasks,
             HandleAcquire(x, r, y), R!AcquireFree(x, y, r)
      PROVE  UNCHANGED phase /\ (s \in TCP => phase[s] = "open")
  <2>1. r = s
    BY <1>3, <1>4 DEF R!AcquireFree
  <2>2. Serving(x, s) /\ UNCHANGED phase
    BY <1>4, <2>1 DEF HandleAcquire
  <2>3. QED
    BY <2>2, ServingFacts
<1>5. ASSUME NEW y \in Tasks, LeaseRunsOut(y)
      PROVE  FALSE
  <2>1. task' = [task EXCEPT ![y].lease = "expired"]
    BY <1>5 DEF LeaseRunsOut, R!LeaseRunsOut
  <2>2. [task[y] EXCEPT !.lease = "expired"].owner = task[y].owner
    BY <1>0 DEF R!Task
  <2>3. task'[t].owner = task[t].owner
    BY <1>0, <2>1, <2>2
  <2>4. QED
    BY <2>3
<1>6. ASSUME NEW x \in Threads, NEW y \in Tasks, NEW r \in Sessions, ResumeAcquire(x, y, r)
      PROVE  UNCHANGED phase /\ (s \in TCP => phase[s] = "open")
  <2>1. R!Grant(y, r) /\ <<y, r>> \in claim[x] /\ UNCHANGED phase
    BY <1>6 DEF ResumeAcquire, R!AcquireResume
  <2>2. r = s
    BY <1>3, <2>1
  <2>3. QED
    BY <2>1, <2>2 DEF Fits, ClaimsFit
<1>7. ASSUME NEW x \in Threads, NEW m \in notices[x], FireLost(x, m) \/ FireAvailable(x, m)
      PROVE  FALSE
  <2>1. R!Fire(x, m)
    BY <1>7 DEF FireLost, FireAvailable
  <2>2. QED
    BY <2>1, FireFacts
<1>8. QED
  BY RegistryEffects, <1>1, <1>2, <1>4, <1>5, <1>6, <1>7

LEMMA NothingLeftStep == Fits /\ NothingLeftBehind /\ [Next]_vars => NothingLeftBehind'
<1> SUFFICES ASSUME Fits, NothingLeftBehind, [Next]_vars,
                    NEW s \in TCP, NEW t \in Tasks,
                    phase'[s] \in {"leaving", "gone"}, task'[t].owner = s
             PROVE  FALSE
  BY DEF NothingLeftBehind
<1>0. s \in Sessions /\ s \in Threads /\ s # NoOwner
  BY ThreadFacts DEF Sessions
<1>1. CASE task[t].owner # s
  BY <1>0, <1>1, OwnerGain
<1>2. CASE task[t].owner = s
  <2>1. Disconnect(s)
    BY <1>0, <1>2, PhaseStep DEF NothingLeftBehind
  <2>2. PICK S \in SUBSET Tasks : S = R!OwnedTasks(s)
    BY <1>0, OwnedTasksFacts
  <2>3. R!MakeAvailable(s, S, "disconnected", R!Kinds)
    BY <2>1, <2>2 DEF Disconnect, R!ReleaseAll
  <2>4. t \in S
    <3>1. task[t].status = "owned"
      BY <1>0, <1>2, RegistryFacts DEF Fits
    <3>2. QED
      BY <1>2, <2>2, <3>1 DEF R!OwnedTasks
  <2>5. task'[t].owner = NoOwner
    BY <1>0, <2>3, <2>4, TakenBack
  <2>6. QED
    BY <1>0, <2>5
<1>3. QED
  BY <1>1, <1>2

\* A TCP session that is being closed owns nothing and is granted nothing any
\* more: its goroutine, which releases its tasks (main.go:91), is the only one
\* that could acquire one for it.
THEOREM NothingRemains == Spec => []NothingLeftBehind
<1>1. Init => NothingLeftBehind
  BY DEF Init, NothingLeftBehind, Sessions
<1>2. QED
  BY <1>1, FitsHolds, NothingLeftStep, PTL DEF Spec

-----------------------------------------------------------------------------
(* Losses *)

\* Why s need not know yet that it has lost t.
Excused(s, t) ==
    \/ <<s, t>> \in misled
    \/ \E th \in Threads : \E n \in notices[th] :
          n.owner = s /\ n.task = t /\ "lost" \in n.left

LEMMA ExcuseStep ==
    ASSUME Fits, [Next]_vars, NEW s \in Sessions, NEW t \in Tasks,
           task[t].owner = s \/ Excused(s, t)
    PROVE  \/ task'[t].owner = s
           \/ Excused(s, t)'
           \/ told'[s][t] = "lost"
           \/ ~Present(s)'
           \/ \E th \in Threads : HandleRelease(th, s, t)
<1>1. CASE task[t].owner = s
  BY <1>1, OwnerStep DEF Excused
<1>2. CASE <<s, t>> \in misled
  <2>1. ASSUME NEW th \in Threads, Acknowledge(th, s, t)
        PROVE  task'[t].owner = s \/ Excused(s, t)' \/ ~Present(s)'
    <3>1. UNCHANGED <<task, phase>>
      BY <2>1 DEF Acknowledge, registryVars
    <3>2. CASE ~Present(s)
      BY <3>1, <3>2 DEF Present
    <3>3. CASE Present(s)
      BY <2>1, <3>1, <3>3 DEF Acknowledge, Excused
    <3>4. QED
      BY <3>2, <3>3
  <2>2. QED
    BY <1>2, <2>1, ToldStep DEF Excused
<1>3. ASSUME NEW th \in Threads, NEW n \in notices[th],
             n.owner = s, n.task = t, "lost" \in n.left
      PROVE  Excused(s, t)' \/ told'[s][t] = "lost" \/ ~Present(s)'
  <2>1. CASE n \in notices'[th]
    BY <1>3, <2>1 DEF Excused
  <2>2. CASE FireLost(th, n)
    <3>1. UNCHANGED phase
      BY <2>2 DEF FireLost
    <3>2. told'[s][t] = IF s = n.owner /\ t = n.task /\ Present(s) THEN "lost" ELSE told[s][t]
      BY <2>2, ToldLost DEF Fits
    <3>3. QED
      BY <1>3, <3>1, <3>2 DEF Present
  <2>3. CASE FireAvailable(th, n)
    <3>1. R!Fire(th, n) /\ R!NextKind(n) = "available"
      BY <2>3 DEF FireAvailable
    <3>2. \E m \in notices'[th] : m.task = n.task /\ m.owner = n.owner /\ "lost" \in m.left
      BY <1>3, <3>1, FireFacts
    <3>3. QED
      BY <1>3, <3>2 DEF Excused
  <2>4. QED
    BY <2>1, <2>2, <2>3, NoticeStep
<1>4. QED
  BY <1>1, <1>2, <1>3 DEF Excused

LEMMA LossStep == Fits /\ LossIsTold /\ [Next]_vars => LossIsTold'
<1> SUFFICES ASSUME Fits, LossIsTold, [Next]_vars, NEW s \in Sessions, NEW t \in Tasks,
                    Present(s)', told'[s][t] = "owner", task'[t].owner # s
             PROVE  Excused(s, t)'
  BY DEF LossIsTold, Excused
<1>1. ASSUME NEW th \in Threads, Acknowledge(th, s, t)
      PROVE  Excused(s, t)'
  <2>1. UNCHANGED <<task, phase>>
    BY <1>1 DEF Acknowledge, registryVars
  <2>2. Present(s) /\ task[t].owner # s
    BY <2>1 DEF Present
  <2>3. QED
    BY <1>1, <2>2 DEF Acknowledge, Excused
<1>2. ASSUME NEW th \in Threads, HandleRelease(th, s, t)
      PROVE  FALSE
  <2>1. told' = [told EXCEPT ![s][t] = "nothing"] /\ told \in [Sessions -> [Tasks -> {"nothing", "owner", "lost"}]]
    BY <1>2 DEF HandleRelease, Fits, TypeOK
  <2>2. told'[s] = [told[s] EXCEPT ![t] = "nothing"]
    BY <2>1
  <2>3. QED
    BY <2>1, <2>2
<1>3. CASE told'[s][t] = told[s][t]
  <2>1. Present(s)
    BY <1>3, PhaseStep DEF Fits, PhasesFit
  <2>2. task[t].owner = s \/ Excused(s, t)
    BY <1>3, <2>1 DEF LossIsTold, Excused
  <2>3. QED
    BY <1>2, <2>2, ExcuseStep
<1>4. QED
  BY <1>1, <1>2, <1>3, ToldStep

\* Every client that takes itself for the owner of a task it has lost is about to
\* be told, or is one of those the code leaves misled (dispatcher.go:70, task.go:177).
THEOREM LossReachesTheLoser == Spec => []LossIsTold
<1>1. Init => LossIsTold
  BY DEF Init, LossIsTold
<1>2. QED
  BY <1>1, FitsHolds, LossStep, PTL DEF Spec

LEMMA LateStep == Fits /\ LateResultsAreOfLosers /\ [Next]_vars => LateResultsAreOfLosers'
<1> SUFFICES ASSUME Fits, LateResultsAreOfLosers, [Next]_vars, NEW s \in TCP, NEW t \in Tasks,
                    job'[s] = [kind |-> "submitting", session |-> s, task |-> t],
                    task'[t].owner # s
             PROVE  told'[s][t] = "lost" \/ Excused(s, t)'
  BY DEF LateResultsAreOfLosers, Excused
<1>0. s \in Sessions /\ s \in Threads
  BY ThreadFacts DEF Sessions
<1>k. job'[s].kind = "submitting" /\ job'[s].session = s /\ job'[s].task = t
  OBVIOUS
<1>1. CASE job'[s] = job[s]
  <2>1. job[s].kind = "submitting"
    BY <1>k, <1>1
  <2>2. ASSUME NEW th \in Threads, Acknowledge(th, s, t) \/ HandleRelease(th, s, t)
        PROVE  FALSE
    <3>1. CASE Acknowledge(th, s, t)
      <4>1. job[th].kind = "acking" /\ job[th].session = s
        BY <3>1 DEF Acknowledge
      <4>2. th = s
        BY <4>1 DEF Fits, JobsFit, JobFits
      <4>3. QED
        BY <2>1, <4>1, <4>2
    <3>2. CASE HandleRelease(th, s, t)
      <4>1. Serving(th, s)
        BY <3>2 DEF HandleRelease
      <4>2. QED
        BY <1>0, <2>1, <4>1, ServingFacts
    <3>3. QED
      BY <2>2, <3>1, <3>2
  <2>3. told'[s][t] = told[s][t] \/ told'[s][t] = "lost"
    BY <1>0, <2>2, ToldStep
  <2>4. task[t].owner = s \/ told[s][t] = "lost" \/ Excused(s, t)
    BY <1>1 DEF LateResultsAreOfLosers, Excused
  <2>5. Present(s)'
    <3>1. JobsFit'
      BY FitsStep
    <3>2. phase'[s] = "open"
      BY <1>0, <1>k, <3>1 DEF JobsFit, JobFits
    <3>3. QED
      BY <3>2 DEF Present
  <2>6. QED
    BY <1>0, <2>2, <2>3, <2>4, <2>5, ExcuseStep
<1>2. ASSUME NEW r \in Sessions, NEW y \in Tasks, HandleSubmit(s, r, y),
             job'[s] = [kind |-> "submitting", session |-> r, task |-> y]
      PROVE  FALSE
  <2>1. r = s /\ y = t
    BY <1>k, <1>2
  <2>2. task[t].owner = s /\ task' = task
    BY <1>2, <2>1 DEF HandleSubmit, registryVars
  <2>3. QED
    BY <2>2
<1>3. ASSUME NEW r \in Sessions, NEW filter \in SUBSET Tags, HandleSubscribe(s, r, filter)
      PROVE  FALSE
  <2>1. job'[s] = [kind |-> "listing", session |-> r, filter |-> filter]
    BY <1>0, <1>3 DEF HandleSubscribe, Continue, Fits, TypeOK
  <2>2. job'[s].kind = "listing"
    BY <2>1
  <2>3. QED
    BY <1>k, <2>2
<1>4. ASSUME ListAvailable(s) \/ \E y \in Tasks : OfferListed(s, y)
      PROVE  FALSE
  <2>1. job'[s] = NoJob \/ job'[s].kind = "offering"
    BY <1>0, <1>4, OfferingGoesOn DEF Fits, TypeOK
  <2>2. job'[s].kind \in {"none", "offering"}
    BY <2>1 DEF NoJob
  <2>3. QED
    BY <1>k, <2>2
<1>5. QED
  BY <1>0, <1>k, <1>1, <1>2, <1>3, <1>4, JobStep

\* A result merged for a session that has lost the task in the meantime is the
\* result of a loser who has been, or is about to be, told (dispatcher.go:91-108).
THEOREM LateResults == Spec => []LateResultsAreOfLosers
<1>1. Init => LateResultsAreOfLosers
  BY ThreadFacts DEF Init, NoJob, LateResultsAreOfLosers
<1>2. QED
  BY <1>1, FitsHolds, LateStep, PTL DEF Spec

-----------------------------------------------------------------------------
(* Offers *)

\* The steps that send offers or take them for void.
LEMMA OfferedCases ==
    ASSUME [Next]_vars
    PROVE  \/ UNCHANGED offered
           \/ ForgetOffers
           \/ \E s, t : SendOffer(s, t)
<1> USE DEF clientVars
<1>1. CASE UNCHANGED vars
  BY <1>1 DEF vars
<1>2. CASE Environment
  <2>1. ASSUME NEW s \in Sessions, Connect(s) \/ Receive(s) \/ Disconnect(s)
        PROVE  UNCHANGED offered \/ ForgetOffers
    BY <2>1 DEF Connect, Receive, Disconnect
  <2>2. ASSUME NEW S \in SUBSET UDP, EvictClients(S)
        PROVE  UNCHANGED offered
    BY <2>2 DEF EvictClients
  <2>3. ASSUME NEW s \in Sessions, NEW th \in TCP \cup {Reader}, Request(th, s)
        PROVE  UNCHANGED offered \/ ForgetOffers
    BY <2>3 DEF Request, HandleAcquire, HandleRelease, HandleSubmit, HandleSubscribe, HandleUnsubscribe
  <2>4. ASSUME NEW t \in Tasks, Register(t)
        PROVE  ForgetOffers
    BY <2>4 DEF Register
  <2>5. QED
    BY <1>2, <2>1, <2>2, <2>3, <2>4 DEF Environment
<1>3. ASSUME NEW s \in UDP, HandleWithoutEffect(s) \/ CloseClient(s)
      PROVE  UNCHANGED offered \/ ForgetOffers
  BY <1>3 DEF HandleWithoutEffect, CloseClient
<1>4. ASSUME NEW th \in Threads, Proceed(th)
      PROVE  UNCHANGED offered \/ \E s, t : SendOffer(s, t)
  <2>1. ASSUME NEW t \in Tasks, NEW s \in Sessions,
               Visit(th, t, s) \/ ResumeAcquire(th, t, s) \/ Acknowledge(th, s, t)
        PROVE  UNCHANGED offered \/ \E r, y : SendOffer(r, y)
    BY <2>1 DEF Visit, ResumeAcquire, Acknowledge
  <2>2. ASSUME NEW t \in Tasks, OfferListed(th, t)
        PROVE  \E r, y : SendOffer(r, y)
    BY <2>2 DEF OfferListed
  <2>3. ASSUME NEW s \in Sessions, Remove(th, s)
        PROVE  UNCHANGED offered
    BY <2>3 DEF Remove
  <2>4. ASSUME NEW n \in notices[th], FireLost(th, n) \/ FireAvailable(th, n)
        PROVE  UNCHANGED offered
    BY <2>4 DEF FireLost, FireAvailable
  <2>5. ListAvailable(th) \/ ApplyResult(th) => UNCHANGED offered
    BY DEF ListAvailable, ApplyResult
  <2>6. QED
    BY <1>4, <2>1, <2>2, <2>3, <2>4, <2>5 DEF Proceed
<1>5. ASSUME Watch \/ \E t \in Tasks : LeaseRunsOut(t)
      PROVE  UNCHANGED offered \/ ForgetOffers
  BY <1>5 DEF Watch, LeaseRunsOut
<1>6. QED
  BY <1>1, <1>2, <1>3, <1>4, <1>5 DEF Next

\* An offer counts until the task becomes available anew.
LEMMA OfferedStep ==
    ASSUME Fits, [Next]_vars, NEW s \in Sessions, NEW t \in offered[s], t \in Tasks,
           task[t].status = "available"
    PROVE  t \in offered'[s]
<1>1. CASE ForgetOffers
  BY <1>1 DEF ForgetOffers
<1>2. ASSUME NEW r, NEW y, SendOffer(r, y)
      PROVE  t \in offered'[s]
  BY <1>2 DEF SendOffer, Fits, TypeOK
<1>3. QED
  BY <1>1, <1>2, OfferedCases

\* The steps that change what a broadcast has still to do, and the tags.
LEMMA CastCases ==
    ASSUME [Next]_vars
    PROVE  /\ \/ UNCHANGED cast
              \/ \E th \in Threads : \E n \in notices[th] : FireAvailable(th, n)
              \/ \E th \in Threads, t \in Tasks, s \in Sessions : Visit(th, t, s)
           /\ \/ UNCHANGED subs
              \/ \E th \in Threads, s \in Sessions, filter \in SUBSET Tags :
                    HandleSubscribe(th, s, filter) \/ HandleUnsubscribe(th, s, filter)
<1> USE ThreadFacts
<1>1. CASE UNCHANGED vars
  BY <1>1 DEF vars
<1>2. CASE Environment
  <2>1. ASSUME NEW s \in Sessions, Connect(s) \/ Receive(s) \/ Disconnect(s)
        PROVE  UNCHANGED <<cast, subs>>
    BY <2>1 DEF Connect, Receive, Disconnect
  <2>2. ASSUME NEW S \in SUBSET UDP, EvictClients(S)
        PROVE  UNCHANGED <<cast, subs>>
    BY <2>2 DEF EvictClients
  <2>3. ASSUME NEW s \in Sessions, NEW th \in TCP \cup {Reader}, Request(th, s)
        PROVE  /\ UNCHANGED cast
               /\ \/ UNCHANGED subs
                  \/ \E filter \in SUBSET Tags :
                        HandleSubscribe(th, s, filter) \/ HandleUnsubscribe(th, s, filter)
    BY <2>3 DEF Request, HandleAcquire, HandleRelease, HandleSubmit, HandleSubscribe, HandleUnsubscribe
  <2>4. ASSUME NEW t \in Tasks, Register(t)
        PROVE  UNCHANGED <<cast, subs>>
    BY <2>4 DEF Register
  <2>5. QED
    BY <1>2, <2>1, <2>2, <2>3, <2>4 DEF Environment
<1>3. ASSUME NEW s \in UDP, HandleWithoutEffect(s) \/ CloseClient(s)
      PROVE  UNCHANGED <<cast, subs>>
  BY <1>3 DEF HandleWithoutEffect, CloseClient
<1>4. ASSUME NEW th \in Threads, Proceed(th)
      PROVE  /\ UNCHANGED subs
             /\ \/ UNCHANGED cast
                \/ \E n \in notices[th] : FireAvailable(th, n)
                \/ \E t \in Tasks, s \in Sessions : Visit(th, t, s)
  <2>1. ASSUME NEW t \in Tasks, NEW s \in Sessions, Visit(th, t, s)
        PROVE  UNCHANGED subs
    BY <2>1 DEF Visit
  <2>2. ASSUME NEW n \in notices[th], FireAvailable(th, n)
        PROVE  UNCHANGED subs
    BY <2>2 DEF FireAvailable
  <2>3. ASSUME NEW n \in notices[th], FireLost(th, n)
        PROVE  UNCHANGED <<subs, cast>>
    BY <2>3 DEF FireLost
  <2>4. ASSUME NEW t \in Tasks, NEW s \in Sessions, ResumeAcquire(th, t, s) \/ Acknowledge(th, s, t)
        PROVE  UNCHANGED <<subs, cast>>
    BY <2>4 DEF ResumeAcquire, Acknowledge
  <2>5. ASSUME NEW t \in Tasks, OfferListed(th, t)
        PROVE  UNCHANGED <<subs, cast>>
    BY <2>5 DEF OfferListed
  <2>6. ASSUME NEW s \in Sessions, Remove(th, s)
        PROVE  UNCHANGED <<subs, cast>>
    BY <2>6 DEF Remove
  <2>7. ListAvailable(th) \/ ApplyResult(th) => UNCHANGED <<subs, cast>>
    BY DEF ListAvailable, ApplyResult
  <2>8. QED
    BY <1>4, <2>1, <2>2, <2>3, <2>4, <2>5, <2>6, <2>7 DEF Proceed
<1>5. ASSUME Watch \/ \E t \in Tasks : LeaseRunsOut(t)
      PROVE  UNCHANGED <<cast, subs>>
  BY <1>5 DEF Watch, LeaseRunsOut
<1>6. QED
  BY <1>1, <1>2, <1>3, <1>4, <1>5 DEF Next

\* What is offered stays offered, and what is under way arrives or stays under way.
LEMMA ReachStep ==
    ASSUME Fits, [Next]_vars, NEW s \in Sessions, NEW t \in Tasks,
           Present(s), task[t].status = "available", TaskTags[t] \cap subs[s] # {},
           t \in offered[s] \/ OfferUnderWay(s, t)
    PROVE  t \in offered'[s] \/ OfferUnderWay(s, t)'
<1>d. /\ cast \in [Threads -> SUBSET (Tasks \X Sessions)]
      /\ offered \in [Sessions -> SUBSET Tasks]
      /\ job \in [Threads -> Job]
  BY DEF Fits, TypeOK
<1>s. SendOffer(s, t) => t \in offered'[s]
  BY <1>d DEF SendOffer
<1>1. CASE t \in offered[s]
  BY <1>1, OfferedStep
<1>2. ASSUME NEW th \in Threads, <<t, s>> \in cast[th]
      PROVE  t \in offered'[s] \/ OfferUnderWay(s, t)'
  <2>1. ASSUME NEW x \in Threads, NEW n \in notices[x], FireAvailable(x, n)
        PROVE  <<t, s>> \in cast'[th]
    <3>1. cast[x] = {} /\ \A y \in Threads : y # x => cast'[y] = cast[y]
      BY <1>d, <2>1 DEF FireAvailable
    <3>2. QED
      BY <1>2, <3>1
  <2>2. ASSUME NEW x \in Threads, NEW y \in Tasks, NEW r \in Sessions, Visit(x, y, r)
        PROVE  <<t, s>> \in cast'[th] \/ t \in offered'[s]
    <3>1. CASE y = t /\ r = s
      <4>1. Matches(t, s)
        BY DEF Matches
      <4>2. QED
        BY <1>s, <2>2, <3>1, <4>1 DEF Visit
    <3>2. CASE ~(y = t /\ r = s)
      <4>1. cast' = [cast EXCEPT ![x] = @ \ {<<y, r>>}] /\ <<y, r>> # <<t, s>>
        BY <2>2, <3>2 DEF Visit
      <4>2. QED
        BY <1>2, <1>d, <4>1
    <3>3. QED
      BY <3>1, <3>2
  <2>3. <<t, s>> \in cast'[th] \/ t \in offered'[s]
    BY <1>2, <2>1, <2>2, CastCases
  <2>4. QED
    BY <2>3 DEF OfferUnderWay
<1>3. ASSUME NEW th \in Threads, NEW n \in notices[th], n.task = t, "available" \in n.left
      PROVE  OfferUnderWay(s, t)'
  <2>1. CASE n \in notices'[th]
    BY <1>3, <2>1 DEF OfferUnderWay
  <2>2. CASE FireLost(th, n)
    <3>1. R!Fire(th, n) /\ R!NextKind(n) = "lost"
      BY <2>2 DEF FireLost
    <3>2. \E m \in notices'[th] : m.task = n.task /\ m.owner = n.owner /\ "available" \in m.left
      BY <1>3, <3>1, FireFacts
    <3>3. QED
      BY <1>3, <3>2 DEF OfferUnderWay
  <2>3. CASE FireAvailable(th, n)
    <3>1. cast' = [cast EXCEPT ![th] = {<<n.task, x>> : x \in {y \in Sessions : Present(y)}}]
      BY <2>3 DEF FireAvailable
    <3>2. <<t, s>> \in cast'[th]
      BY <1>3, <1>d, <3>1
    <3>3. QED
      BY <3>2 DEF OfferUnderWay
  <2>4. QED
    BY <2>1, <2>2, <2>3, NoticeStep
<1>4. ASSUME NEW th \in Threads,
             \/ job[th].kind = "listing" /\ job[th].session = s /\ Listed(t, job[th].filter)
             \/ job[th].kind = "offering" /\ job[th].session = s /\ t \in job[th].left
      PROVE  t \in offered'[s] \/ OfferUnderWay(s, t)'
  <2>k. job[th].kind \in {"listing", "offering"}
    BY <1>4
  <2>o. ASSUME NEW left \in SUBSET Tasks, t \in left, OfferRest(th, s, left)
        PROVE  OfferUnderWay(s, t)'
    <3>1. job'[th].kind = "offering" /\ job'[th].session = s /\ t \in job'[th].left
      BY <1>d, <2>o, OfferRestFacts
    <3>2. QED
      BY <3>1 DEF OfferUnderWay
  <2>1. CASE job'[th] = job[th]
    BY <1>4, <2>1 DEF OfferUnderWay
  <2>2. ASSUME NEW r \in Sessions, NEW y \in Tasks, HandleSubmit(th, r, y)
        PROVE  FALSE
    BY <2>2, <2>k, ServingFacts DEF HandleSubmit
  <2>3. ASSUME NEW r \in Sessions, NEW filter \in SUBSET Tags, HandleSubscribe(th, r, filter)
        PROVE  FALSE
    BY <2>3, <2>k, ServingFacts DEF HandleSubscribe
  <2>4. CASE ListAvailable(th)
    <3>1. PICK left \in SUBSET Tasks :
             left = {y \in Tasks : task[y].status = "available" /\ Listed(y, job[th].filter)}
      OBVIOUS
    <3>2. t \in left /\ job[th].session = s
      BY <1>4, <2>4, <3>1 DEF ListAvailable
    <3>3. OfferRest(th, s, left)
      BY <2>4, <3>1, <3>2 DEF ListAvailable
    <3>4. QED
      BY <2>o, <3>2, <3>3
  <2>5. ASSUME NEW y \in Tasks, OfferListed(th, y)
        PROVE  t \in offered'[s] \/ OfferUnderWay(s, t)'
    <3>1. /\ job[th].session = s /\ t \in job[th].left /\ SendOffer(s, y)
          /\ OfferRest(th, s, job[th].left \ {y})
      BY <1>4, <2>5 DEF OfferListed
    <3>2. job[th].left \ {y} \in SUBSET Tasks
      BY <1>d, <2>5, JobFacts DEF OfferListed
    <3>3. CASE y = t
      BY <1>s, <3>1, <3>3
    <3>4. CASE y # t
      BY <2>o, <3>1, <3>2, <3>4
    <3>5. QED
      BY <3>3, <3>4
  <2>6. QED
    BY <2>k, <2>1, <2>2, <2>3, <2>4, <2>5, JobStep
<1>5. QED
  BY <1>1, <1>2, <1>3, <1>4 DEF OfferUnderWay

LEMMA MissedStep == Fits /\ NoTaskIsMissed /\ [Next]_vars => NoTaskIsMissed'
<1> SUFFICES ASSUME Fits, NoTaskIsMissed, [Next]_vars, NEW s \in Sessions, NEW t \in Tasks,
                    Present(s)', task'[t].status = "available", TaskTags[t] \cap subs'[s] # {}
             PROVE  t \in offered'[s] \/ OfferUnderWay(s, t)'
  BY DEF NoTaskIsMissed
<1>d. job \in [Threads -> Job] /\ subs \in [Sessions -> SUBSET Tags]
  BY DEF Fits, TypeOK
<1>1. CASE task[t].status # "available"
  BY <1>1, AvailableStep DEF OfferUnderWay
<1>2. CASE task[t].status = "available" /\ TaskTags[t] \cap subs[s] # {}
  <2>1. Present(s)
    BY <1>2, PhaseStep DEF Fits, PhasesFit
  <2>2. QED
    BY <1>2, <2>1, ReachStep DEF NoTaskIsMissed
<1>3. CASE TaskTags[t] \cap subs[s] = {}
  <2>1. PICK th \in Threads, r \in Sessions, filter \in SUBSET Tags :
           HandleSubscribe(th, r, filter) \/ HandleUnsubscribe(th, r, filter)
    BY <1>3, CastCases
  <2>2. HandleSubscribe(th, s, filter) /\ TaskTags[t] \cap filter # {}
    BY <1>3, <1>d, <2>1 DEF HandleSubscribe, HandleUnsubscribe
  <2>3. job'[th] = [kind |-> "listing", session |-> s, filter |-> filter]
    BY <1>d, <2>2 DEF HandleSubscribe, Continue
  <2>4. job'[th].kind = "listing" /\ job'[th].session = s /\ Listed(t, job'[th].filter)
    BY <2>2, <2>3 DEF Listed
  <2>5. QED
    BY <2>4 DEF OfferUnderWay
<1>4. QED
  BY <1>1, <1>2, <1>3

\* No session misses a task it subscribed to, for any sessions, tasks and tags:
\* subscribing before listing (dispatcher.go:129-131) and firing the event after
\* the task became available (task.go:118-121) leave no gap between them.
THEOREM NothingMissed == Spec => []NoTaskIsMissed
<1>1. Init => NoTaskIsMissed
  BY DEF Init, NoTaskIsMissed
<1>2. QED
  BY <1>1, FitsHolds, MissedStep, PTL DEF Spec

\* The data of sessions, handlers and broadcasts keep their types.
THEOREM TypeCorrect == Spec => []TypeOK
BY FitsHolds, PTL DEF Fits

=============================================================================
