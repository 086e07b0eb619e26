----------------------------- MODULE MetricsProofs -----------------------------
(***************************************************************************)
(* Proofs about the metrics recorder, for any tasks and sessions, and for  *)
(* a counter of any width.                                                 *)
(*                                                                         *)
(* The recorder's callers use the registry as it may be used, so that what *)
(* TaskRegistryProofs proves holds under the recorder as well.             *)
(***************************************************************************)
EXTENDS MetricsProps, FiniteSetTheorems, TLAPS

USE MetricsAssumption

P == INSTANCE TaskRegistryProofs WITH Owners <- Sessions, Callers <- Sessions \cup {App}

-----------------------------------------------------------------------------
(* The registry under the recorder is the registry *)

LEMMA RegistryAssumed == P!RegistryAssumption
BY DEF P!RegistryAssumption

LEMMA ThreadFacts ==
    /\ Sessions \subseteq Threads /\ App \in Threads /\ Watcher \in Threads
    /\ Threads = Sessions \cup {App, Watcher}
    /\ Threads = P!Threads
BY DEF Threads, R!Threads, P!Threads

LEMMA RegistryInit == Init => P!Init
BY DEF Init, R!Init, P!Init, R!Free, P!Free, R!Threads, P!Threads

\* The steps that change the registry's data.
LEMMA RegistryCases ==
    ASSUME [Next]_vars
    PROVE  \/ UNCHANGED registryVars
           \/ \E s \in Sessions : Disconnect(s)
           \/ \E s \in Sessions, t \in Tasks : Acquire(s, t) \/ Resume(s, t) \/ Release(s, t)
           \/ \E t \in Tasks : Register(t) \/ LeaseRunsOut(t)
           \/ Watch
           \/ \E th \in Threads : \E n \in notices[th] : Fire(th, n)
<1>1. CASE UNCHANGED vars
  BY <1>1 DEF vars
<1>2. ASSUME NEW s \in Sessions, Connect(s) \/ Forget(s)
      PROVE  UNCHANGED registryVars
  BY <1>2 DEF Connect, Forget
<1>3. ASSUME NEW s \in Sessions, NEW t \in Tasks, Submit(s, t)
      PROVE  UNCHANGED registryVars
  BY <1>3 DEF Submit
<1>4. ASSUME NEW th \in Threads, Flight(th) \/ Check(th) \/ Load(th) \/ Store(th)
      PROVE  UNCHANGED registryVars
  BY <1>4 DEF Flight, Check, Load, Store
<1>5. QED
  BY <1>1, <1>2, <1>3, <1>4 DEF Next

LEMMA RegistryStep == [Next]_vars => [P!Next]_(P!vars)
<1> SUFFICES ASSUME [Next]_vars
             PROVE  [P!Next]_(P!vars)
  OBVIOUS
<1> USE ThreadFacts
<1>1. CASE UNCHANGED registryVars
  BY <1>1 DEF registryVars, P!vars
<1>2. ASSUME NEW s \in Sessions, Disconnect(s)
      PROVE  P!Next
  <2>1. P!ReleaseAll(s, s)
    BY <1>2 DEF Disconnect, R!ReleaseAll, P!ReleaseAll, R!Idle, P!Idle, R!MakeAvailable,
                P!MakeAvailable, R!OwnedTasks, P!OwnedTasks, R!Kinds, P!Kinds, R!Free, P!Free
  <2>2. QED
    BY <2>1 DEF P!Next, P!Call
<1>3. ASSUME NEW s \in Sessions, NEW t \in Tasks, Acquire(s, t)
      PROVE  P!Next
  <2>1. P!AcquireFree(s, t, s) \/ P!AcquireExpired(s, t, s)
    BY <1>3 DEF Acquire, R!AcquireFree, P!AcquireFree, R!AcquireExpired, P!AcquireExpired,
                R!Idle, P!Idle, R!Grant, P!Grant, R!OwnedBy, P!OwnedBy, R!Expired, P!Expired,
                R!MakeAvailable, P!MakeAvailable, R!Kinds, P!Kinds, R!Free, P!Free
  <2>2. QED
    BY <2>1 DEF P!Next, P!Call
<1>4. ASSUME NEW s \in Sessions, NEW t \in Tasks, Resume(s, t)
      PROVE  P!Next
  <2>1. P!AcquireResume(s, t, s)
    BY <1>4 DEF Resume, R!AcquireResume, P!AcquireResume, R!Grant, P!Grant, R!OwnedBy, P!OwnedBy
  <2>2. QED
    BY <2>1 DEF P!Next, P!Proceed
<1>5. ASSUME NEW s \in Sessions, NEW t \in Tasks, Release(s, t)
      PROVE  P!Next
  <2>1. P!Release(s, t, s)
    BY <1>5 DEF Release, R!Release, P!Release, R!Idle, P!Idle,
                R!MakeAvailable, P!MakeAvailable, R!Free, P!Free
  <2>2. QED
    BY <2>1 DEF P!Next, P!Call
<1>6. ASSUME NEW t \in Tasks, Register(t) \/ LeaseRunsOut(t)
      PROVE  P!Next
  <2>1. P!Register(App, t) \/ P!LeaseRunsOut(t)
    BY <1>6 DEF Register, LeaseRunsOut, R!Register, P!Register, R!LeaseRunsOut, P!LeaseRunsOut,
                R!Idle, P!Idle, R!MakeAvailable, P!MakeAvailable, R!Free, P!Free
  <2>2. QED
    BY <2>1 DEF P!Next, P!Call
<1>7. CASE Watch
  <2>1. P!EvictExpired
    BY <1>7 DEF Watch, R!EvictExpired, P!EvictExpired, R!Idle, P!Idle, R!Expired, P!Expired,
                R!MakeAvailable, P!MakeAvailable, R!Kinds, P!Kinds, R!Free, P!Free
  <2>2. QED
    BY <2>1 DEF P!Next
<1>8. ASSUME NEW th \in Threads, NEW n \in notices[th], Fire(th, n)
      PROVE  P!Next
  <2>1. P!Fire(th, n)
    BY <1>8 DEF Fire, R!Fire, P!Fire, R!MayFire, P!MayFire, R!NextKind, P!NextKind, R!Kinds, P!Kinds
  <2>2. QED
    BY <2>1 DEF P!Next, P!Proceed
<1>9. QED
  BY RegistryCases, <1>1, <1>2, <1>3, <1>4, <1>5, <1>6, <1>7, <1>8

\* The sessions that the recorder follows do to the registry what its callers
\* may do, so that whatever is proved of it holds here too (dispatcher.go:58-119).
THEOREM RegistryContract == Spec => P!Spec
BY RegistryInit, RegistryStep, PTL DEF Spec, P!Spec

RegistryOK == P!TypeOK /\ P!OwnershipCoherent /\ P!DebtsFit

LEMMA RegistryHolds == Spec => []RegistryOK
BY RegistryContract, P!TypeCorrect, P!Coherence, P!Debts, PTL DEF RegistryOK

LEMMA RegistryFacts ==
    ASSUME RegistryOK
    PROVE  /\ task \in [Tasks -> R!Task]
           /\ notices \in [Threads -> SUBSET R!Notice]
           /\ claim \in [Threads -> SUBSET (Tasks \X Sessions)]
           /\ \A t \in Tasks : task[t].owner # NoOwner <=> task[t].status = "owned"
           /\ \A th \in Threads :
                 /\ \A c, d \in claim[th] : c = d
                 /\ \A m, n \in notices[th] : m.task = n.task => m = n
                 /\ \A n \in notices[th] : "lost" \in n.left => n.owner \in Sessions
BY ThreadFacts DEF RegistryOK, P!TypeOK, P!OwnershipCoherent, P!DebtsFit, P!Task, R!Task,
                   P!Notice, R!Notice, P!Kinds, R!Kinds

-----------------------------------------------------------------------------
(* What a step does to owners and to the events of losses *)

\* Goroutine th has still to call the lost handler for the loss of t by s.
LostOf(th, s, t) ==
    \E n \in notices[th] : n.owner = s /\ n.task = t /\ "lost" \in n.left

\* The tasks of S are taken from their owners, whose losses th has to tell if
\* the reason asks for it.
TakesBack(th, S, told) ==
    /\ \A t \in Tasks : t \notin S => task'[t].owner = task[t].owner
    /\ \A t \in S : task'[t].owner = NoOwner
    /\ \A u \in Threads, s \in Sessions, t \in Tasks :
          LostOf(u, s, t)' <=> IF u = th THEN t \in S /\ task[t].owner = s /\ told
                                         ELSE LostOf(u, s, t)

LEMMA MakeAvailableTakesBack ==
    ASSUME RegistryOK, NEW th \in Threads, NEW S \in SUBSET Tasks, NEW reason, NEW kinds,
           R!MakeAvailable(th, S, reason, kinds)
    PROVE  /\ "lost" \in kinds => TakesBack(th, S, TRUE)
           /\ "lost" \notin kinds => TakesBack(th, S, FALSE)
<1>1. /\ task' = [t \in Tasks |-> IF t \in S THEN R!Free("available") ELSE task[t]]
      /\ notices' = [notices EXCEPT ![th] =
                        {[task |-> t, owner |-> task[t].owner,
                          reason |-> reason, left |-> kinds] : t \in S}]
  BY DEF R!MakeAvailable
<1>2. task \in [Tasks -> R!Task] /\ notices \in [Threads -> SUBSET R!Notice]
  BY RegistryFacts
<1>3. \A t \in Tasks : t \notin S => task'[t].owner = task[t].owner
  BY <1>1
<1>4. \A t \in S : task'[t].owner = NoOwner
  BY <1>1 DEF R!Free
<1>5. ASSUME NEW s \in Sessions, NEW t \in Tasks
      PROVE  LostOf(th, s, t)' <=> t \in S /\ task[t].owner = s /\ "lost" \in kinds
  <2>1. notices'[th] = {[task |-> x, owner |-> task[x].owner,
                         reason |-> reason, left |-> kinds] : x \in S}
    BY <1>1, <1>2
  <2>2. ASSUME NEW n \in notices'[th]
        PROVE  n.task \in S /\ n.owner = task[n.task].owner /\ n.left = kinds
    BY <2>1, <2>2
  <2>3. ASSUME t \in S
        PROVE  \E n \in notices'[th] : n.owner = task[t].owner /\ n.task = t /\ n.left = kinds
    <3>1. PICK n \in notices'[th] :
             n = [task |-> t, owner |-> task[t].owner, reason |-> reason, left |-> kinds]
      BY <2>1, <2>3
    <3>2. QED
      BY <3>1
  <2>4. QED
    BY <2>2, <2>3 DEF LostOf
<1>6. ASSUME NEW u \in Threads, u # th, NEW s \in Sessions, NEW t \in Tasks
      PROVE  LostOf(u, s, t)' <=> LostOf(u, s, t)
  BY <1>1, <1>2, <1>6 DEF LostOf
<1>7. QED
  BY <1>3, <1>4, <1>5, <1>6 DEF TakesBack

\* A handler call takes its event away, and nothing else.
LEMMA FireFacts ==
    ASSUME RegistryOK, NEW th \in Threads, NEW n \in notices[th], R!Fire(th, n)
    PROVE  /\ UNCHANGED <<task, claim>>
           /\ n.task \in Tasks
           /\ R!NextKind(n) = "lost" => n.owner \in Sessions /\ LostOf(th, n.owner, n.task)
           /\ \A u \in Threads, s \in Sessions, t \in Tasks :
                 LostOf(u, s, t)' <=>
                    LostOf(u, s, t) /\ ~(u = th /\ t = n.task /\ R!NextKind(n) = "lost")
<1> DEFINE k    == R!NextKind(n)
           rest == [n EXCEPT !.left = @ \ {k}]
<1>1. notices \in [Threads -> SUBSET R!Notice] /\ n \in R!Notice
  BY RegistryFacts
<1>2. n.task \in Tasks /\ n.left \in (SUBSET {"lost", "available"}) \ {{}}
  BY <1>1 DEF R!Notice, R!Kinds
<1>3. k \in n.left /\ k \in {"lost", "available"}
  <2>1. CASE n.left = R!Kinds
    BY <2>1 DEF R!NextKind, R!Kinds
  <2>2. CASE n.left # R!Kinds
    BY <1>2, <2>2 DEF R!NextKind, R!Kinds
  <2>3. QED
    BY <2>1, <2>2
<1>4. rest.task = n.task /\ rest.owner = n.owner /\ rest.left = n.left \ {k}
  BY <1>1 DEF R!Notice
<1>5. /\ task' = task /\ claim' = claim
      /\ notices' = [notices EXCEPT ![th] = (@ \ {n}) \cup (IF rest.left = {} THEN {} ELSE {rest})]
  BY DEF R!Fire
<1>6. k = "lost" => n.owner \in Sessions /\ LostOf(th, n.owner, n.task)
  BY <1>3, RegistryFacts DEF LostOf
<1>7. \A m \in notices[th] : m.task = n.task => m = n
  BY RegistryFacts
<1> HIDE DEF k, rest
<1>8. ASSUME NEW u \in Threads, u # th, NEW s \in Sessions, NEW t \in Tasks
      PROVE  LostOf(u, s, t)' <=> LostOf(u, s, t)
  BY <1>1, <1>5, <1>8 DEF LostOf
<1>9. ASSUME NEW s \in Sessions, NEW t \in Tasks
      PROVE  LostOf(th, s, t)' <=> LostOf(th, s, t) /\ ~(t = n.task /\ k = "lost")
  <2>1. notices'[th] = (notices[th] \ {n}) \cup (IF rest.left = {} THEN {} ELSE {rest})
    BY <1>1, <1>5
  <2>2. CASE t # n.task
    BY <1>4, <2>1, <2>2 DEF LostOf
  <2>3. CASE t = n.task
    <3>1. LostOf(th, s, t) <=> n.owner = s /\ "lost" \in n.left
      BY <1>7, <2>3 DEF LostOf
    <3>2. LostOf(th, s, t)' <=> n.owner = s /\ "lost" \in rest.left
      <4>1. \A m \in notices'[th] : m.task = n.task => m = rest
        BY <1>7, <2>1
      <4>2. "lost" \in rest.left => rest \in notices'[th]
        BY <2>1
      <4>3. QED
        BY <1>4, <2>3, <4>1, <4>2 DEF LostOf
    <3>3. QED
      BY <1>2, <1>3, <1>4, <2>3, <3>1, <3>2
  <2>4. QED
    BY <2>2, <2>3
<1>10. QED
  BY <1>2, <1>5, <1>6, <1>8, <1>9 DEF k

\* The owner of a task is the session that has it among its tasks.
LEMMA OwnedTasksFacts ==
    ASSUME RegistryOK, NEW s \in Sessions
    PROVE  R!OwnedTasks(s) = {t \in Tasks : task[t].owner = s}
BY RegistryFacts DEF R!OwnedTasks

SameOwners == \A t \in Tasks : task'[t].owner = task[t].owner

SameLosses ==
    \A th \in Threads, s \in Sessions, t \in Tasks : LostOf(th, s, t)' <=> LostOf(th, s, t)

\* Only t changes hands.
Grants(s, t) ==
    /\ task'[t].owner = s
    /\ \A x \in Tasks : x # t => task'[x].owner = task[x].owner
    /\ SameLosses

LEMMA GrantFacts ==
    ASSUME RegistryOK, NEW s \in Sessions, NEW t \in Tasks, R!Grant(t, s), UNCHANGED notices
    PROVE  Grants(s, t)
<1>1. task' = [task EXCEPT ![t] = R!OwnedBy(s)] /\ task \in [Tasks -> R!Task]
  BY RegistryFacts DEF R!Grant
<1>2. SameLosses
  BY DEF SameLosses, LostOf
<1>3. QED
  BY <1>1, <1>2 DEF Grants, R!OwnedBy

-----------------------------------------------------------------------------
(* What each action does to owners, losses and Acquires under way *)

LEMMA Reasons == "lost" \in R!Kinds /\ "lost" \notin {"available"}
BY DEF R!Kinds

LEMMA DisconnectEffect ==
    ASSUME RegistryOK, NEW s \in Sessions, Disconnect(s)
    PROVE  TakesBack(s, R!OwnedTasks(s), TRUE) /\ UNCHANGED claim
<1>1. R!MakeAvailable(s, R!OwnedTasks(s), "disconnected", R!Kinds) /\ UNCHANGED claim
  BY DEF Disconnect, R!ReleaseAll
<1>2. R!OwnedTasks(s) \in SUBSET Tasks
  BY DEF R!OwnedTasks
<1>3. QED
  BY <1>1, <1>2, ThreadFacts, Reasons, MakeAvailableTakesBack

LEMMA AcquireEffect ==
    ASSUME RegistryOK, NEW s \in Sessions, NEW t \in Tasks, Acquire(s, t)
    PROVE  \/ Claimed(s, t) /\ Grants(s, t) /\ task[t].owner = NoOwner /\ UNCHANGED claim
           \/ /\ UNCHANGED <<totalClaims, rec>> /\ TakesBack(s, {t}, TRUE)
              /\ claim' = [claim EXCEPT ![s] = {<<t, s>>}]
<1>1. CASE R!AcquireFree(s, t, s) /\ Claimed(s, t)
  BY <1>1, GrantFacts, RegistryFacts DEF R!AcquireFree
<1>2. CASE R!AcquireExpired(s, t, s) /\ UNCHANGED <<totalClaims, rec>>
  <2>1. /\ R!MakeAvailable(s, {t}, "lease_expired", R!Kinds)
        /\ claim' = [claim EXCEPT ![s] = {<<t, s>>}]
    BY <1>2 DEF R!AcquireExpired
  <2>2. TakesBack(s, {t}, TRUE)
    BY <2>1, ThreadFacts, Reasons, MakeAvailableTakesBack
  <2>3. QED
    BY <1>2, <2>1, <2>2
<1>3. QED
  BY <1>1, <1>2 DEF Acquire

LEMMA ResumeEffect ==
    ASSUME RegistryOK, NEW s \in Sessions, NEW t \in Tasks, Resume(s, t)
    PROVE  Grants(s, t) /\ <<t, s>> \in claim[s] /\ claim' = [claim EXCEPT ![s] = {}]
BY GrantFacts DEF Resume, R!AcquireResume

LEMMA ReleaseEffect ==
    ASSUME RegistryOK, NEW s \in Sessions, NEW t \in Tasks, Release(s, t)
    PROVE  TakesBack(s, {t}, FALSE) /\ task[t].owner = s /\ UNCHANGED claim
<1>1. /\ R!MakeAvailable(s, {t}, "released", {"available"})
      /\ task[t].owner = s /\ UNCHANGED claim
  BY DEF Release, R!Release
<1>2. QED
  BY <1>1, ThreadFacts, Reasons, MakeAvailableTakesBack

LEMMA RegisterEffect ==
    ASSUME RegistryOK, NEW t \in Tasks, Register(t)
    PROVE  TakesBack(App, {t}, FALSE) /\ task[t].owner = NoOwner /\ UNCHANGED claim
<1>1. /\ R!MakeAvailable(App, {t}, "registered", {"available"})
      /\ task[t].status = "absent" /\ UNCHANGED claim
  BY DEF Register, R!Register
<1>2. task[t].owner = NoOwner
  BY <1>1, RegistryFacts
<1>3. QED
  BY <1>1, <1>2, ThreadFacts, Reasons, MakeAvailableTakesBack

LEMMA LeaseEffect ==
    ASSUME RegistryOK, NEW t \in Tasks, LeaseRunsOut(t)
    PROVE  SameOwners /\ SameLosses /\ UNCHANGED claim
<1>1. task' = [task EXCEPT ![t].lease = "expired"] /\ UNCHANGED <<notices, claim>>
  BY DEF LeaseRunsOut, R!LeaseRunsOut
<1>2. SameOwners
  BY <1>1, RegistryFacts DEF SameOwners, R!Task
<1>3. QED
  BY <1>1, <1>2 DEF SameLosses, LostOf

LEMMA WatchEffect ==
    ASSUME RegistryOK, Watch
    PROVE  \E S \in SUBSET Tasks : TakesBack(Watcher, S, TRUE) /\ UNCHANGED claim
<1>1. PICK S \in SUBSET Tasks :
         R!MakeAvailable(Watcher, S, "lease_expired", R!Kinds) /\ UNCHANGED claim
  BY DEF Watch, R!EvictExpired
<1>2. QED
  BY <1>1, ThreadFacts, Reasons, MakeAvailableTakesBack

\* All that a step may do.
LEMMA Effects ==
    ASSUME RegistryOK, [Next]_vars
    PROVE  \/ SameOwners /\ SameLosses /\ UNCHANGED claim
           \/ \E s \in Sessions :
                 Disconnect(s) /\ TakesBack(s, R!OwnedTasks(s), TRUE) /\ UNCHANGED claim
           \/ \E s \in Sessions, t \in Tasks :
                 \/ /\ Acquire(s, t) /\ Claimed(s, t) /\ Grants(s, t)
                    /\ task[t].owner = NoOwner /\ UNCHANGED claim
                 \/ /\ Acquire(s, t) /\ UNCHANGED <<totalClaims, rec>> /\ TakesBack(s, {t}, TRUE)
                    /\ claim' = [claim EXCEPT ![s] = {<<t, s>>}]
                 \/ /\ Resume(s, t) /\ Grants(s, t) /\ <<t, s>> \in claim[s]
                    /\ claim' = [claim EXCEPT ![s] = {}]
                 \/ /\ Release(s, t) /\ TakesBack(s, {t}, FALSE)
                    /\ task[t].owner = s /\ UNCHANGED claim
           \/ \E t \in Tasks :
                 Register(t) /\ TakesBack(App, {t}, FALSE) /\ task[t].owner = NoOwner /\ UNCHANGED claim
           \/ \E S \in SUBSET Tasks :
                 Watch /\ TakesBack(Watcher, S, TRUE) /\ UNCHANGED claim
           \/ \E th \in Threads : \E n \in notices[th] : Fire(th, n)
<1>1. UNCHANGED registryVars => SameOwners /\ SameLosses /\ UNCHANGED claim
  BY DEF registryVars, SameOwners, SameLosses, LostOf
<1>2. QED
  BY <1>1, RegistryCases, DisconnectEffect, AcquireEffect, ResumeEffect, ReleaseEffect,
     RegisterEffect, LeaseEffect, WatchEffect

-----------------------------------------------------------------------------
(* Types, and which goroutine records what *)

\* A goroutine is in one call of the recorder at most, about its own session
\* unless it records an eviction, and with the steps its event calls for.
CallFits(th) ==
    /\ \A r, q \in rec[th] : r = q
    /\ \A r \in rec[th] :
          /\ r.event # "evicted" => th = r.owner /\ phase[th] = "open"
          /\ r.event = "released" => \A s \in Sessions, t \in Tasks : ~LostOf(th, s, t)
          /\ r.step \in OnEntry => /\ r.owner \in entries
                                   /\ r.event \in {"claimed", "released", "evicted"}
          /\ r.step = "check" => r.event # "claimed"

CallsFit == \A th \in Threads : CallFits(th)

\* An Acquire under way is its session's own, which stays until it returns.
ClaimsFit ==
    \A th \in Threads : \A c \in claim[th] :
        th \in Sessions /\ c[2] = th /\ phase[th] = "open" /\ task[c[1]].owner # th

\* The width of the counter is a width.
LEMMA Modulus == 2^Width \in Nat \ {0}
<1>1. IsFiniteSet(1..Width) /\ Cardinality(1..Width) = Width
  BY FS_Interval
<1>2. IsFiniteSet(SUBSET (1..Width)) /\ Cardinality(SUBSET (1..Width)) = 2^Width
  BY <1>1, FS_SUBSET
<1>3. SUBSET (1..Width) # {}
  OBVIOUS
<1>4. QED
  BY <1>2, <1>3, FS_CardinalityType, FS_EmptySet

LEMMA ModuloFacts ==
    ASSUME NEW m \in Nat \ {0}, NEW v \in 0..(m - 1)
    PROVE  /\ (v + 1) % m \in 0..(m - 1) /\ (v + m - 1) % m \in 0..(m - 1)
           /\ v + 1 < m => (v + 1) % m = v + 1
           /\ v > 0 => (v + m - 1) % m = v - 1
OBVIOUS

LEMMA AtMostOne ==
    ASSUME NEW S, \A r, q \in S : r = q
    PROVE  IsFiniteSet(S) /\ Cardinality(S) \in {0, 1} /\ Cardinality(S) <= 1
<1>1. CASE S = {}
  BY <1>1, FS_EmptySet
<1>2. CASE S # {}
  <2>1. PICK r : S = {r}
    BY <1>2
  <2>2. IsFiniteSet(S) /\ Cardinality(S) = 1
    BY <2>1, FS_Singleton
  <2>3. QED
    BY <2>2
<1>3. QED
  BY <1>1, <1>2

\* The types without the count, which CallsFit has.
DataOK ==
    /\ phase \in [Sessions -> Phase]
    /\ totalClaims \in Nat
    /\ rec \in [Threads -> SUBSET Record]
    /\ entries \in SUBSET Sessions
    /\ owned \in [Sessions -> 0..(2^Width - 1)]
    /\ inFlight \in [Tasks -> SUBSET Sessions]
    /\ disturbed \in SUBSET Sessions
    /\ stale \in SUBSET (Sessions \X Tasks)
    /\ haunted \in SUBSET Sessions

LEMMA TypesFollow == DataOK /\ CallsFit => TypeOK
BY AtMostOne DEF DataOK, CallsFit, CallFits, TypeOK

\* A call of the recorder that begins ...
LEMMA Begins ==
    ASSUME NEW th \in Threads, NEW event \in Events, NEW t \in Tasks, NEW s \in Sessions,
           Recorded(th, event, t, s)
    PROVE  \E r \in Record :
              /\ r.event = event /\ r.task = t /\ r.owner = s /\ r.step = "flight"
              /\ rec' = [rec EXCEPT ![th] = {r}]
<1> DEFINE r == [event |-> event, task |-> t, owner |-> s, step |-> "flight", val |-> 0]
<1>1. 0 \in 0..(2^Width - 1)
  BY Modulus
<1>2. r \in Record
  BY <1>1 DEF Record
<1>3. r.event = event /\ r.task = t /\ r.owner = s /\ r.step = "flight"
  OBVIOUS
<1>4. rec' = [rec EXCEPT ![th] = {r}]
  BY DEF Recorded
<1> HIDE DEF r
<1>5. QED
  BY <1>2, <1>3, <1>4

\* ... and one that goes on.
LEMMA GoesOn ==
    ASSUME NEW th \in Threads, NEW r \in Record, NEW step \in OnEntry, NEW val \in 0..(2^Width - 1),
           Go(th, r, step, val)
    PROVE  \E q \in Record :
              /\ q.event = r.event /\ q.task = r.task /\ q.owner = r.owner
              /\ q.step = step /\ q.val = val
              /\ rec' = [rec EXCEPT ![th] = {q}]
<1>1. PICK q : q = [r EXCEPT !.step = step, !.val = val]
  OBVIOUS
<1>2. q \in Record /\ q.event = r.event /\ q.task = r.task /\ q.owner = r.owner
  BY <1>1 DEF Record
<1>3. q.step = step /\ q.val = val
  BY <1>1 DEF Record
<1>4. rec' = [rec EXCEPT ![th] = {q}]
  BY <1>1 DEF Go
<1>5. QED
  BY <1>2, <1>3, <1>4


\* What Flight does with the call r that it finds.
FlightOf(th, r) ==
    /\ r \in Record /\ r.step = "flight"
    /\ \/ r.event \in {"completed", "rejected"} /\ rec' = [rec EXCEPT ![th] = {}]
       \/ /\ r.event \in {"claimed", "released", "evicted"}
          /\ \E q \in Record :
                /\ q.event = r.event /\ q.task = r.task /\ q.owner = r.owner
                /\ q.step \in {"load", "check"}
                /\ q.step = "load" <=> r.event = "claimed"
                /\ rec' = [rec EXCEPT ![th] = {q}]
    /\ entries' = entries \cup {r.owner}
    /\ inFlight' = [inFlight EXCEPT ![r.task] =
                      IF r.event = "claimed" THEN @ \cup {r.owner} ELSE @ \ {r.owner}]
    /\ stale' = IF r.event = "evicted" /\ LateClaim(r)
                  THEN stale \cup {<<r.owner, r.task>>} ELSE stale
    /\ Spoil({q.owner : q \in UsingEntry(r.owner, Threads \ {th})})
    /\ UNCHANGED <<registryVars, phase, totalClaims, owned, haunted>>

LEMMA FlightFacts ==
    ASSUME DataOK, NEW th \in Threads, Flight(th)
    PROVE  \E r \in rec[th] : FlightOf(th, r)
<1>1. PICK r \in rec[th] :
         /\ r.step = "flight"
         /\ inFlight' = [inFlight EXCEPT ![r.task] =
                           IF r.event = "claimed" THEN @ \cup {r.owner} ELSE @ \ {r.owner}]
         /\ stale' = IF r.event = "evicted" /\ LateClaim(r)
                       THEN stale \cup {<<r.owner, r.task>>} ELSE stale
         /\ entries' = entries \cup {r.owner}
         /\ CASE r.event = "claimed"                 -> Go(th, r, "load", 0)
              [] r.event \in {"released", "evicted"} -> Go(th, r, "check", 0)
              [] OTHER                               -> Done(th)
         /\ Spoil({q.owner : q \in UsingEntry(r.owner, Threads \ {th})})
         /\ UNCHANGED <<registryVars, phase, totalClaims, owned, haunted>>
  BY DEF Flight
<1>2. r \in Record
  BY DEF DataOK
<1>3. 0 \in 0..(2^Width - 1)
  BY Modulus
<1>4. CASE r.event = "claimed"
  <2>1. Go(th, r, "load", 0)
    BY <1>1, <1>4
  <2>2. PICK q \in Record : /\ q.event = r.event /\ q.task = r.task /\ q.owner = r.owner
                            /\ q.step = "load" /\ rec' = [rec EXCEPT ![th] = {q}]
    BY <1>2, <1>3, <2>1, GoesOn DEF OnEntry
  <2>3. QED
    BY <1>1, <1>2, <1>4, <2>2 DEF FlightOf
<1>5. CASE r.event \in {"released", "evicted"}
  <2>1. Go(th, r, "check", 0)
    BY <1>1, <1>5
  <2>2. PICK q \in Record : /\ q.event = r.event /\ q.task = r.task /\ q.owner = r.owner
                            /\ q.step = "check" /\ rec' = [rec EXCEPT ![th] = {q}]
    BY <1>2, <1>3, <2>1, GoesOn DEF OnEntry
  <2>3. QED
    BY <1>1, <1>2, <1>5, <2>2 DEF FlightOf
<1>6. CASE r.event \in {"completed", "rejected"}
  <2>1. rec' = [rec EXCEPT ![th] = {}]
    BY <1>1, <1>6 DEF Done
  <2>2. QED
    BY <1>1, <1>2, <1>6, <2>1 DEF FlightOf
<1>7. r.event \in Events
  BY <1>2 DEF Record
<1>8. QED
  BY <1>4, <1>5, <1>6, <1>7 DEF Events

\* What Check, Load and Store do with the call r that they find.
EntryOf(th, r) ==
    /\ r \in Record
    /\ \/ /\ r.step = "check" /\ owned[r.owner] = 0
          /\ rec' = [rec EXCEPT ![th] = {}]
          /\ Spoil({r.owner}) /\ UNCHANGED owned
       \/ /\ r.step = "check" /\ owned[r.owner] > 0
          /\ \E q \in Record :
                /\ q.event = r.event /\ q.task = r.task /\ q.owner = r.owner
                /\ q.step = "load" /\ rec' = [rec EXCEPT ![th] = {q}]
          /\ UNCHANGED <<owned, disturbed>>
       \/ /\ r.step = "load"
          /\ \E q \in Record :
                /\ q.event = r.event /\ q.task = r.task /\ q.owner = r.owner
                /\ q.step = "store" /\ q.val = owned[r.owner]
                /\ rec' = [rec EXCEPT ![th] = {q}]
          /\ UNCHANGED <<owned, disturbed>>
       \/ /\ r.step = "store"
          /\ rec' = [rec EXCEPT ![th] = {}]
          /\ owned' = [owned EXCEPT ![r.owner] =
                         IF r.event = "claimed" THEN (r.val + 1) % 2^Width
                                                ELSE (r.val + 2^Width - 1) % 2^Width]
          /\ UNCHANGED disturbed
    /\ UNCHANGED <<registryVars, phase, totalClaims, entries, inFlight, stale, haunted>>

LEMMA EntryFacts ==
    ASSUME DataOK, NEW th \in Threads, Check(th) \/ Load(th) \/ Store(th)
    PROVE  \E r \in rec[th] : EntryOf(th, r)
<1>1. 0 \in 0..(2^Width - 1)
  BY Modulus
<1>2. CASE Check(th)
  <2>1. PICK r \in rec[th] :
           /\ r.step = "check"
           /\ IF owned[r.owner] > 0
                THEN Go(th, r, "load", 0) /\ UNCHANGED disturbed
                ELSE Done(th) /\ Spoil({r.owner})
           /\ UNCHANGED <<registryVars, phase, totalClaims, recorderVars, stale, haunted>>
    BY <1>2 DEF Check
  <2>2. r \in Record /\ owned[r.owner] \in Nat
    BY Modulus DEF DataOK, Record
  <2>3. CASE owned[r.owner] > 0
    <3>1. PICK q \in Record : /\ q.event = r.event /\ q.task = r.task /\ q.owner = r.owner
                              /\ q.step = "load" /\ rec' = [rec EXCEPT ![th] = {q}]
      BY <1>1, <2>1, <2>2, <2>3, GoesOn DEF OnEntry
    <3>2. QED
      BY <1>2, <2>1, <2>2, <2>3, <3>1 DEF recorderVars, EntryOf
  <2>4. CASE owned[r.owner] = 0
    <3>1. rec' = [rec EXCEPT ![th] = {}] /\ Spoil({r.owner})
      BY <2>1, <2>4 DEF Done
    <3>2. QED
      BY <1>2, <2>1, <2>2, <2>4, <3>1 DEF recorderVars, EntryOf
  <2>5. owned[r.owner] > 0 \/ owned[r.owner] = 0
    BY <2>2
  <2>6. QED
    BY <2>3, <2>4, <2>5
<1>3. CASE Load(th)
  <2>1. PICK r \in rec[th] :
           /\ r.step = "load"
           /\ Go(th, r, "store", owned[r.owner])
           /\ UNCHANGED <<registryVars, phase, totalClaims, recorderVars, historyVars>>
    BY <1>3 DEF Load
  <2>2. r \in Record /\ owned[r.owner] \in 0..(2^Width - 1)
    BY DEF DataOK, Record
  <2>3. PICK q \in Record : /\ q.event = r.event /\ q.task = r.task /\ q.owner = r.owner
                            /\ q.step = "store" /\ q.val = owned[r.owner]
                            /\ rec' = [rec EXCEPT ![th] = {q}]
    BY <2>1, <2>2, GoesOn DEF OnEntry
  <2>4. QED
    BY <1>3, <2>1, <2>2, <2>3 DEF recorderVars, historyVars, EntryOf
<1>4. CASE Store(th)
  <2>1. PICK r \in rec[th] :
           /\ r.step = "store"
           /\ owned' = [owned EXCEPT ![r.owner] =
                          IF r.event = "claimed" THEN (r.val + 1) % 2^Width
                                                 ELSE (r.val + 2^Width - 1) % 2^Width]
           /\ Done(th)
           /\ UNCHANGED <<registryVars, phase, totalClaims, entries, inFlight, historyVars>>
    BY <1>4 DEF Store
  <2>2. r \in Record
    BY DEF DataOK
  <2>3. QED
    BY <1>4, <2>1, <2>2 DEF Done, historyVars, EntryOf
<1>5. QED
  BY <1>2, <1>3, <1>4


\* A goroutine has no loss to tell.
Quiet(th) == \A s \in Sessions, t \in Tasks : ~LostOf(th, s, t)

\* Losses come to goroutines that are in no call of the recorder.
LEMMA LossesComeToTheFree ==
    ASSUME RegistryOK, DataOK, [Next]_vars, NEW th \in Threads, Quiet(th)
    PROVE  Quiet(th)' \/ (rec[th] = {} /\ rec'[th] = {})
<1> USE ThreadFacts
<1>1. CASE SameOwners /\ SameLosses /\ UNCHANGED claim
  BY <1>1 DEF SameLosses, Quiet
<1>2. ASSUME NEW s \in Sessions, Disconnect(s), TakesBack(s, R!OwnedTasks(s), TRUE)
      PROVE  Quiet(th)' \/ (rec[th] = {} /\ rec'[th] = {})
  <2>1. rec[s] = {} /\ rec' = rec
    BY <1>2 DEF Disconnect, Serving, Free
  <2>2. th # s => Quiet(th)'
    BY <1>2 DEF TakesBack, Quiet
  <2>3. QED
    BY <2>1, <2>2
<1>3. ASSUME NEW s \in Sessions, NEW t \in Tasks, Grants(s, t)
      PROVE  Quiet(th)'
  BY <1>3 DEF Grants, SameLosses, Quiet
<1>4. ASSUME NEW s \in Sessions, NEW t \in Tasks, Acquire(s, t), UNCHANGED rec, TakesBack(s, {t}, TRUE)
      PROVE  Quiet(th)' \/ (rec[th] = {} /\ rec'[th] = {})
  <2>1. rec[s] = {} /\ rec' = rec
    BY <1>4 DEF Acquire, Serving, Free
  <2>2. th # s => Quiet(th)'
    BY <1>4 DEF TakesBack, Quiet
  <2>3. QED
    BY <2>1, <2>2
<1>5. ASSUME NEW u \in Threads, NEW t \in Tasks, TakesBack(u, {t}, FALSE)
      PROVE  Quiet(th)'
  BY <1>5 DEF TakesBack, Quiet
<1>6. ASSUME NEW S \in SUBSET Tasks, Watch, TakesBack(Watcher, S, TRUE)
      PROVE  Quiet(th)' \/ (rec[th] = {} /\ rec'[th] = {})
  <2>1. rec[Watcher] = {} /\ rec' = rec
    BY <1>6 DEF Watch, Free
  <2>2. th # Watcher => Quiet(th)'
    BY <1>6 DEF TakesBack, Quiet
  <2>3. QED
    BY <2>1, <2>2
<1>7. ASSUME NEW u \in Threads, NEW n \in notices[u], Fire(u, n)
      PROVE  Quiet(th)'
  <2>1. R!Fire(u, n)
    BY <1>7 DEF Fire
  <2>2. QED
    BY <2>1, FireFacts DEF Quiet
<1>8. QED
  BY Effects, <1>1, <1>2, <1>3, <1>4, <1>5, <1>6, <1>7

\* A step that leaves a goroutine in its call, or ends the call, is in order
\* if the session stays and the entry is not deleted.
LEMMA CallGoesOn ==
    ASSUME RegistryOK, DataOK, [Next]_vars, NEW th \in Threads, CallFits(th),
           \A r \in rec'[th] :
              r \in rec[th] /\ (th \in Sessions => phase'[th] = phase[th])
                            /\ (r.step \in OnEntry => r.owner \in entries'),
           th = Watcher \/ th = App \/ th \in Sessions
    PROVE  CallFits(th)'
<1>1. CASE rec'[th] = {}
  BY <1>1 DEF CallFits
<1>2. CASE rec'[th] # {}
  <2>1. PICK r \in rec[th] : rec'[th] = {r}
    BY <1>2 DEF CallFits
  <2>2. r.event = "released" => Quiet(th) /\ Quiet(th)'
    <3>1. r.event = "released" => Quiet(th)
      BY DEF CallFits, Quiet
    <3>2. QED
      BY <1>2, <3>1, LossesComeToTheFree
  <2>3. r.event # "evicted" => th = r.owner /\ phase'[th] = "open"
    <3>1. r \in Record
      BY DEF DataOK
    <3>2. r.owner \in Sessions
      BY <3>1 DEF Record
    <3>3. QED
      BY <2>1, <3>2 DEF CallFits
  <2>4. r.step \in OnEntry => r.owner \in entries' /\ r.event \in {"claimed", "released", "evicted"}
    BY <2>1 DEF CallFits
  <2>5. r.step = "check" => r.event # "claimed"
    BY DEF CallFits
  <2>6. QED
    BY <2>1, <2>2, <2>3, <2>4, <2>5 DEF CallFits, Quiet
<1>3. QED
  BY <1>1, <1>2

\* A call that has just begun.
LEMMA CallBegins ==
    ASSUME DataOK, NEW th \in Threads, NEW event \in Events, NEW t \in Tasks, NEW s \in Sessions,
           Recorded(th, event, t, s),
           event # "evicted" => th = s /\ phase'[th] = "open",
           event = "released" => Quiet(th)'
    PROVE  /\ CallFits(th)' /\ rec' \in [Threads -> SUBSET Record]
           /\ \A u \in Threads \ {th} : rec'[u] = rec[u]
<1>1. PICK r \in Record : /\ r.event = event /\ r.task = t /\ r.owner = s /\ r.step = "flight"
                          /\ rec' = [rec EXCEPT ![th] = {r}]
  BY Begins
<1>2. rec'[th] = {r} /\ rec' \in [Threads -> SUBSET Record] /\ \A u \in Threads \ {th} : rec'[u] = rec[u]
  BY <1>1 DEF DataOK
<1>3. r.step \notin OnEntry /\ r.step # "check"
  BY <1>1 DEF OnEntry
<1>4. QED
  BY <1>1, <1>2, <1>3 DEF CallFits, Quiet


LEMMA SpoilFacts ==
    ASSUME DataOK, NEW S \in SUBSET Sessions, Spoil(S)
    PROVE  disturbed' \in SUBSET Sessions
BY DEF DataOK, Spoil

LEMMA CallsInit == Init => DataOK /\ CallsFit
<1> SUFFICES ASSUME Init PROVE DataOK /\ CallsFit
  OBVIOUS
<1>1. 0 \in 0..(2^Width - 1)
  BY Modulus
<1>2. DataOK
  BY <1>1 DEF Init, DataOK, Phase
<1>3. CallsFit
  BY DEF Init, CallsFit, CallFits
<1>4. QED
  BY <1>2, <1>3

LEMMA CallsStep == RegistryOK /\ DataOK /\ CallsFit /\ ClaimsFit /\ [Next]_vars => DataOK' /\ CallsFit'
<1> SUFFICES ASSUME RegistryOK, DataOK, CallsFit, ClaimsFit, [Next]_vars
             PROVE  DataOK' /\ CallsFit'
  OBVIOUS
<1> USE ThreadFacts
<1>a. \A th \in Threads : CallFits(th)
  BY DEF CallsFit
<1>1. CASE UNCHANGED <<phase, rec, recorderVars, totalClaims, historyVars>>
  <2>1. DataOK'
    BY <1>1 DEF DataOK, recorderVars, historyVars
  <2>2. ASSUME NEW th \in Threads
        PROVE  CallFits(th)'
    <3>1. \A r \in rec'[th] : r \in rec[th] /\ (th \in Sessions => phase'[th] = phase[th])
                                 /\ (r.step \in OnEntry => r.owner \in entries')
      BY <1>1, <1>a DEF CallFits, recorderVars
    <3>2. QED
      BY <1>a, <3>1, CallGoesOn
  <2>3. QED
    BY <2>1, <2>2 DEF CallsFit
<1>2. ASSUME NEW s \in Sessions, Connect(s)
      PROVE  DataOK' /\ CallsFit'
  <2>1. DataOK'
    BY <1>2 DEF Connect, DataOK, Phase, historyVars
  <2>2. ASSUME NEW th \in Threads
        PROVE  CallFits(th)'
    <3>1. rec' = rec /\ phase[s] = "new" /\ phase' = [phase EXCEPT ![s] = "open"]
          /\ entries' = entries \cup {s}
      BY <1>2 DEF Connect
    <3>2. ASSUME NEW r \in rec'[th], th \in Sessions
          PROVE  phase'[th] = phase[th] \/ (th = s /\ r.event = "evicted")
      BY <1>a, <3>1, <3>2 DEF CallFits, DataOK
    <3>3. CASE th # s
      <4>1. \A r \in rec'[th] : r \in rec[th] /\ (th \in Sessions => phase'[th] = phase[th])
                                   /\ (r.step \in OnEntry => r.owner \in entries')
        BY <1>a, <3>1, <3>3 DEF CallFits, DataOK
      <4>2. QED
        BY <1>a, <4>1, CallGoesOn
    <3>4. CASE th = s
      BY <1>a, <3>1, <3>2, <3>4 DEF CallFits, DataOK
    <3>5. QED
      BY <3>3, <3>4
  <2>3. QED
    BY <2>1, <2>2 DEF CallsFit
<1>3. ASSUME NEW s \in Sessions, Disconnect(s)
      PROVE  DataOK' /\ CallsFit'
  <2>1. /\ rec' = rec /\ rec[s] = {} /\ phase' = [phase EXCEPT ![s] = "leaving"]
        /\ UNCHANGED <<totalClaims, recorderVars, historyVars>>
    BY <1>3 DEF Disconnect, Serving, Free
  <2>2. DataOK'
    BY <2>1 DEF DataOK, Phase, recorderVars, historyVars
  <2>3. ASSUME NEW th \in Threads
        PROVE  CallFits(th)'
    <3>1. \A r \in rec'[th] : r \in rec[th] /\ (th \in Sessions => phase'[th] = phase[th])
                                 /\ (r.step \in OnEntry => r.owner \in entries')
      BY <1>a, <2>1 DEF CallFits, DataOK, recorderVars
    <3>2. QED
      BY <1>a, <3>1, CallGoesOn
  <2>4. QED
    BY <2>2, <2>3 DEF CallsFit
<1>4. ASSUME NEW s \in Sessions, Forget(s)
      PROVE  DataOK' /\ CallsFit'
  <2>1. /\ phase[s] = "leaving" /\ phase' = [phase EXCEPT ![s] = "gone"]
        /\ entries' = entries \ {s} /\ owned' = [owned EXCEPT ![s] = 0]
        /\ rec' = [th \in Threads |-> {r \in rec[th] : r.owner # s \/ r.step \notin OnEntry}]
        /\ disturbed' = disturbed \ {s} /\ haunted' \in {haunted, haunted \cup {s}}
        /\ rec[s] = {} /\ UNCHANGED <<totalClaims, inFlight, stale>>
    BY <1>4 DEF Forget, DeleteEntry, Free
  <2>2. DataOK'
    <3>1. 0 \in 0..(2^Width - 1)
      BY Modulus
    <3>2. rec' \in [Threads -> SUBSET Record]
      BY <2>1 DEF DataOK
    <3>3. phase' \in [Sessions -> Phase] /\ owned' \in [Sessions -> 0..(2^Width - 1)]
      BY <2>1, <3>1 DEF DataOK, Phase
    <3>4. QED
      BY <2>1, <3>2, <3>3 DEF DataOK
  <2>3. ASSUME NEW th \in Threads
        PROVE  CallFits(th)'
    <3>1. rec'[th] = {r \in rec[th] : r.owner # s \/ r.step \notin OnEntry}
      BY <2>1
    <3>2. \A r \in rec'[th] : r \in rec[th] /\ (th \in Sessions => phase'[th] = phase[th])
                                 /\ (r.step \in OnEntry => r.owner \in entries')
      BY <1>a, <2>1, <3>1 DEF CallFits, DataOK
    <3>3. QED
      BY <1>a, <3>2, CallGoesOn
  <2>4. QED
    BY <2>2, <2>3 DEF CallsFit
<1>5. ASSUME NEW th \in Threads, NEW event \in Events, NEW t \in Tasks, NEW s \in Sessions,
             Recorded(th, event, t, s),
             event # "evicted" => th = s /\ phase[th] = "open",
             event = "released" => Quiet(th)',
             totalClaims' \in Nat, UNCHANGED <<phase, recorderVars, haunted>>,
             disturbed' \in SUBSET Sessions, stale' \in SUBSET (Sessions \X Tasks)
      PROVE  DataOK' /\ CallsFit'
  <2>1. /\ CallFits(th)' /\ rec' \in [Threads -> SUBSET Record]
        /\ \A u \in Threads \ {th} : rec'[u] = rec[u]
    BY <1>5, CallBegins
  <2>2. DataOK'
    BY <1>5, <2>1 DEF DataOK, recorderVars
  <2>3. ASSUME NEW u \in Threads, u # th
        PROVE  CallFits(u)'
    <3>1. \A r \in rec'[u] : r \in rec[u] /\ (u \in Sessions => phase'[u] = phase[u])
                                 /\ (r.step \in OnEntry => r.owner \in entries')
      BY <1>5, <1>a, <2>1, <2>3 DEF CallFits, recorderVars
    <3>2. QED
      BY <1>a, <3>1, CallGoesOn
  <2>4. QED
    BY <2>1, <2>2, <2>3 DEF CallsFit
<1>6. ASSUME NEW s \in Sessions, NEW t \in Tasks, Acquire(s, t)
      PROVE  DataOK' /\ CallsFit'
  <2>1. CASE Claimed(s, t)
    <3>1. /\ phase[s] = "open" /\ totalClaims' = totalClaims + 1 /\ Recorded(s, "claimed", t, s)
          /\ UNCHANGED <<phase, recorderVars, historyVars>>
      BY <1>6, <2>1 DEF Acquire, Serving, Claimed
    <3>2. QED
      BY <1>5, <3>1 DEF DataOK, Events, historyVars
  <2>2. CASE UNCHANGED <<totalClaims, rec>>
    <3>1. UNCHANGED <<phase, rec, recorderVars, totalClaims, historyVars>>
      BY <1>6, <2>2 DEF Acquire
    <3>2. QED
      BY <1>1, <3>1
  <2>3. QED
    BY <1>6, <2>1, <2>2 DEF Acquire
<1>7. ASSUME NEW s \in Sessions, NEW t \in Tasks, Resume(s, t), phase[s] = "open"
      PROVE  DataOK' /\ CallsFit'
  <2> DEFINE robbed == {task[t].owner} \ {s, NoOwner}
  <2>1. /\ totalClaims' = totalClaims + 1 /\ Recorded(s, "claimed", t, s)
        /\ Spoil(robbed) /\ stale' = stale \cup {<<o, t>> : o \in robbed}
        /\ UNCHANGED <<phase, recorderVars, haunted>>
    BY <1>7 DEF Resume, Claimed
  <2>2. robbed \in SUBSET Sessions
    <3>1. task[t] \in R!Task
      BY RegistryFacts
    <3>2. QED
      BY <3>1 DEF R!Task
  <2>3. disturbed' \in SUBSET Sessions /\ stale' \in SUBSET (Sessions \X Tasks)
    BY <2>1, <2>2, SpoilFacts DEF DataOK
  <2>4. QED
    BY <1>5, <1>7, <2>1, <2>3 DEF DataOK, Events
<1>8. ASSUME NEW s \in Sessions, NEW t \in Tasks, Release(s, t), TakesBack(s, {t}, FALSE)
      PROVE  DataOK' /\ CallsFit'
  <2>1. /\ phase[s] = "open" /\ Recorded(s, "released", t, s)
        /\ UNCHANGED <<phase, totalClaims, recorderVars, historyVars>>
    BY <1>8 DEF Release, Serving
  <2>2. Quiet(s)'
    BY <1>8 DEF TakesBack, Quiet
  <2>3. QED
    BY <1>5, <2>1, <2>2 DEF DataOK, Events, historyVars
<1>9. ASSUME NEW s \in Sessions, NEW t \in Tasks, Submit(s, t)
      PROVE  DataOK' /\ CallsFit'
  <2>1. /\ phase[s] = "open" /\ (Recorded(s, "rejected", t, s) \/ Recorded(s, "completed", t, s))
        /\ UNCHANGED <<phase, totalClaims, recorderVars, historyVars>>
    BY <1>9 DEF Submit, Serving
  <2>2. QED
    BY <1>5, <2>1 DEF DataOK, Events, historyVars
<1>10. ASSUME NEW th \in Threads, NEW n \in notices[th], Fire(th, n)
       PROVE  DataOK' /\ CallsFit'
  <2>1. /\ R!Fire(th, n)
        /\ IF R!NextKind(n) = "lost" THEN Recorded(th, "evicted", n.task, n.owner) ELSE UNCHANGED rec
        /\ UNCHANGED <<phase, totalClaims, recorderVars, historyVars>>
    BY <1>10 DEF Fire
  <2>2. CASE R!NextKind(n) = "lost"
    <3>1. n.task \in Tasks /\ n.owner \in Sessions
      BY <2>1, <2>2, FireFacts
    <3>2. QED
      BY <1>5, <2>1, <2>2, <3>1 DEF DataOK, Events, historyVars
  <2>3. CASE R!NextKind(n) # "lost"
    BY <1>1, <2>1, <2>3
  <2>4. QED
    BY <2>2, <2>3
<1>11. ASSUME NEW th \in Threads, \A u \in Threads \ {th} : rec'[u] = rec[u],
              CallFits(th)', entries \subseteq entries', UNCHANGED phase
       PROVE  CallsFit'
  <2>1. ASSUME NEW u \in Threads, u # th
        PROVE  CallFits(u)'
    <3>1. \A q \in rec'[u] : q \in rec[u] /\ (u \in Sessions => phase'[u] = phase[u])
                                 /\ (q.step \in OnEntry => q.owner \in entries')
      BY <1>11, <1>a, <2>1 DEF CallFits
    <3>2. QED
      BY <1>a, <3>1, CallGoesOn
  <2>2. QED
    BY <1>11, <2>1 DEF CallsFit
<1>12. ASSUME NEW th \in Threads, rec' = [rec EXCEPT ![th] = {}],
             entries \subseteq entries', UNCHANGED phase
      PROVE  CallsFit' /\ rec' \in [Threads -> SUBSET Record]
  <2>1. /\ rec' \in [Threads -> SUBSET Record] /\ rec'[th] = {}
        /\ \A u \in Threads \ {th} : rec'[u] = rec[u]
    BY <1>12 DEF DataOK
  <2>2. CallFits(th)'
    BY <2>1 DEF CallFits
  <2>3. QED
    BY <1>11, <1>12, <2>1, <2>2
<1>13. ASSUME NEW th \in Threads, NEW r \in rec[th], NEW q \in Record, rec' = [rec EXCEPT ![th] = {q}],
             q.event = r.event, q.owner = r.owner, r.event \in {"claimed", "released", "evicted"},
             q.step = "check" => q.event # "claimed",
             q.owner \in entries', entries \subseteq entries', UNCHANGED phase
      PROVE  CallsFit' /\ rec' \in [Threads -> SUBSET Record]
  <2>1. /\ rec' \in [Threads -> SUBSET Record] /\ rec'[th] = {q}
        /\ \A u \in Threads \ {th} : rec'[u] = rec[u]
    BY <1>13 DEF DataOK
  <2>2. r.event = "released" => Quiet(th)'
    <3>1. r.event = "released" => Quiet(th)
      BY <1>a DEF CallFits, Quiet
    <3>2. QED
      BY <2>1, <3>1, LossesComeToTheFree
  <2>3. q.event # "evicted" => th = q.owner /\ phase'[th] = "open"
    BY <1>a, <1>13 DEF CallFits
  <2>4. CallFits(th)'
    BY <1>13, <2>1, <2>2, <2>3 DEF CallFits, Quiet
  <2>5. QED
    BY <1>11, <1>13, <2>1, <2>4
<1>14. ASSUME NEW th \in Threads, Flight(th)
       PROVE  DataOK' /\ CallsFit'
  <2>a. PICK r \in rec[th] : FlightOf(th, r)
    BY <1>14, FlightFacts
  <2> DEFINE step(q) == /\ r.event \in {"claimed", "released", "evicted"}
                        /\ q.event = r.event /\ q.owner = r.owner
                        /\ q.step \in {"load", "check"} /\ (q.step = "load" <=> r.event = "claimed")
                        /\ rec' = [rec EXCEPT ![th] = {q}]
  <2>1. /\ r \in Record
        /\ rec' = [rec EXCEPT ![th] = {}] \/ \E q \in Record : step(q)
        /\ entries' = entries \cup {r.owner}
        /\ inFlight' = [inFlight EXCEPT ![r.task] =
                          IF r.event = "claimed" THEN @ \cup {r.owner} ELSE @ \ {r.owner}]
        /\ stale' = IF r.event = "evicted" /\ LateClaim(r)
                      THEN stale \cup {<<r.owner, r.task>>} ELSE stale
        /\ Spoil({q.owner : q \in UsingEntry(r.owner, Threads \ {th})})
        /\ UNCHANGED <<registryVars, phase, totalClaims, owned, haunted>>
    BY <2>a DEF FlightOf
  <2>2. r.task \in Tasks /\ r.owner \in Sessions
    BY <2>1 DEF Record
  <2>3. CallsFit' /\ rec' \in [Threads -> SUBSET Record]
    <3>1. CASE rec' = [rec EXCEPT ![th] = {}]
      BY <1>12, <2>1, <3>1
    <3>2. ASSUME NEW q \in Record, step(q)
          PROVE  CallsFit' /\ rec' \in [Threads -> SUBSET Record]
      <4>1. q.step = "check" => q.event # "claimed"
        BY <3>2
      <4>2. q.owner \in entries' /\ entries \subseteq entries' /\ UNCHANGED phase
        BY <2>1, <3>2
      <4>3. QED
        BY <1>13, <3>2, <4>1, <4>2
    <3>3. QED
      BY <2>1, <3>1, <3>2
  <2>4. inFlight' \in [Tasks -> SUBSET Sessions] /\ stale' \in SUBSET (Sessions \X Tasks)
    BY <2>1, <2>2 DEF DataOK
  <2>5. disturbed' \in SUBSET Sessions
    <3>1. {q.owner : q \in UsingEntry(r.owner, Threads \ {th})} \in SUBSET Sessions
      BY <2>2 DEF UsingEntry
    <3>2. QED
      BY <2>1, <3>1, SpoilFacts
  <2>6. QED
    BY <2>1, <2>2, <2>3, <2>4, <2>5 DEF DataOK
<1>15. ASSUME NEW th \in Threads, Check(th) \/ Load(th) \/ Store(th)
       PROVE  DataOK' /\ CallsFit'
  <2>1. PICK r \in rec[th] :
           /\ r \in Record /\ r.step \in OnEntry
           /\ \/ rec' = [rec EXCEPT ![th] = {}]
              \/ \E q \in Record :
                    /\ q.event = r.event /\ q.owner = r.owner /\ q.step # "check"
                    /\ rec' = [rec EXCEPT ![th] = {q}]
           /\ \/ UNCHANGED owned
              \/ owned' = [owned EXCEPT ![r.owner] =
                             IF r.event = "claimed" THEN (r.val + 1) % 2^Width
                                                    ELSE (r.val + 2^Width - 1) % 2^Width]
           /\ UNCHANGED disturbed \/ Spoil({r.owner})
           /\ UNCHANGED <<registryVars, phase, totalClaims, entries, inFlight, stale, haunted>>
    <3>1. PICK r \in rec[th] : EntryOf(th, r)
      BY <1>15, EntryFacts
    <3>2. \A q : q.step \in {"load", "store"} => q.step # "check"
      OBVIOUS
    <3>3. QED
      BY <3>1, <3>2 DEF OnEntry, EntryOf
  <2>2. r.owner \in Sessions /\ r.val \in 0..(2^Width - 1)
    BY <2>1 DEF Record
  <2>3. CallsFit' /\ rec' \in [Threads -> SUBSET Record]
    <3>1. CASE rec' = [rec EXCEPT ![th] = {}]
      BY <1>12, <2>1, <3>1
    <3>2. ASSUME NEW q \in Record, q.event = r.event, q.owner = r.owner, q.step # "check",
                 rec' = [rec EXCEPT ![th] = {q}]
          PROVE  CallsFit' /\ rec' \in [Threads -> SUBSET Record]
      <4>1. r.owner \in entries /\ r.event \in {"claimed", "released", "evicted"}
        BY <1>a, <2>1 DEF CallFits
      <4>2. QED
        BY <1>13, <2>1, <3>2, <4>1
    <3>3. QED
      BY <2>1, <3>1, <3>2
  <2>4. owned' \in [Sessions -> 0..(2^Width - 1)]
    <3>2. (r.val + 1) % 2^Width \in 0..(2^Width - 1) /\ (r.val + 2^Width - 1) % 2^Width \in 0..(2^Width - 1)
      BY <2>2, Modulus, ModuloFacts
    <3>3. QED
      BY <2>1, <2>2, <3>2 DEF DataOK
  <2>5. disturbed' \in SUBSET Sessions
    <3>1. {r.owner} \in SUBSET Sessions
      BY <2>2
    <3>2. QED
      BY <2>1, <3>1, SpoilFacts DEF DataOK
  <2>6. QED
    BY <2>1, <2>3, <2>4, <2>5 DEF DataOK
<1>16. ASSUME NEW s \in Sessions, NEW t \in Tasks, Resume(s, t)
       PROVE  phase[s] = "open"
  <2>1. <<t, s>> \in claim[s]
    BY <1>16 DEF Resume, R!AcquireResume
  <2>2. QED
    BY <2>1 DEF ClaimsFit
<1>17. ASSUME NEW s \in Sessions, NEW t \in Tasks, Release(s, t)
       PROVE  TakesBack(s, {t}, FALSE)
  <2>1. R!MakeAvailable(s, {t}, "released", {"available"}) /\ "lost" \notin {"available"}
    BY <1>17 DEF Release, R!Release
  <2>2. QED
    BY <2>1, MakeAvailableTakesBack
<1>18. ASSUME NEW t \in Tasks, Register(t) \/ LeaseRunsOut(t)
       PROVE  DataOK' /\ CallsFit'
  BY <1>1, <1>18 DEF Register, LeaseRunsOut
<1>19. Watch => DataOK' /\ CallsFit'
  BY <1>1 DEF Watch
<1>20. UNCHANGED vars => DataOK' /\ CallsFit'
  BY <1>1 DEF vars
<1>21. QED
  BY <1>2, <1>3, <1>4, <1>6, <1>7, <1>8, <1>9, <1>10, <1>14, <1>15, <1>16, <1>17, <1>18, <1>19, <1>20
     DEF Next

\* A session's life goes on when its goroutine is free.
LEMMA PhaseFacts ==
    ASSUME DataOK, [Next]_vars, NEW s \in Sessions
    PROVE  \/ phase'[s] = phase[s]
           \/ phase[s] = "new" /\ phase'[s] = "open"
           \/ phase[s] = "open" /\ phase'[s] = "leaving" /\ Disconnect(s)
           \/ phase[s] = "leaving" /\ phase'[s] = "gone" /\ Forget(s)
<1>1. CASE UNCHANGED phase
  BY <1>1
<1>2. ASSUME NEW o \in Sessions, Connect(o)
      PROVE  phase'[s] = phase[s] \/ (phase[s] = "new" /\ phase'[s] = "open")
  BY <1>2 DEF Connect, DataOK
<1>3. ASSUME NEW o \in Sessions, Disconnect(o)
      PROVE  phase'[s] = phase[s] \/ (phase[s] = "open" /\ phase'[s] = "leaving" /\ Disconnect(s))
  BY <1>3 DEF Disconnect, Serving, DataOK
<1>4. ASSUME NEW o \in Sessions, Forget(o)
      PROVE  phase'[s] = phase[s] \/ (phase[s] = "leaving" /\ phase'[s] = "gone" /\ Forget(s))
  BY <1>4 DEF Forget, DataOK
<1>5. ASSUME NEW o \in Sessions, NEW t \in Tasks, Acquire(o, t) \/ Resume(o, t) \/ Release(o, t) \/ Submit(o, t)
      PROVE  UNCHANGED phase
  BY <1>5 DEF Acquire, Resume, Release, Submit
<1>6. ASSUME NEW t \in Tasks, Register(t) \/ LeaseRunsOut(t)
      PROVE  UNCHANGED phase
  BY <1>6 DEF Register, LeaseRunsOut
<1>7. ASSUME NEW th \in Threads, (\E n \in notices[th] : Fire(th, n)) \/ Flight(th) \/ Check(th) \/ Load(th) \/ Store(th)
      PROVE  UNCHANGED phase
  BY <1>7 DEF Fire, Flight, Check, Load, Store
<1>8. QED
  BY <1>1, <1>2, <1>3, <1>4, <1>5, <1>6, <1>7 DEF Next, Watch, vars

LEMMA ClaimsInit == Init => ClaimsFit
BY ThreadFacts DEF Init, R!Init, ClaimsFit, R!Threads

LEMMA ClaimsStep == RegistryOK /\ DataOK /\ ClaimsFit /\ [Next]_vars => ClaimsFit'
<1> SUFFICES ASSUME RegistryOK, DataOK, ClaimsFit, [Next]_vars
             PROVE  ClaimsFit'
  OBVIOUS
<1> USE ThreadFacts
<1>a. /\ claim \in [Threads -> SUBSET (Tasks \X Sessions)]
      /\ NoOwner \notin Sessions
  BY RegistryFacts
<1>b. ASSUME NEW th \in Threads, NEW c \in claim[th]
      PROVE  /\ th \in Sessions /\ c[2] = th /\ phase'[th] = "open"
             /\ c[1] \in Tasks /\ task[c[1]].owner # th
  <2>1. th \in Sessions /\ c[2] = th /\ phase[th] = "open" /\ task[c[1]].owner # th
    BY <1>b DEF ClaimsFit
  <2>2. ~Free(th)
    BY <1>b DEF Free, R!Idle
  <2>3. phase'[th] = "open"
    BY <2>1, <2>2, PhaseFacts DEF Disconnect, Serving
  <2>4. QED
    BY <1>a, <1>b, <2>1, <2>3
<1>1. CASE SameOwners /\ UNCHANGED claim
  BY <1>1, <1>b DEF ClaimsFit, SameOwners
<1>2. ASSUME NEW th \in Threads, NEW S \in SUBSET Tasks, NEW told, TakesBack(th, S, told), UNCHANGED claim
      PROVE  ClaimsFit'
  BY <1>2, <1>a, <1>b DEF ClaimsFit, TakesBack
<1>3. ASSUME NEW s \in Sessions, NEW t \in Tasks, Grants(s, t),
             (claim' = claim /\ claim[s] = {}) \/ claim' = [claim EXCEPT ![s] = {}]
      PROVE  ClaimsFit'
  <2>1. \A th \in Threads : \A c \in claim'[th] : th # s /\ c \in claim[th]
    BY <1>3, <1>a
  <2>2. QED
    BY <1>3, <1>b, <2>1 DEF ClaimsFit, Grants
<1>4. ASSUME NEW s \in Sessions, NEW t \in Tasks, Acquire(s, t), TakesBack(s, {t}, TRUE),
             claim' = [claim EXCEPT ![s] = {<<t, s>>}]
      PROVE  ClaimsFit'
  <2>1. phase'[s] = "open"
    BY <1>4 DEF Acquire, Serving
  <2>2. task'[t].owner = NoOwner /\ \A x \in Tasks : task'[x].owner \in {NoOwner, task[x].owner}
    BY <1>4 DEF TakesBack
  <2>3. ASSUME NEW th \in Threads, NEW c \in claim'[th]
        PROVE  th \in Sessions /\ c[2] = th /\ phase'[th] = "open" /\ task'[c[1]].owner # th
    <3>1. CASE th = s
      BY <1>4, <1>a, <2>1, <2>2, <2>3, <3>1
    <3>2. CASE th # s
      BY <1>4, <1>a, <1>b, <2>2, <2>3, <3>2
    <3>3. QED
      BY <3>1, <3>2
  <2>4. QED
    BY <2>3 DEF ClaimsFit
<1>5. ASSUME NEW th \in Threads, NEW n \in notices[th], Fire(th, n)
      PROVE  SameOwners /\ UNCHANGED claim
  <2>1. R!Fire(th, n)
    BY <1>5 DEF Fire
  <2>2. QED
    BY <2>1, FireFacts DEF SameOwners
<1>6. \A s \in Sessions, t \in Tasks : Acquire(s, t) => claim[s] = {}
  BY DEF Acquire, Serving, Free, R!Idle
<1>7. \A s \in Sessions : R!OwnedTasks(s) \in SUBSET Tasks
  BY DEF R!OwnedTasks
<1>8. QED
  BY Effects, <1>1, <1>2, <1>3, <1>4, <1>5, <1>6, <1>7

-----------------------------------------------------------------------------
LEMMA CallsHold == Spec => [](RegistryOK /\ DataOK /\ CallsFit /\ ClaimsFit)
<1> DEFINE I == DataOK /\ CallsFit /\ ClaimsFit
<1>1. Init => I
  BY CallsInit, ClaimsInit
<1>2. RegistryOK /\ I /\ [Next]_vars => I'
  BY CallsStep, ClaimsStep
<1> HIDE DEF I
<1>3. Spec => []I
  BY <1>1, <1>2, RegistryHolds, PTL DEF Spec
<1>4. QED
  BY <1>3, RegistryHolds, PTL DEF I

\* The recorder's data keep their types, and who holds a pointer to the stats
\* of a session got it from the map (metrics.go:78-244).
THEOREM TypeCorrect == Spec => []TypeOK
BY CallsHold, TypesFollow, PTL

-----------------------------------------------------------------------------
(* Who has left *)

\* A session that has left owns no task: ReleaseAll took them all, and no claim
\* of it was under way.
LeaversOwnNothing ==
    \A s \in Sessions, t \in Tasks : phase[s] \in {"leaving", "gone"} => task[t].owner # s

\* What other goroutines have still to record of it, is known.
GoneFits ==
    \A s \in Sessions : phase[s] = "gone" /\ (\E th \in Threads : Owed(th, s)) => s \in haunted

CallsOK == RegistryOK /\ DataOK /\ CallsFit /\ ClaimsFit

\* A new owner is a session that is there.
LEMMA OwnerStep ==
    ASSUME CallsOK, [Next]_vars, NEW t \in Tasks, task'[t].owner # task[t].owner
    PROVE  \/ task'[t].owner = NoOwner
           \/ \E s \in Sessions : /\ task'[t].owner = s /\ phase[s] = "open" /\ UNCHANGED phase
                                  /\ Recorded(s, "claimed", t, s)
<1> USE ThreadFacts DEF CallsOK
<1>1. ASSUME NEW th \in Threads, NEW S \in SUBSET Tasks, NEW told, TakesBack(th, S, told)
      PROVE  task'[t].owner = NoOwner
  BY <1>1 DEF TakesBack
<1>2. ASSUME NEW s \in Sessions, NEW x \in Tasks, Acquire(s, x), Claimed(s, x), Grants(s, x)
      PROVE  /\ task'[t].owner = s /\ phase[s] = "open" /\ UNCHANGED phase
             /\ Recorded(s, "claimed", t, s)
  BY <1>2 DEF Acquire, Serving, Grants, Claimed
<1>3. ASSUME NEW s \in Sessions, NEW x \in Tasks, Resume(s, x), Grants(s, x), <<x, s>> \in claim[s]
      PROVE  /\ task'[t].owner = s /\ phase[s] = "open" /\ UNCHANGED phase
             /\ Recorded(s, "claimed", t, s)
  BY <1>3 DEF Resume, ClaimsFit, Grants, Claimed
<1>4. ASSUME NEW th \in Threads, NEW n \in notices[th], Fire(th, n)
      PROVE  SameOwners
  <2>1. R!Fire(th, n)
    BY <1>4 DEF Fire
  <2>2. QED
    BY <2>1, FireFacts DEF SameOwners
<1>5. \A s \in Sessions : R!OwnedTasks(s) \in SUBSET Tasks
  BY DEF R!OwnedTasks
<1>6. SameOwners => FALSE
  BY DEF SameOwners
<1>7. QED
  BY Effects, <1>1, <1>2, <1>3, <1>4, <1>5, <1>6

\* A loss that is to be told was told before, or is the owner's.
LEMMA LossOrigin ==
    ASSUME CallsOK, [Next]_vars, NEW th \in Threads, NEW s \in Sessions, NEW t \in Tasks, LostOf(th, s, t)'
    PROVE  LostOf(th, s, t) \/ (task[t].owner = s /\ task'[t].owner = NoOwner)
<1> USE ThreadFacts DEF CallsOK
<1>1. ASSUME NEW u \in Threads, NEW S \in SUBSET Tasks, NEW told, TakesBack(u, S, told)
      PROVE  LostOf(th, s, t) \/ (task[t].owner = s /\ task'[t].owner = NoOwner)
  BY <1>1 DEF TakesBack
<1>2. ASSUME NEW u \in Threads, NEW n \in notices[u], Fire(u, n)
      PROVE  LostOf(th, s, t)
  <2>1. R!Fire(u, n)
    BY <1>2 DEF Fire
  <2>2. QED
    BY <2>1, FireFacts
<1>3. \A o \in Sessions : R!OwnedTasks(o) \in SUBSET Tasks
  BY DEF R!OwnedTasks
<1>4. SameLosses => LostOf(th, s, t)
  BY DEF SameLosses
<1>5. \A o \in Sessions, x \in Tasks : Grants(o, x) => SameLosses
  BY DEF Grants
<1>6. QED
  BY Effects, <1>1, <1>2, <1>3, <1>4, <1>5

\* A call that has to go by inFlight did so before, or comes from a loss, or
\* is one of the session's own goroutine.
LEMMA FlightOrigin ==
    ASSUME CallsOK, [Next]_vars, NEW th \in Threads, NEW r \in rec'[th], r.step = "flight"
    PROVE  \/ r \in rec[th]
           \/ /\ r.event = "evicted" /\ r.owner \in Sessions /\ r.task \in Tasks
              /\ LostOf(th, r.owner, r.task) /\ SameOwners /\ UNCHANGED phase
           \/ /\ th \in Sessions /\ r.owner = th /\ phase[th] = "open" /\ UNCHANGED phase
              /\ r.event = "claimed" => task'[r.task].owner = th
<1> USE ThreadFacts DEF CallsOK
<1>1. CASE UNCHANGED rec
  BY <1>1
<1>2. ASSUME NEW s \in Sessions, Forget(s)
      PROVE  r \in rec[th]
  BY <1>2 DEF Forget, DeleteEntry
<1>3. ASSUME NEW u \in Threads, NEW event \in Events, NEW t \in Tasks, NEW s \in Sessions,
             Recorded(u, event, t, s)
      PROVE  \/ r \in rec[th]
             \/ th = u /\ r.event = event /\ r.task = t /\ r.owner = s
  BY <1>3, Begins DEF DataOK
<1>4. ASSUME NEW s \in Sessions, NEW t \in Tasks, Acquire(s, t), r \notin rec[th]
      PROVE  th = s /\ r.owner = s /\ phase[s] = "open" /\ UNCHANGED phase /\ task'[r.task].owner = s
  <2>1. Recorded(s, "claimed", t, s) /\ R!AcquireFree(s, t, s) /\ phase[s] = "open" /\ UNCHANGED phase
    BY <1>1, <1>4 DEF Acquire, Serving, Claimed
  <2>2. th = s /\ r.task = t /\ r.owner = s
    BY <1>3, <1>4, <2>1 DEF Events
  <2>3. R!Grant(t, s) /\ UNCHANGED notices
    BY <2>1 DEF R!AcquireFree
  <2>4. QED
    BY <2>1, <2>2, <2>3, GrantFacts DEF Grants
<1>5. ASSUME NEW s \in Sessions, NEW t \in Tasks, Resume(s, t), r \notin rec[th]
      PROVE  th = s /\ r.owner = s /\ phase[s] = "open" /\ UNCHANGED phase /\ task'[r.task].owner = s
  <2>1. Recorded(s, "claimed", t, s) /\ R!AcquireResume(s, t, s) /\ UNCHANGED phase
    BY <1>5 DEF Resume, Claimed
  <2>2. th = s /\ r.task = t /\ r.owner = s
    BY <1>3, <1>5, <2>1 DEF Events
  <2>3. R!Grant(t, s) /\ UNCHANGED notices /\ <<t, s>> \in claim[s]
    BY <2>1 DEF R!AcquireResume
  <2>4. phase[s] = "open"
    BY <2>3 DEF ClaimsFit
  <2>5. QED
    BY <2>1, <2>2, <2>3, <2>4, GrantFacts DEF Grants
<1>6. ASSUME NEW s \in Sessions, NEW t \in Tasks, Release(s, t) \/ Submit(s, t), r \notin rec[th]
      PROVE  /\ th = s /\ r.owner = s /\ phase[s] = "open" /\ UNCHANGED phase
             /\ r.event # "claimed"
  <2>1. PICK event \in {"released", "rejected", "completed"} : Recorded(s, event, t, s)
    BY <1>6 DEF Release, Submit
  <2>2. th = s /\ r.event = event /\ r.owner = s
    BY <1>3, <1>6, <2>1 DEF Events
  <2>3. QED
    BY <1>6, <2>2 DEF Release, Submit, Serving
<1>7. ASSUME NEW u \in Threads, NEW n \in notices[u], Fire(u, n), r \notin rec[th]
      PROVE  /\ r.event = "evicted" /\ r.owner \in Sessions /\ r.task \in Tasks
             /\ LostOf(th, r.owner, r.task) /\ SameOwners /\ UNCHANGED phase
  <2>1. R!Fire(u, n) /\ UNCHANGED phase
    BY <1>7 DEF Fire
  <2>2. R!NextKind(n) = "lost" /\ Recorded(u, "evicted", n.task, n.owner)
    BY <1>1, <1>7 DEF Fire
  <2>3. n.task \in Tasks /\ n.owner \in Sessions /\ LostOf(u, n.owner, n.task) /\ SameOwners
    BY <2>1, <2>2, FireFacts DEF SameOwners
  <2>4. th = u /\ r.event = "evicted" /\ r.task = n.task /\ r.owner = n.owner
    BY <1>3, <1>7, <2>2, <2>3 DEF Events
  <2>5. QED
    BY <2>1, <2>3, <2>4
<1>8. ASSUME NEW u \in Threads, Flight(u)
      PROVE  r \in rec[th]
  <2>1. \/ rec' = [rec EXCEPT ![u] = {}]
        \/ \E q \in Record : q.step # "flight" /\ rec' = [rec EXCEPT ![u] = {q}]
    <3>1. PICK o \in rec[u] : FlightOf(u, o)
      BY <1>8, FlightFacts
    <3>2. \A q : q.step \in {"load", "check"} => q.step # "flight"
      OBVIOUS
    <3>3. QED
      BY <3>1, <3>2 DEF FlightOf
  <2>2. QED
    BY <2>1 DEF DataOK
<1>9. ASSUME NEW u \in Threads, Check(u) \/ Load(u) \/ Store(u)
      PROVE  r \in rec[th]
  <2>1. \/ rec' = [rec EXCEPT ![u] = {}]
        \/ \E q \in Record : q.step # "flight" /\ rec' = [rec EXCEPT ![u] = {q}]
    <3>1. PICK o \in rec[u] : EntryOf(u, o)
      BY <1>9, EntryFacts
    <3>2. \A q : q.step \in {"load", "store"} => q.step # "flight"
      OBVIOUS
    <3>3. QED
      BY <3>1, <3>2 DEF EntryOf
  <2>2. QED
    BY <2>1 DEF DataOK
<1>10. UNCHANGED vars \/ Watch \/ (\E s \in Sessions : Connect(s) \/ Disconnect(s))
         \/ (\E t \in Tasks : Register(t) \/ LeaseRunsOut(t)) => UNCHANGED rec
  BY DEF vars, Watch, Connect, Disconnect, Register, LeaseRunsOut
<1>11. QED
  BY <1>1, <1>2, <1>4, <1>5, <1>6, <1>7, <1>8, <1>9, <1>10 DEF Next


LEMMA LeaversInit == Init => LeaversOwnNothing
BY DEF Init, LeaversOwnNothing

LEMMA LeaversStep == CallsOK /\ LeaversOwnNothing /\ [Next]_vars => LeaversOwnNothing'
<1> SUFFICES ASSUME CallsOK, LeaversOwnNothing, [Next]_vars,
                    NEW s \in Sessions, NEW t \in Tasks, phase'[s] \in {"leaving", "gone"}
             PROVE  task'[t].owner # s
  BY DEF LeaversOwnNothing
<1>1. DataOK /\ RegistryOK /\ s # NoOwner
  BY DEF CallsOK
<1>2. CASE task'[t].owner # task[t].owner
  <2>1. ASSUME NEW o \in Sessions, phase[o] = "open", UNCHANGED phase
        PROVE  o # s
    BY <2>1
  <2>2. QED
    BY <1>1, <1>2, <2>1, OwnerStep
<1>3. CASE task'[t].owner = task[t].owner
  <2>1. CASE phase[s] \in {"leaving", "gone"}
    BY <1>3, <2>1 DEF LeaversOwnNothing
  <2>2. CASE Disconnect(s)
    <3>1. R!MakeAvailable(s, R!OwnedTasks(s), "disconnected", R!Kinds) /\ "lost" \in R!Kinds
      BY <2>2 DEF Disconnect, R!ReleaseAll, R!Kinds
    <3>2. TakesBack(s, R!OwnedTasks(s), TRUE)
      BY <1>1, <3>1, ThreadFacts, MakeAvailableTakesBack DEF R!OwnedTasks
    <3>3. R!OwnedTasks(s) = {x \in Tasks : task[x].owner = s}
      BY <1>1, OwnedTasksFacts
    <3>4. QED
      BY <1>1, <1>3, <3>2, <3>3 DEF TakesBack
  <2>3. QED
    BY <1>1, <2>1, <2>2, PhaseFacts
<1>4. QED
  BY <1>2, <1>3

\* What th owes s are losses that it has to tell and a call that it is in.
LEMMA OwedFacts ==
    ASSUME RegistryOK, NEW th \in Threads, NEW s \in Sessions
    PROVE  Owed(th, s) <=> \/ \E t \in Tasks : LostOf(th, s, t)
                           \/ \E r \in rec[th] : r.owner = s /\ r.step = "flight"
<1>1. \A n \in notices[th] : n.task \in Tasks
  BY RegistryFacts DEF R!Notice
<1>2. QED
  BY <1>1 DEF Owed, LostOf

LEMMA HauntedGrows == [Next]_vars => haunted \subseteq haunted'
<1> SUFFICES ASSUME [Next]_vars PROVE haunted \subseteq haunted'
  OBVIOUS
<1>1. \A s \in Sessions : Connect(s) \/ Disconnect(s) => UNCHANGED haunted
  BY DEF Connect, Disconnect, historyVars
<1>2. \A s \in Sessions : Forget(s) => haunted \subseteq haunted'
  BY DEF Forget, DeleteEntry
<1>3. \A s \in Sessions, t \in Tasks :
         Acquire(s, t) \/ Resume(s, t) \/ Release(s, t) \/ Submit(s, t) => UNCHANGED haunted
  BY DEF Acquire, Resume, Release, Submit, historyVars
<1>4. \A t \in Tasks : Register(t) \/ LeaseRunsOut(t) => UNCHANGED haunted
  BY DEF Register, LeaseRunsOut, historyVars
<1>5. \A th \in Threads :
         (\E n \in notices[th] : Fire(th, n)) \/ Flight(th) \/ Check(th) \/ Load(th) \/ Store(th)
         => UNCHANGED haunted
  BY DEF Fire, Flight, Check, Load, Store, historyVars
<1>6. QED
  BY <1>1, <1>2, <1>3, <1>4, <1>5 DEF Next, Watch, vars, historyVars

\* What is owed to a session that has left was owed to it before.
LEMMA OwedOrigin ==
    ASSUME CallsOK, RegistryOK', LeaversOwnNothing, [Next]_vars,
           NEW s \in Sessions, phase[s] \in {"leaving", "gone"},
           NEW th \in Threads, Owed(th, s)'
    PROVE  Owed(th, s)
<1>1. RegistryOK /\ DataOK
  BY DEF CallsOK
<1>2. ASSUME NEW t \in Tasks, LostOf(th, s, t)'
      PROVE  Owed(th, s)
  <2>1. LostOf(th, s, t)
    BY <1>2, LossOrigin DEF LeaversOwnNothing
  <2>2. QED
    BY <1>1, <2>1, OwedFacts
<1>3. ASSUME NEW r \in rec'[th], r.owner = s, r.step = "flight"
      PROVE  Owed(th, s)
  <2>1. r \in rec[th] \/ (r.task \in Tasks /\ LostOf(th, s, r.task))
    BY <1>3, FlightOrigin
  <2>2. QED
    BY <1>1, <1>3, <2>1, OwedFacts
<1>4. Owed(th, s)' => \/ \E t \in Tasks : LostOf(th, s, t)'
                      \/ \E r \in rec'[th] : r.owner = s /\ r.step = "flight"
  <2>1. notices' \in [Threads -> SUBSET P!Notice]
    BY ThreadFacts DEF RegistryOK, P!TypeOK
  <2>2. \A n \in notices'[th] : n.task \in Tasks
    BY <2>1 DEF P!Notice
  <2>3. QED
    BY <2>2 DEF Owed, LostOf
<1>5. QED
  BY <1>2, <1>3, <1>4


LEMMA GoneInit == Init => GoneFits
BY DEF Init, GoneFits

LEMMA GoneStep ==
    CallsOK /\ RegistryOK' /\ LeaversOwnNothing /\ GoneFits /\ [Next]_vars => GoneFits'
<1> SUFFICES ASSUME CallsOK, RegistryOK', LeaversOwnNothing, GoneFits, [Next]_vars,
                    NEW s \in Sessions, phase'[s] = "gone", NEW th \in Threads, Owed(th, s)'
             PROVE  s \in haunted'
  BY ThreadFacts DEF GoneFits
<1>1. DataOK
  BY DEF CallsOK
<1>2. CASE phase[s] = "gone"
  BY <1>2, OwedOrigin, HauntedGrows DEF GoneFits
<1>3. CASE phase[s] = "leaving" /\ Forget(s)
  <2>1. Owed(th, s)
    BY <1>3, OwedOrigin
  <2>2. ~Owed(s, s)
    BY <1>3 DEF Forget, Free, R!Idle, Owed
  <2>3. QED
    BY <1>3, <2>1, <2>2 DEF Forget, DeleteEntry
<1>4. QED
  BY <1>1, <1>2, <1>3, PhaseFacts

LEMMA HauntedStep ==
    CallsOK /\ LeaversOwnNothing /\ GoneFits /\ OnlyTheHauntedStay /\ [Next]_vars => OnlyTheHauntedStay'
<1> SUFFICES ASSUME CallsOK, LeaversOwnNothing, GoneFits, OnlyTheHauntedStay, [Next]_vars
             PROVE  OnlyTheHauntedStay'
  OBVIOUS
<1> SUFFICES ASSUME NEW s \in entries', phase'[s] = "gone"
             PROVE  s \in haunted'
  BY DEF OnlyTheHauntedStay
<1>0. s \in Sessions
  BY CallsStep DEF CallsOK, DataOK
<1>1. DataOK /\ RegistryOK
  BY DEF CallsOK
<1>2. CASE Forget(s)
  BY <1>2 DEF Forget, DeleteEntry
<1>3. CASE ~Forget(s)
  <2>1. phase[s] = "gone"
    BY <1>0, <1>1, <1>3, PhaseFacts
  <2>2. CASE s \in entries
    BY <2>1, <2>2, HauntedGrows DEF OnlyTheHauntedStay
  <2>3. ASSUME NEW th \in Threads, Flight(th), s \notin entries
        PROVE  s \in haunted'
    <3>1. PICK r \in rec[th] : r.step = "flight" /\ entries' = entries \cup {r.owner}
      BY <1>1, <2>3, FlightFacts DEF FlightOf
    <3>2. Owed(th, s)
      BY <2>3, <3>1 DEF Owed
    <3>3. QED
      BY <1>0, <2>1, <2>3, <3>2, HauntedGrows DEF GoneFits
  <2>4. ASSUME NEW o \in Sessions, Connect(o), s \notin entries
        PROVE  FALSE
    BY <1>1, <2>1, <2>4 DEF Connect, DataOK
  <2>5. entries' \subseteq entries \/ (\E o \in Sessions : Connect(o)) \/ (\E th \in Threads : Flight(th))
    <3>1. \A o \in Sessions : Disconnect(o) \/ Forget(o) => entries' \subseteq entries
      BY DEF Disconnect, Forget, DeleteEntry, recorderVars
    <3>2. \A o \in Sessions, t \in Tasks :
             Acquire(o, t) \/ Resume(o, t) \/ Release(o, t) \/ Submit(o, t) => UNCHANGED entries
      BY DEF Acquire, Resume, Release, Submit, recorderVars
    <3>3. \A t \in Tasks : Register(t) \/ LeaseRunsOut(t) => UNCHANGED entries
      BY DEF Register, LeaseRunsOut, recorderVars
    <3>4. \A th \in Threads :
             (\E n \in notices[th] : Fire(th, n)) \/ Check(th) \/ Load(th) \/ Store(th) => UNCHANGED entries
      BY DEF Fire, Check, Load, Store, recorderVars
    <3>5. QED
      BY <3>1, <3>2, <3>3, <3>4 DEF Next, Watch, vars, recorderVars
  <2>6. QED
    BY <2>2, <2>3, <2>4, <2>5
<1>4. QED
  BY <1>2, <1>3

LEMMA LeaversHold == Spec => [](CallsOK /\ LeaversOwnNothing)
<1>1. Spec => []CallsOK
  BY CallsHold, PTL DEF CallsOK
<1>2. QED
  BY <1>1, LeaversInit, LeaversStep, PTL DEF Spec

\* A session that has left has no entry, unless another goroutine was recording
\* an eviction of it at that moment (metrics.go:188, 241-243).
THEOREM OnlyTheHaunted == Spec => []OnlyTheHauntedStay
<1>1. Init => OnlyTheHauntedStay
  BY DEF Init, OnlyTheHauntedStay
<1>2. Spec => []GoneFits
  <2>1. CallsOK /\ CallsOK' /\ LeaversOwnNothing /\ GoneFits /\ [Next]_vars => GoneFits'
    BY GoneStep DEF CallsOK
  <2>2. QED
    BY <2>1, GoneInit, LeaversHold, PTL DEF Spec
<1>3. QED
  BY <1>1, <1>2, HauntedStep, LeaversHold, PTL DEF Spec


-----------------------------------------------------------------------------
(* Whose start inFlight holds *)

Evicting(s, t) ==
    \E th \in Threads : \E r \in rec[th] :
        r.event = "evicted" /\ r.owner = s /\ r.task = t /\ r.step = "flight"

\* That s claimed t is true still, or there is a sign that it is not.
Seen(s, t) ==
    \/ task[t].owner = s
    \/ <<s, t>> \in stale
    \/ \E th \in Threads : LostOf(th, s, t)
    \/ Evicting(s, t)

\* A claim that is about to go into inFlight.
ClaimIsSeen ==
    \A th \in Threads : \A r \in rec[th] :
        r.event = "claimed" /\ r.step = "flight" => Seen(r.owner, r.task)

LEMMA StaleGrows == [Next]_vars => stale \subseteq stale'
<1> SUFFICES ASSUME [Next]_vars PROVE stale \subseteq stale'
  OBVIOUS
<1>1. \A s \in Sessions : Connect(s) \/ Disconnect(s) \/ Forget(s) => UNCHANGED stale
  BY DEF Connect, Disconnect, Forget, historyVars
<1>2. \A s \in Sessions, t \in Tasks : Acquire(s, t) \/ Release(s, t) \/ Submit(s, t) => UNCHANGED stale
  BY DEF Acquire, Release, Submit, historyVars
<1>3. \A s \in Sessions, t \in Tasks : Resume(s, t) => stale \subseteq stale'
  BY DEF Resume
<1>4. \A t \in Tasks : Register(t) \/ LeaseRunsOut(t) => UNCHANGED stale
  BY DEF Register, LeaseRunsOut, historyVars
<1>5. \A th \in Threads :
         (\E n \in notices[th] : Fire(th, n)) \/ Check(th) \/ Load(th) \/ Store(th) => UNCHANGED stale
  BY DEF Fire, Check, Load, Store, historyVars
<1>6. \A th \in Threads : Flight(th) => stale \subseteq stale'
  BY DEF Flight
<1>7. QED
  BY <1>1, <1>2, <1>3, <1>4, <1>5, <1>6 DEF Next, Watch, vars, historyVars

\* A call stays where it is until its goroutine goes by inFlight.
LEMMA FlightStays ==
    ASSUME CallsOK, [Next]_vars, NEW th \in Threads, NEW r \in rec[th], r.step = "flight", r \notin rec'[th]
    PROVE  Flight(th) /\ FlightOf(th, r)
<1> USE ThreadFacts DEF CallsOK
<1>0. r \in Record /\ rec[th] = {r}
  BY DEF DataOK, CallsFit, CallFits
<1>1. ASSUME UNCHANGED rec
      PROVE  FALSE
  BY <1>1
<1>2. ASSUME NEW s \in Sessions, Forget(s)
      PROVE  FALSE
  BY <1>2 DEF Forget, DeleteEntry, OnEntry
<1>3. ASSUME NEW u \in Threads, rec[u] = {}, \A x \in Threads \ {u} : rec'[x] = rec[x]
      PROVE  FALSE
  BY <1>3
<1>4. ASSUME NEW u, NEW event, NEW t, NEW s, Recorded(u, event, t, s)
      PROVE  \A x \in Threads \ {u} : rec'[x] = rec[x]
  BY <1>4 DEF Recorded, DataOK
<1>5. ASSUME NEW s \in Sessions, NEW t \in Tasks, Acquire(s, t) \/ Resume(s, t) \/ Release(s, t) \/ Submit(s, t)
      PROVE  FALSE
  <2>1. rec[s] = {} /\ (UNCHANGED rec \/ \E event \in Events : Recorded(s, event, t, s))
    BY <1>5 DEF Acquire, Resume, Release, Submit, Serving, Free, Claimed, Events
  <2>2. QED
    BY <1>1, <1>3, <1>4, <2>1
<1>6. ASSUME NEW u \in Threads, NEW n \in notices[u], Fire(u, n)
      PROVE  FALSE
  <2>1. R!Fire(u, n)
    BY <1>6 DEF Fire
  <2>2. R!NextKind(n) = "lost" /\ Recorded(u, "evicted", n.task, n.owner)
    BY <1>1, <1>6 DEF Fire
  <2>3. ~Quiet(u)
    BY <2>1, <2>2, FireFacts DEF Quiet
  <2>4. rec[u] = {}
    BY <1>6, <2>3 DEF Fire, CallsFit, CallFits, Quiet
  <2>5. QED
    BY <1>3, <1>4, <2>2, <2>4
<1>7. ASSUME NEW u \in Threads, Flight(u)
      PROVE  Flight(th) /\ FlightOf(th, r)
  <2>1. PICK q \in rec[u] : FlightOf(u, q)
    BY <1>7, FlightFacts
  <2>2. th = u
    BY <2>1 DEF FlightOf, DataOK
  <2>3. QED
    BY <1>0, <1>7, <2>1, <2>2
<1>8. ASSUME NEW u \in Threads, Check(u) \/ Load(u) \/ Store(u)
      PROVE  FALSE
  <2>1. ASSUME NEW q \in rec[u], q.step \in OnEntry, NEW Q, rec' = [rec EXCEPT ![u] = Q]
        PROVE  FALSE
    BY <1>0, <2>1 DEF OnEntry, DataOK
  <2>2. ASSUME NEW q \in rec[u], q.step \in OnEntry, NEW step, NEW val, Done(u) \/ Go(u, q, step, val)
        PROVE  FALSE
    BY <2>1, <2>2 DEF Done, Go
  <2>3. PICK q \in rec[u] : q.step \in OnEntry /\ (Done(u) \/ \E step, val : Go(u, q, step, val))
    <3>1. CASE Check(u)
      BY <3>1 DEF Check, OnEntry
    <3>2. CASE Load(u)
      BY <3>2 DEF Load, OnEntry
    <3>3. CASE Store(u)
      BY <3>3 DEF Store, OnEntry
    <3>4. QED
      BY <1>8, <3>1, <3>2, <3>3
  <2>4. QED
    BY <2>2, <2>3
<1>9. UNCHANGED vars \/ Watch \/ (\E s \in Sessions : Connect(s) \/ Disconnect(s))
         \/ (\E t \in Tasks : Register(t) \/ LeaseRunsOut(t)) => UNCHANGED rec
  BY DEF vars, Watch, Connect, Disconnect, Register, LeaseRunsOut
<1>10. QED
  BY <1>1, <1>2, <1>5, <1>6, <1>7, <1>8, <1>9 DEF Next

\* An owner that loses its task leaves a sign, unless it releases the task.
LEMMA OwnerLoses ==
    ASSUME CallsOK, [Next]_vars, NEW s \in Sessions, NEW t \in Tasks,
           task[t].owner = s, task'[t].owner # s
    PROVE  \/ Release(s, t)
           \/ <<s, t>> \in stale'
           \/ \E th \in Threads : LostOf(th, s, t)'
<1> USE ThreadFacts DEF CallsOK
<1>1. SameOwners => FALSE
  BY DEF SameOwners
<1>2. ASSUME NEW th \in Threads, NEW S \in SUBSET Tasks, TakesBack(th, S, TRUE)
      PROVE  LostOf(th, s, t)'
  BY <1>2 DEF TakesBack
<1>3. \A o \in Sessions : R!OwnedTasks(o) \in SUBSET Tasks
  BY DEF R!OwnedTasks
<1>4. ASSUME NEW o \in Sessions, NEW x \in Tasks, Resume(o, x), Grants(o, x)
      PROVE  <<s, t>> \in stale'
  <2>1. x = t /\ o # s
    BY <1>4 DEF Grants
  <2>2. s \in {task[x].owner} \ {o, NoOwner}
    BY <2>1
  <2>3. QED
    BY <1>4, <2>1, <2>2 DEF Resume
<1>5. \A o \in Sessions, x \in Tasks : Grants(o, x) /\ task[x].owner = NoOwner => FALSE
  BY DEF Grants
<1>6. ASSUME NEW o \in Sessions, NEW x \in Tasks, Release(o, x), TakesBack(o, {x}, FALSE), task[x].owner = o
      PROVE  Release(s, t)
  <2>1. x = t
    BY <1>6 DEF TakesBack
  <2>2. QED
    BY <1>6, <2>1
<1>7. \A x \in Tasks : TakesBack(App, {x}, FALSE) /\ task[x].owner = NoOwner => FALSE
  BY DEF TakesBack
<1>8. ASSUME NEW th \in Threads, NEW n \in notices[th], Fire(th, n)
      PROVE  SameOwners
  <2>1. R!Fire(th, n)
    BY <1>8 DEF Fire
  <2>2. QED
    BY <2>1, FireFacts DEF SameOwners
<1>9. \A o \in Sessions, x \in Tasks : TakesBack(o, {x}, TRUE) => LostOf(o, s, t)'
  BY <1>2
<1>10. QED
  BY Effects, <1>1, <1>2, <1>3, <1>4, <1>5, <1>6, <1>7, <1>8, <1>9

\* A loss is told to the recorder.
LEMMA LossIsTold ==
    ASSUME CallsOK, [Next]_vars, NEW s \in Sessions, NEW t \in Tasks, NEW th \in Threads,
           LostOf(th, s, t), ~LostOf(th, s, t)'
    PROVE  Evicting(s, t)'
<1> USE ThreadFacts DEF CallsOK
<1>0. notices[th] # {}
  BY DEF LostOf
<1>1. SameLosses => FALSE
  BY DEF SameLosses
<1>2. \A o \in Sessions, x \in Tasks : Grants(o, x) => FALSE
  BY <1>1 DEF Grants
<1>3. ASSUME NEW u \in Threads, NEW S \in SUBSET Tasks, NEW told, TakesBack(u, S, told), notices[u] = {}
      PROVE  FALSE
  BY <1>0, <1>3 DEF TakesBack
<1>4. \A o \in Sessions, x \in Tasks : Disconnect(o) \/ Acquire(o, x) \/ Release(o, x) => notices[o] = {}
  BY DEF Disconnect, Acquire, Release, Serving, Free, R!Idle
<1>5. \A x \in Tasks : Register(x) => notices[App] = {}
  BY DEF Register, Free, R!Idle
<1>6. Watch => notices[Watcher] = {}
  BY DEF Watch, Free, R!Idle
<1>7. ASSUME NEW u \in Threads, NEW n \in notices[u], Fire(u, n)
      PROVE  Evicting(s, t)'
  <2>1. R!Fire(u, n)
    BY <1>7 DEF Fire
  <2>2. u = th /\ n.task = t /\ R!NextKind(n) = "lost"
    BY <2>1, FireFacts
  <2>3. n.owner = s
    BY <1>7, <2>2, RegistryFacts DEF LostOf
  <2>4. Recorded(th, "evicted", t, s)
    BY <1>7, <2>2, <2>3 DEF Fire
  <2>5. QED
    BY <2>4, Begins DEF Evicting, Events, DataOK
<1>8. \A o \in Sessions : R!OwnedTasks(o) \in SUBSET Tasks
  BY DEF R!OwnedTasks
<1>9. QED
  BY Effects, <1>1, <1>2, <1>3, <1>4, <1>5, <1>6, <1>7, <1>8

\* A claim stays seen, until it is released or an eviction of it has been recorded.
LEMMA SeenStep ==
    ASSUME CallsOK, [Next]_vars, NEW s \in Sessions, NEW t \in Tasks, Seen(s, t)
    PROVE  \/ Seen(s, t)'
           \/ Release(s, t)
           \/ \E th \in Threads : \E r \in rec[th] :
                 FlightOf(th, r) /\ r.event = "evicted" /\ r.owner = s /\ r.task = t
<1>1. CASE task[t].owner = s
  BY <1>1, OwnerLoses DEF Seen
<1>2. CASE <<s, t>> \in stale
  BY <1>2, StaleGrows DEF Seen
<1>3. CASE \E th \in Threads : LostOf(th, s, t)
  BY <1>3, LossIsTold DEF Seen
<1>4. CASE Evicting(s, t)
  <2>1. PICK th \in Threads : \E r \in rec[th] :
          r.event = "evicted" /\ r.owner = s /\ r.task = t /\ r.step = "flight"
    BY <1>4 DEF Evicting
  <2>2. PICK r \in rec[th] : r.event = "evicted" /\ r.owner = s /\ r.task = t /\ r.step = "flight"
    BY <2>1
  <2>3. r \in rec'[th] => Evicting(s, t)'
    BY <2>2 DEF Evicting
  <2>4. QED
    BY <2>2, <2>3, FlightStays DEF Seen
<1>5. QED
  BY <1>1, <1>2, <1>3, <1>4 DEF Seen


LEMMA SeenInit == Init => ClaimIsSeen /\ InFlightIsOwned
BY DEF Init, ClaimIsSeen, InFlightIsOwned

LEMMA ClaimSeenStep == CallsOK /\ ClaimIsSeen /\ [Next]_vars => ClaimIsSeen'
<1> SUFFICES ASSUME CallsOK, ClaimIsSeen, [Next]_vars, NEW th \in Threads, NEW r \in rec'[th],
                    r.event = "claimed", r.step = "flight"
             PROVE  Seen(r.owner, r.task)'
  BY ThreadFacts DEF ClaimIsSeen
<1> USE DEF CallsOK
<1>1. CASE r \in rec[th]
  <2>1. r \in Record /\ r.owner \in Sessions /\ r.task \in Tasks /\ r.owner = th
    BY <1>1 DEF DataOK, Record, CallsFit, CallFits
  <2>2. Seen(r.owner, r.task)
    BY <1>1 DEF ClaimIsSeen
  <2>3. ~Release(r.owner, r.task)
    BY <1>1, <2>1 DEF Release, Serving, Free
  <2>4. ASSUME NEW u \in Threads, NEW q \in rec[u], FlightOf(u, q),
               q.event = "evicted", q.owner = r.owner, q.task = r.task
        PROVE  Seen(r.owner, r.task)'
    <3>1. LateClaim(q)
      BY <1>1, <2>1, <2>4 DEF LateClaim
    <3>2. <<r.owner, r.task>> \in stale'
      BY <2>4, <3>1 DEF FlightOf
    <3>3. QED
      BY <3>2 DEF Seen
  <2>5. QED
    BY <2>1, <2>2, <2>3, <2>4, SeenStep
<1>2. CASE r \notin rec[th]
  BY <1>2, FlightOrigin DEF Seen
<1>3. QED
  BY <1>1, <1>2

\* The entries of inFlight that nobody adds are there, or were.
LEMMA InFlightStep ==
    ASSUME [Next]_vars, ~(\E th \in Threads : Flight(th))
    PROVE  UNCHANGED inFlight
<1>1. \A s \in Sessions : Connect(s) \/ Disconnect(s) \/ Forget(s) => UNCHANGED inFlight
  BY DEF Connect, Disconnect, Forget, recorderVars
<1>2. \A s \in Sessions, t \in Tasks :
         Acquire(s, t) \/ Resume(s, t) \/ Release(s, t) \/ Submit(s, t) => UNCHANGED inFlight
  BY DEF Acquire, Resume, Release, Submit, recorderVars
<1>3. \A t \in Tasks : Register(t) \/ LeaseRunsOut(t) => UNCHANGED inFlight
  BY DEF Register, LeaseRunsOut, recorderVars
<1>4. \A th \in Threads :
         (\E n \in notices[th] : Fire(th, n)) \/ Check(th) \/ Load(th) \/ Store(th) => UNCHANGED inFlight
  BY DEF Fire, Check, Load, Store, recorderVars
<1>5. QED
  BY <1>1, <1>2, <1>3, <1>4 DEF Next, Watch, vars, recorderVars

\* A call about s and t that has still to go by inFlight.
Calling(s, t) ==
    \E th \in Threads : \E r \in rec[th] : r.owner = s /\ r.task = t /\ r.step = "flight"

LEMMA Unfolded ==
    InFlightIsOwned <=> \A t \in Tasks : \A s \in inFlight[t] : Seen(s, t) \/ Calling(s, t)
BY DEF InFlightIsOwned, Seen, Calling, Evicting, LostOf

\* What a claim that has gone by inFlight leaves behind, is true or has a sign.
LEMMA FlightLeaves ==
    ASSUME CallsOK, ClaimIsSeen, [Next]_vars, NEW th \in Threads, NEW r \in rec[th], FlightOf(th, r),
           NEW s \in inFlight'[r.task], s = r.owner
    PROVE  Seen(s, r.task)'
<1> USE DEF CallsOK
<1>1. r \in Record /\ s \in Sessions /\ r.task \in Tasks /\ r.step = "flight" /\ rec[th] = {r}
  BY DEF FlightOf, DataOK, Record, CallsFit, CallFits
<1>2. r.event = "claimed"
  BY <1>1 DEF FlightOf, DataOK
<1>3. Seen(s, r.task) /\ th = s
  BY <1>1, <1>2 DEF ClaimIsSeen, CallsFit, CallFits
<1>4. ~Release(s, r.task)
  BY <1>3 DEF Release, Serving, Free
<1>5. ASSUME NEW u \in Threads, NEW q \in rec[u], FlightOf(u, q), q.event = "evicted"
      PROVE  FALSE
  <2>1. u # th
    BY <1>1, <1>2, <1>5
  <2>2. rec'[u] = rec[u] /\ q.step = "flight"
    BY <1>5, <2>1 DEF FlightOf, DataOK
  <2>3. rec'[u] = {} \/ \E x \in Record : x.step \in {"load", "check"} /\ rec'[u] = {x}
    BY <1>5 DEF FlightOf, DataOK
  <2>4. QED
    BY <1>5, <2>2, <2>3
<1>6. QED
  BY <1>1, <1>3, <1>4, <1>5, SeenStep

LEMMA InFlightIsOwnedStep ==
    CallsOK /\ ClaimIsSeen /\ InFlightIsOwned /\ [Next]_vars => InFlightIsOwned'
<1> SUFFICES ASSUME CallsOK, ClaimIsSeen, InFlightIsOwned, [Next]_vars,
                    NEW t \in Tasks, NEW s \in inFlight'[t]
             PROVE  Seen(s, t)' \/ Calling(s, t)'
  BY DEF InFlightIsOwned, Seen, Calling, Evicting, LostOf
<1> USE DEF CallsOK
<1>1. s \in Sessions /\ inFlight \in [Tasks -> SUBSET Sessions]
  BY CallsStep DEF DataOK
<1>2. ASSUME NEW th \in Threads, NEW r \in rec[th], FlightOf(th, r), r.owner = s, r.task = t
      PROVE  Seen(s, t)'
  BY <1>2, FlightLeaves
<1>3. CASE s \notin inFlight[t]
  <2>1. PICK th \in Threads : Flight(th)
    BY <1>3, InFlightStep
  <2>2. PICK r \in rec[th] : FlightOf(th, r)
    BY <2>1, FlightFacts
  <2>3. r.owner = s /\ r.task = t
    BY <1>1, <1>3, <2>2 DEF FlightOf
  <2>4. QED
    BY <1>2, <2>2, <2>3
<1>4. CASE Calling(s, t)
  <2>1. PICK th \in Threads : \E r \in rec[th] : r.owner = s /\ r.task = t /\ r.step = "flight"
    BY <1>4 DEF Calling
  <2>2. PICK r \in rec[th] : r.owner = s /\ r.task = t /\ r.step = "flight"
    BY <2>1
  <2>3. r \in rec'[th] => Calling(s, t)'
    BY <2>2 DEF Calling
  <2>4. QED
    BY <1>2, <2>2, <2>3, FlightStays
<1>5. CASE Seen(s, t)
  <2>1. ASSUME Release(s, t)
        PROVE  Calling(s, t)'
    <3>1. Recorded(s, "released", t, s) /\ s \in Threads
      BY <1>1, <2>1, ThreadFacts DEF Release
    <3>2. PICK r \in Record : /\ r.task = t /\ r.owner = s /\ r.step = "flight"
                              /\ rec' = [rec EXCEPT ![s] = {r}]
      BY <1>1, <3>1, Begins DEF Events
    <3>3. QED
      BY <3>1, <3>2 DEF Calling, DataOK
  <2>2. QED
    BY <1>1, <1>2, <1>5, <2>1, SeenStep
<1>6. QED
  BY <1>3, <1>4, <1>5, Unfolded

\* inFlight holds the start of nobody's work but the owner's, unless the end
\* of it is about to be recorded, or was recorded before its start, or was not
\* recorded at all (metrics.go:85-90, 111-116, 141-143, 162-164, 184-186).
THEOREM StartsAreOwned == Spec => []InFlightIsOwned
<1>1. Spec => []CallsOK
  BY CallsHold, PTL DEF CallsOK
<1>2. Init => ClaimIsSeen /\ InFlightIsOwned
  BY SeenInit
<1>3. Spec => []ClaimIsSeen
  BY <1>1, <1>2, ClaimSeenStep, PTL DEF Spec
<1>4. QED
  BY <1>1, <1>2, <1>3, InFlightIsOwnedStep, PTL DEF Spec


-----------------------------------------------------------------------------
(* The count *)

\* The session is there and its count was not spoilt.
Counted(s) == phase[s] # "gone" /\ s \notin disturbed

\* What is spoilt stays so while the session is there.
LEMMA CountedBefore ==
    ASSUME CallsOK, [Next]_vars, NEW s \in Sessions, Counted(s)'
    PROVE  Counted(s) /\ ~Forget(s) /\ \A S : Spoil(S) => s \notin S
<1> USE DEF CallsOK
<1>1. ~Forget(s)
  BY DEF Forget, DataOK, Counted
<1>2. phase[s] # "gone"
  BY PhaseFacts DEF Counted
<1>3. \A S : Spoil(S) => s \notin S
  BY <1>2 DEF Spoil, Counted
<1>4. s \notin disturbed
  <2>1. \A o \in Sessions : Connect(o) \/ Disconnect(o) => UNCHANGED disturbed
    BY DEF Connect, Disconnect, historyVars
  <2>2. \A o \in Sessions : Forget(o) => disturbed' = disturbed \ {o}
    BY DEF Forget, DeleteEntry
  <2>3. \A o \in Sessions, t \in Tasks :
           Acquire(o, t) \/ Resume(o, t) \/ Release(o, t) \/ Submit(o, t) => disturbed \subseteq disturbed'
    BY DEF Acquire, Resume, Release, Submit, historyVars, Spoil
  <2>4. \A t \in Tasks : Register(t) \/ LeaseRunsOut(t) => UNCHANGED disturbed
    BY DEF Register, LeaseRunsOut, historyVars
  <2>5. \A th \in Threads :
           (\E n \in notices[th] : Fire(th, n)) \/ Flight(th) \/ Check(th) \/ Load(th) \/ Store(th)
           => disturbed \subseteq disturbed'
    BY DEF Fire, Flight, Check, Load, Store, historyVars, Spoil
  <2>6. s \notin disturbed'
    BY DEF Counted
  <2>7. QED
    BY <1>1, <2>1, <2>2, <2>3, <2>4, <2>5, <2>6 DEF Next, Watch, vars, historyVars
<1>5. QED
  BY <1>1, <1>2, <1>3, <1>4 DEF Counted

\* One goroutine at a time has the count of s in hand ...
OneAtATime(s) ==
    \A th, u \in Threads : \A r \in rec[th], q \in rec[u] :
        r.owner = s /\ q.owner = s /\ r.step \in OnEntry /\ q.step \in OnEntry => th = u

\* ... so that what it loaded is the count, and the test still holds.
ValueFits(s) ==
    \A th \in Threads : \A r \in rec[th] : r.owner = s =>
        /\ r.step = "store" => r.val = owned[s]
        /\ r.event # "claimed" /\ r.step \in {"load", "store"} => owned[s] > 0

\* The calls that have the count in hand, and where they come from.
LEMMA HolderOrigin ==
    ASSUME CallsOK, [Next]_vars, NEW s \in Sessions, Counted(s)',
           NEW th \in Threads, NEW r \in rec'[th], r.owner = s, r.step \in OnEntry
    PROVE  \/ r \in rec[th]
           \/ /\ r.step = "check" \/ (r.step = "load" /\ r.event = "claimed")
              /\ \A u \in Threads \ {th} :
                    /\ rec'[u] = rec[u]
                    /\ \A q \in rec[u] : q.owner = s => q.step \notin OnEntry
           \/ /\ \E q \in rec[th] : /\ q.owner = s /\ q.step \in OnEntry /\ q.event = r.event
                                    /\ \/ r.step = "load" /\ owned[s] > 0
                                       \/ /\ q.step = "load" /\ r.step = "store"
                                          /\ r.val = owned[s]
              /\ \A u \in Threads \ {th} : rec'[u] = rec[u]
              /\ UNCHANGED owned
<1> USE ThreadFacts DEF CallsOK
<1>1. CASE UNCHANGED rec
  BY <1>1
<1>2. ASSUME NEW o \in Sessions, Forget(o)
      PROVE  r \in rec[th]
  BY <1>2 DEF Forget, DeleteEntry
<1>3. ASSUME NEW u \in Threads, NEW event \in Events, NEW t \in Tasks, NEW o \in Sessions,
             Recorded(u, event, t, o)
      PROVE  r \in rec[th]
  <2>1. PICK q \in Record : q.step = "flight" /\ rec' = [rec EXCEPT ![u] = {q}]
    BY <1>3, Begins
  <2>2. QED
    BY <2>1 DEF DataOK, OnEntry
<1>4. ASSUME NEW o \in Sessions, NEW t \in Tasks, Acquire(o, t) \/ Resume(o, t) \/ Release(o, t) \/ Submit(o, t)
      PROVE  r \in rec[th]
  <2>1. UNCHANGED rec \/ \E event \in Events : Recorded(o, event, t, o)
    BY <1>4 DEF Acquire, Resume, Release, Submit, Claimed, Events
  <2>2. QED
    BY <1>1, <1>3, <2>1
<1>5. ASSUME NEW u \in Threads, NEW n \in notices[u], Fire(u, n)
      PROVE  r \in rec[th]
  <2>1. R!Fire(u, n)
    BY <1>5 DEF Fire
  <2>2. UNCHANGED rec \/ (Recorded(u, "evicted", n.task, n.owner) /\ R!NextKind(n) = "lost")
    BY <1>5 DEF Fire
  <2>3. R!NextKind(n) = "lost" => n.task \in Tasks /\ n.owner \in Sessions
    BY <2>1, FireFacts
  <2>4. QED
    BY <1>1, <1>3, <2>2, <2>3 DEF Events
<1>6. ASSUME NEW u \in Threads, Flight(u), r \notin rec[th]
      PROVE  /\ r.step = "check" \/ (r.step = "load" /\ r.event = "claimed")
             /\ \A x \in Threads \ {th} :
                   /\ rec'[x] = rec[x]
                   /\ \A q \in rec[x] : q.owner = s => q.step \notin OnEntry
  <2>1. PICK o \in rec[u] : FlightOf(u, o)
    BY <1>6, FlightFacts
  <2>2. \/ rec'[u] = {}
        \/ \E q \in Record : /\ q.event = o.event /\ q.owner = o.owner
                             /\ q.step = "check" \/ (q.step = "load" /\ o.event = "claimed")
                             /\ rec'[u] = {q}
    BY <2>1 DEF FlightOf, DataOK
  <2>3. \A x \in Threads \ {u} : rec'[x] = rec[x]
    BY <2>1 DEF FlightOf, DataOK
  <2>4. th = u
    BY <1>6, <2>3
  <2>5. o.owner = s /\ r.event = o.event /\ (r.step = "check" \/ (r.step = "load" /\ o.event = "claimed"))
    BY <2>2, <2>4
  <2>6. s \notin {q.owner : q \in UsingEntry(s, Threads \ {th})}
    BY <2>1, <2>4, <2>5, CountedBefore DEF FlightOf
  <2>7. \A x \in Threads \ {th} : \A q \in rec[x] : q.owner = s => q.step \notin OnEntry
    BY <2>6 DEF UsingEntry
  <2>8. QED
    BY <2>3, <2>4, <2>5, <2>7
<1>7. ASSUME NEW u \in Threads, Check(u) \/ Load(u) \/ Store(u), r \notin rec[th]
      PROVE  /\ \E q \in rec[th] : /\ q.owner = s /\ q.step \in OnEntry /\ q.event = r.event
                                   /\ \/ r.step = "load" /\ owned[s] > 0
                                      \/ /\ q.step = "load" /\ r.step = "store"
                                         /\ r.val = owned[s]
             /\ \A x \in Threads \ {th} : rec'[x] = rec[x]
             /\ UNCHANGED owned
  <2>1. PICK o \in rec[u] : EntryOf(u, o)
    BY <1>7, EntryFacts
  <2>2. \A x \in Threads \ {u} : rec'[x] = rec[x]
    BY <2>1 DEF EntryOf, DataOK
  <2>3. th = u
    BY <1>7, <2>2
  <2>4. rec'[u] # {} =>
          /\ UNCHANGED owned /\ o.step \in OnEntry
          /\ \E q \in Record : /\ q.event = o.event /\ q.owner = o.owner /\ rec'[u] = {q}
                               /\ \/ q.step = "load" /\ owned[o.owner] > 0
                                  \/ o.step = "load" /\ q.step = "store" /\ q.val = owned[o.owner]
    BY <2>1 DEF EntryOf, DataOK, OnEntry
  <2>5. QED
    BY <2>2, <2>3, <2>4
<1>8. UNCHANGED vars \/ Watch \/ (\E o \in Sessions : Connect(o) \/ Disconnect(o))
         \/ (\E t \in Tasks : Register(t) \/ LeaseRunsOut(t)) => UNCHANGED rec
  BY DEF vars, Watch, Connect, Disconnect, Register, LeaseRunsOut
<1>9. QED
  BY <1>1, <1>2, <1>4, <1>5, <1>6, <1>7, <1>8 DEF Next


\* The count is stored by a call that has it in hand and ends.
LEMMA StoreOrigin ==
    ASSUME CallsOK, [Next]_vars, NEW s \in Sessions, ~Forget(s), owned'[s] # owned[s]
    PROVE  \E th \in Threads : \E r \in rec[th] :
              EntryOf(th, r) /\ r.owner = s /\ r.step = "store" /\ rec' = [rec EXCEPT ![th] = {}]
<1> USE DEF CallsOK
<1>1. ASSUME NEW th \in Threads, Check(th) \/ Load(th) \/ Store(th)
      PROVE  \E r \in rec[th] :
                EntryOf(th, r) /\ r.owner = s /\ r.step = "store" /\ rec' = [rec EXCEPT ![th] = {}]
  <2>1. PICK r \in rec[th] : EntryOf(th, r)
    BY <1>1, EntryFacts
  <2>2. r.step = "store" /\ rec' = [rec EXCEPT ![th] = {}] /\ r.owner = s
    BY <2>1 DEF EntryOf, DataOK
  <2>3. QED
    BY <2>1, <2>2
<1>2. \A o \in Sessions : Connect(o) \/ Disconnect(o) => UNCHANGED owned
  BY DEF Connect, Disconnect, recorderVars
<1>3. ASSUME NEW o \in Sessions, Forget(o)
      PROVE  owned'[s] = owned[s]
  <2>1. o # s
    BY <1>3
  <2>2. owned' = [owned EXCEPT ![o] = 0]
    BY <1>3 DEF Forget, DeleteEntry
  <2>3. QED
    BY <2>1, <2>2 DEF DataOK
<1>4. \A o \in Sessions, t \in Tasks :
         Acquire(o, t) \/ Resume(o, t) \/ Release(o, t) \/ Submit(o, t) => UNCHANGED owned
  BY DEF Acquire, Resume, Release, Submit, recorderVars
<1>5. \A t \in Tasks : Register(t) \/ LeaseRunsOut(t) => UNCHANGED owned
  BY DEF Register, LeaseRunsOut, recorderVars
<1>6. \A th \in Threads : (\E n \in notices[th] : Fire(th, n)) \/ Flight(th) => UNCHANGED owned
  BY DEF Fire, Flight, recorderVars
<1>7. QED
  BY <1>1, <1>2, <1>3, <1>4, <1>5, <1>6 DEF Next, Watch, vars, recorderVars

LEMMA OneAtATimeStep ==
    ASSUME CallsOK, [Next]_vars, NEW s \in Sessions, Counted(s)', OneAtATime(s)
    PROVE  OneAtATime(s)'
<1> USE ThreadFacts
<1> SUFFICES ASSUME NEW th \in Threads, NEW u \in Threads, NEW r \in rec'[th], NEW q \in rec'[u],
                    r.owner = s, q.owner = s, r.step \in OnEntry, q.step \in OnEntry, th # u
             PROVE  FALSE
  BY DEF OneAtATime
<1>1. CASE r \in rec[th] /\ q \in rec[u]
  BY <1>1 DEF OneAtATime
<1>2. CASE r \notin rec[th]
  <2>1. q \in rec[u]
    BY <1>2, HolderOrigin
  <2>2. QED
    BY <1>2, <2>1, HolderOrigin DEF OneAtATime
<1>3. CASE q \notin rec[u]
  <2>1. r \in rec[th]
    BY <1>3, HolderOrigin
  <2>2. QED
    BY <1>3, <2>1, HolderOrigin DEF OneAtATime
<1>4. QED
  BY <1>1, <1>2, <1>3

LEMMA ValueStep ==
    ASSUME CallsOK, [Next]_vars, NEW s \in Sessions, Counted(s)', OneAtATime(s), ValueFits(s)
    PROVE  ValueFits(s)'
<1> USE ThreadFacts
<1> SUFFICES ASSUME NEW th \in Threads, NEW r \in rec'[th], r.owner = s, r.step \in {"load", "store"}
             PROVE  /\ r.step = "store" => r.val = owned'[s]
                    /\ r.event # "claimed" => owned'[s] > 0
  BY DEF ValueFits
<1>1. r.step \in OnEntry /\ r.step # "check"
  BY DEF OnEntry
<1>2. CASE owned'[s] # owned[s]
  <2>1. PICK u \in Threads : \E q \in rec[u] : q.owner = s /\ q.step = "store" /\ rec' = [rec EXCEPT ![u] = {}]
    BY <1>2, StoreOrigin, CountedBefore
  <2>2. PICK q \in rec[u] : q.owner = s /\ q.step = "store" /\ rec' = [rec EXCEPT ![u] = {}]
    BY <2>1
  <2>3. th # u /\ r \in rec[th]
    BY <2>2 DEF CallsOK, DataOK
  <2>4. q.step \in OnEntry
    BY <2>2 DEF OnEntry
  <2>5. QED
    BY <1>1, <2>2, <2>3, <2>4 DEF OneAtATime
<1>3. CASE owned'[s] = owned[s]
  <2>1. CASE r \in rec[th]
    BY <1>3, <2>1 DEF ValueFits
  <2>2. CASE r.step = "load" /\ r.event = "claimed"
    BY <2>2
  <2>3. ASSUME NEW q \in rec[th], q.owner = s, q.event = r.event,
               \/ r.step = "load" /\ owned[s] > 0
               \/ q.step = "load" /\ r.step = "store" /\ r.val = owned[s]
        PROVE  /\ r.step = "store" => r.val = owned'[s]
               /\ r.event # "claimed" => owned'[s] > 0
    BY <1>3, <2>3 DEF ValueFits
  <2>4. QED
    BY <1>1, <2>1, <2>2, <2>3, HolderOrigin
<1>4. QED
  BY <1>2, <1>3

-----------------------------------------------------------------------------
(* What is still to be added to the count and taken from it *)

Claiming(s) == {th \in Threads : \E r \in rec[th] : r.owner = s /\ r.event = "claimed"}

Leaving(s) == {th \in Threads : \E r \in rec[th] : r.owner = s /\ r.event \in {"released", "evicted"}}

Lost(s) == {x \in Threads \X Tasks : LostOf(x[1], s, x[2])}

Mine(s) == {t \in Tasks : task[t].owner = s}

SameWork(s) == Claiming(s)' = Claiming(s) /\ Leaving(s)' = Leaving(s)

\* A step of the count of s.  Nothing happens to it,
CountStays(s) ==
    SameWork(s) /\ Lost(s)' = Lost(s) /\ Mine(s)' = Mine(s) /\ owned'[s] = owned[s]

\* tasks are lost,
CountLoses(s) ==
    /\ SameWork(s) /\ owned'[s] = owned[s]
    /\ \E th \in Threads, K \in SUBSET Mine(s) :
          /\ \A x \in Lost(s) : x[1] # th
          /\ Lost(s)' = Lost(s) \cup ({th} \X K)
          /\ Mine(s)' = Mine(s) \ K

\* a loss is told,
CountIsTold(s) ==
    /\ Claiming(s)' = Claiming(s) /\ Mine(s)' = Mine(s) /\ owned'[s] = owned[s]
    /\ \E th \in Threads \ Leaving(s) : \E x \in Lost(s) :
          Leaving(s)' = Leaving(s) \cup {th} /\ Lost(s)' = Lost(s) \ {x}

\* a task is claimed,
CountClaims(s) ==
    /\ Leaving(s)' = Leaving(s) /\ Lost(s)' = Lost(s) /\ owned'[s] = owned[s]
    /\ totalClaims' = totalClaims + 1
    /\ \E th \in Threads \ Claiming(s), t \in Tasks \ Mine(s) :
          Claiming(s)' = Claiming(s) \cup {th} /\ Mine(s)' = Mine(s) \cup {t}

\* or released,
CountReleases(s) ==
    /\ Claiming(s)' = Claiming(s) /\ Lost(s)' = Lost(s) /\ owned'[s] = owned[s]
    /\ \E th \in Threads \ Leaving(s), t \in Mine(s) :
          Leaving(s)' = Leaving(s) \cup {th} /\ Mine(s)' = Mine(s) \ {t}

\* or the count goes up
CountGoesUp(s) ==
    /\ Leaving(s)' = Leaving(s) /\ Lost(s)' = Lost(s) /\ Mine(s)' = Mine(s)
    /\ \E th \in Claiming(s) : Claiming(s)' = Claiming(s) \ {th}
    /\ owned'[s] = (owned[s] + 1) % 2^Width

\* or down.
CountGoesDown(s) ==
    /\ Claiming(s)' = Claiming(s) /\ Lost(s)' = Lost(s) /\ Mine(s)' = Mine(s)
    /\ \E th \in Leaving(s) : Leaving(s)' = Leaving(s) \ {th}
    /\ owned[s] > 0 /\ owned'[s] = owned[s] - 1

\* What has been recorded and what is still to be recorded balance what is
\* owned and what was, and the counter does not wrap.
Balanced(s) ==
    /\ IsFiniteSet(Claiming(s)) /\ IsFiniteSet(Leaving(s))
    /\ IsFiniteSet(Lost(s)) /\ IsFiniteSet(Mine(s))
    /\ owned[s] + Cardinality(Claiming(s))
          = Cardinality(Mine(s)) + Cardinality(Lost(s)) + Cardinality(Leaving(s))
    /\ owned[s] + Cardinality(Claiming(s)) <= totalClaims

LEMMA OneMore ==
    ASSUME NEW S, IsFiniteSet(S), NEW x, x \notin S
    PROVE  IsFiniteSet(S \cup {x}) /\ Cardinality(S \cup {x}) = Cardinality(S) + 1
BY FS_AddElement

LEMMA OneLess ==
    ASSUME NEW S, IsFiniteSet(S), NEW x \in S
    PROVE  IsFiniteSet(S \ {x}) /\ Cardinality(S) = Cardinality(S \ {x}) + 1
<1>1. IsFiniteSet(S \ {x}) /\ Cardinality(S \ {x}) = Cardinality(S) - 1
  BY FS_RemoveElement
<1>2. Cardinality(S) \in Nat
  BY FS_CardinalityType
<1>3. QED
  BY <1>1, <1>2

LEMMA TakenOut ==
    ASSUME NEW A, IsFiniteSet(A), NEW K \in SUBSET A
    PROVE  /\ IsFiniteSet(K) /\ IsFiniteSet(A \ K)
           /\ Cardinality(A \ K) = Cardinality(A) - Cardinality(K)
<1>1. IsFiniteSet(K)
  BY FS_Subset
<1>2. IsFiniteSet(A \ K) /\ Cardinality(A \ K) = Cardinality(A) - Cardinality(A \cap K)
  BY FS_Difference
<1>3. A \cap K = K
  OBVIOUS
<1>4. QED
  BY <1>1, <1>2, <1>3

LEMMA PutIn ==
    ASSUME NEW B, IsFiniteSet(B), NEW C, IsFiniteSet(C), B \cap C = {}
    PROVE  IsFiniteSet(B \cup C) /\ Cardinality(B \cup C) = Cardinality(B) + Cardinality(C)
<1>1. IsFiniteSet(B \cup C) /\ Cardinality(B \cup C) = Cardinality(B) + Cardinality(C) - Cardinality({})
  BY FS_Union
<1>2. Cardinality({}) = 0 /\ Cardinality(B) \in Nat /\ Cardinality(C) \in Nat
  BY FS_EmptySet, FS_CardinalityType
<1>3. QED
  BY <1>1, <1>2

LEMMA OnePairEach ==
    ASSUME NEW th, NEW K, IsFiniteSet(K)
    PROVE  IsFiniteSet({th} \X K) /\ Cardinality({th} \X K) = Cardinality(K)
<1>1. IsFiniteSet({th}) /\ Cardinality({th}) = 1
  BY FS_Singleton
<1>2. IsFiniteSet({th} \X K) /\ Cardinality({th} \X K) = 1 * Cardinality(K)
  BY <1>1, FS_Product
<1>3. Cardinality(K) \in Nat
  BY FS_CardinalityType
<1>4. QED
  BY <1>2, <1>3

\* Whatever the step of the count, the balance is kept.
LEMMA BalanceKept ==
    ASSUME DataOK, NEW s \in Sessions, Balanced(s),
           totalClaims' \in Nat, totalClaims <= totalClaims', totalClaims' < 2^Width,
           \/ CountStays(s) \/ CountLoses(s) \/ CountIsTold(s) \/ CountClaims(s)
           \/ CountReleases(s) \/ CountGoesUp(s) \/ CountGoesDown(s)
    PROVE  Balanced(s)'
<1>1. /\ IsFiniteSet(Claiming(s)) /\ IsFiniteSet(Leaving(s))
      /\ IsFiniteSet(Lost(s)) /\ IsFiniteSet(Mine(s))
      /\ Cardinality(Claiming(s)) \in Nat /\ Cardinality(Leaving(s)) \in Nat
      /\ Cardinality(Lost(s)) \in Nat /\ Cardinality(Mine(s)) \in Nat
      /\ owned[s] \in Nat /\ owned[s] < 2^Width /\ totalClaims \in Nat
  BY Modulus, FS_CardinalityType DEF Balanced, DataOK
<1>2. CASE CountStays(s)
  BY <1>1, <1>2 DEF CountStays, SameWork, Balanced
<1>3. CASE CountLoses(s)
  <2>1. PICK th \in Threads, K \in SUBSET Mine(s) :
           /\ \A x \in Lost(s) : x[1] # th
           /\ Lost(s)' = Lost(s) \cup ({th} \X K)
           /\ Mine(s)' = Mine(s) \ K
    BY <1>3 DEF CountLoses
  <2>2. /\ IsFiniteSet(K) /\ IsFiniteSet(Mine(s) \ K)
        /\ Cardinality(Mine(s) \ K) = Cardinality(Mine(s)) - Cardinality(K)
    BY <1>1, TakenOut
  <2>3. IsFiniteSet({th} \X K) /\ Cardinality({th} \X K) = Cardinality(K)
    BY <2>2, OnePairEach
  <2>4. Lost(s) \cap ({th} \X K) = {}
    BY <2>1
  <2>5. /\ IsFiniteSet(Lost(s) \cup ({th} \X K))
        /\ Cardinality(Lost(s) \cup ({th} \X K)) = Cardinality(Lost(s)) + Cardinality({th} \X K)
    BY <1>1, <2>3, <2>4, PutIn
  <2>6. Cardinality(K) \in Nat
    BY <2>2, FS_CardinalityType
  <2>7. /\ IsFiniteSet(Mine(s)') /\ IsFiniteSet(Lost(s)')
        /\ Cardinality(Mine(s)') + Cardinality(Lost(s)') = Cardinality(Mine(s)) + Cardinality(Lost(s))
    BY <1>1, <2>1, <2>2, <2>3, <2>5, <2>6
  <2>8. Cardinality(Mine(s)') \in Nat /\ Cardinality(Lost(s)') \in Nat
    BY <2>7, FS_CardinalityType
  <2>9. QED
    BY <1>1, <1>3, <2>7, <2>8 DEF CountLoses, SameWork, Balanced
<1>4. CASE CountIsTold(s)
  <2>1. PICK th \in Threads \ Leaving(s), x \in Lost(s) :
           Leaving(s)' = Leaving(s) \cup {th} /\ Lost(s)' = Lost(s) \ {x}
    BY <1>4 DEF CountIsTold
  <2>2. IsFiniteSet(Leaving(s)') /\ Cardinality(Leaving(s)') = Cardinality(Leaving(s)) + 1
    BY <1>1, <2>1, OneMore
  <2>3. IsFiniteSet(Lost(s)') /\ Cardinality(Lost(s)) = Cardinality(Lost(s)') + 1
    BY <1>1, <2>1, OneLess
  <2>4. Cardinality(Lost(s)') \in Nat
    BY <2>3, FS_CardinalityType
  <2>5. QED
    BY <1>1, <1>4, <2>2, <2>3, <2>4 DEF CountIsTold, Balanced
<1>5. CASE CountClaims(s)
  <2>1. PICK th \in Threads \ Claiming(s), t \in Tasks \ Mine(s) :
           Claiming(s)' = Claiming(s) \cup {th} /\ Mine(s)' = Mine(s) \cup {t}
    BY <1>5 DEF CountClaims
  <2>2. IsFiniteSet(Claiming(s)') /\ Cardinality(Claiming(s)') = Cardinality(Claiming(s)) + 1
    BY <1>1, <2>1, OneMore
  <2>3. IsFiniteSet(Mine(s)') /\ Cardinality(Mine(s)') = Cardinality(Mine(s)) + 1
    BY <1>1, <2>1, OneMore
  <2>4. QED
    BY <1>1, <1>5, <2>2, <2>3 DEF CountClaims, Balanced
<1>6. CASE CountReleases(s)
  <2>1. PICK th \in Threads \ Leaving(s), t \in Mine(s) :
           Leaving(s)' = Leaving(s) \cup {th} /\ Mine(s)' = Mine(s) \ {t}
    BY <1>6 DEF CountReleases
  <2>2. IsFiniteSet(Leaving(s)') /\ Cardinality(Leaving(s)') = Cardinality(Leaving(s)) + 1
    BY <1>1, <2>1, OneMore
  <2>3. IsFiniteSet(Mine(s)') /\ Cardinality(Mine(s)) = Cardinality(Mine(s)') + 1
    BY <1>1, <2>1, OneLess
  <2>4. Cardinality(Mine(s)') \in Nat
    BY <2>3, FS_CardinalityType
  <2>5. QED
    BY <1>1, <1>6, <2>2, <2>3, <2>4 DEF CountReleases, Balanced
<1>7. CASE CountGoesUp(s)
  <2>1. PICK th \in Claiming(s) : Claiming(s)' = Claiming(s) \ {th}
    BY <1>7 DEF CountGoesUp
  <2>2. IsFiniteSet(Claiming(s)') /\ Cardinality(Claiming(s)) = Cardinality(Claiming(s)') + 1
    BY <1>1, <2>1, OneLess
  <2>3. Cardinality(Claiming(s)') \in Nat
    BY <2>2, FS_CardinalityType
  <2>4. owned[s] + 1 < 2^Width /\ owned[s] \in 0..(2^Width - 1)
    BY <1>1, <2>2, <2>3, Modulus DEF Balanced
  <2>5. owned'[s] = owned[s] + 1
    BY <1>7, <2>4, Modulus, ModuloFacts DEF CountGoesUp
  <2>6. QED
    BY <1>1, <1>7, <2>2, <2>3, <2>5 DEF CountGoesUp, Balanced
<1>8. CASE CountGoesDown(s)
  <2>1. PICK th \in Leaving(s) : Leaving(s)' = Leaving(s) \ {th}
    BY <1>8 DEF CountGoesDown
  <2>2. IsFiniteSet(Leaving(s)') /\ Cardinality(Leaving(s)) = Cardinality(Leaving(s)') + 1
    BY <1>1, <2>1, OneLess
  <2>3. Cardinality(Leaving(s)') \in Nat
    BY <2>2, FS_CardinalityType
  <2>4. QED
    BY <1>1, <1>8, <2>2, <2>3 DEF CountGoesDown, Balanced
<1>9. QED
  BY <1>2, <1>3, <1>4, <1>5, <1>6, <1>7, <1>8

LEMMA WorkBegins ==
    ASSUME DataOK, NEW th \in Threads, NEW event \in Events, NEW t \in Tasks, NEW o \in Sessions,
           Recorded(th, event, t, o), rec[th] = {}, NEW s \in Sessions
    PROVE  /\ o # s \/ event \in {"completed", "rejected"} => SameWork(s)
           /\ o = s /\ event = "claimed" =>
                 /\ th \notin Claiming(s) /\ Claiming(s)' = Claiming(s) \cup {th}
                 /\ Leaving(s)' = Leaving(s)
           /\ o = s /\ event \in {"released", "evicted"} =>
                 /\ th \notin Leaving(s) /\ Leaving(s)' = Leaving(s) \cup {th}
                 /\ Claiming(s)' = Claiming(s)
<1>1. PICK r \in Record : r.event = event /\ r.owner = o /\ rec' = [rec EXCEPT ![th] = {r}]
  BY Begins
<1>2. rec'[th] = {r} /\ \A u \in Threads \ {th} : rec'[u] = rec[u]
  BY <1>1 DEF DataOK
<1>3. QED
  BY <1>1, <1>2 DEF SameWork, Claiming, Leaving

LEMMA WorkGoesOn ==
    ASSUME DataOK, CallsFit, NEW th \in Threads, NEW r \in rec[th], NEW q, rec' = [rec EXCEPT ![th] = {q}],
           q.event = r.event, q.owner = r.owner, NEW s \in Sessions
    PROVE  SameWork(s)
<1>1. rec[th] = {r}
  BY DEF CallsFit, CallFits
<1>2. rec'[th] = {q} /\ \A u \in Threads \ {th} : rec'[u] = rec[u]
  BY DEF DataOK
<1>3. QED
  BY <1>1, <1>2 DEF SameWork, Claiming, Leaving

LEMMA WorkEnds ==
    ASSUME DataOK, CallsFit, NEW th \in Threads, NEW r \in rec[th], rec' = [rec EXCEPT ![th] = {}],
           NEW s \in Sessions
    PROVE  /\ r.owner # s \/ r.event \in {"completed", "rejected"} => SameWork(s)
           /\ r.owner = s /\ r.event = "claimed" =>
                 /\ th \in Claiming(s) /\ Claiming(s)' = Claiming(s) \ {th}
                 /\ Leaving(s)' = Leaving(s)
           /\ r.owner = s /\ r.event \in {"released", "evicted"} =>
                 /\ th \in Leaving(s) /\ Leaving(s)' = Leaving(s) \ {th}
                 /\ Claiming(s)' = Claiming(s)
<1>1. rec[th] = {r}
  BY DEF CallsFit, CallFits
<1>2. rec'[th] = {} /\ \A u \in Threads \ {th} : rec'[u] = rec[u]
  BY DEF DataOK
<1>3. QED
  BY <1>1, <1>2 DEF SameWork, Claiming, Leaving

\* Tasks are taken back by a goroutine that had no loss to tell,
LEMMA TakenAndTold ==
    ASSUME NEW th \in Threads, NEW S \in SUBSET Tasks, NEW s \in Sessions, notices[th] = {},
           TakesBack(th, S, TRUE), SameWork(s), owned'[s] = owned[s]
    PROVE  CountLoses(s)
<1> DEFINE K == S \cap Mine(s)
<1>1. \A x \in Lost(s) : x[1] # th
  BY DEF Lost, LostOf
<1>2. Mine(s)' = Mine(s) \ K
  BY DEF TakesBack, Mine
<1>3. Lost(s)' = Lost(s) \cup ({th} \X K)
  <2>1. ASSUME NEW u \in Threads, NEW t \in Tasks
        PROVE  LostOf(u, s, t)' <=> LostOf(u, s, t) \/ (u = th /\ t \in K)
    <3>1. ~LostOf(th, s, t)
      BY DEF LostOf
    <3>2. QED
      BY <3>1 DEF TakesBack, Mine
  <2>2. K \in SUBSET Tasks
    OBVIOUS
  <2> HIDE DEF K
  <2>3. QED
    BY <2>1, <2>2 DEF Lost
<1>4. QED
  BY <1>1, <1>2, <1>3 DEF CountLoses

\* and their owner is told of no loss.
LEMMA TakenInSilence ==
    ASSUME NEW th \in Threads, NEW t \in Tasks, NEW s \in Sessions, notices[th] = {},
           TakesBack(th, {t}, FALSE)
    PROVE  Lost(s)' = Lost(s) /\ Mine(s)' = Mine(s) \ {t}
<1>1. ASSUME NEW u \in Threads, NEW x \in Tasks
      PROVE  LostOf(u, s, x)' <=> LostOf(u, s, x)
  <2>1. ~LostOf(th, s, x)
    BY DEF LostOf
  <2>2. QED
    BY <2>1 DEF TakesBack
<1>2. Lost(s)' = Lost(s)
  BY <1>1 DEF Lost
<1>3. Mine(s)' = Mine(s) \ {t}
  BY DEF TakesBack, Mine
<1>4. QED
  BY <1>2, <1>3

LEMMA NothingCounted ==
    ASSUME NEW s \in Sessions, SameWork(s), SameOwners, SameLosses, owned'[s] = owned[s]
    PROVE  CountStays(s)
<1>1. Mine(s)' = Mine(s)
  BY DEF SameOwners, Mine
<1>2. Lost(s)' = Lost(s)
  BY DEF SameLosses, Lost
<1>3. QED
  BY <1>1, <1>2 DEF CountStays

CountMoves(s) ==
    \/ CountStays(s) \/ CountLoses(s) \/ CountIsTold(s) \/ CountClaims(s)
    \/ CountReleases(s) \/ CountGoesUp(s) \/ CountGoesDown(s)

LEMMA CountStep ==
    ASSUME CallsOK, [Next]_vars, NEW s \in Sessions, Counted(s)', OneAtATime(s), ValueFits(s)
    PROVE  CountMoves(s)
<1> USE ThreadFacts DEF CallsOK, CountMoves
<1>a. UNCHANGED rec => SameWork(s)
  BY DEF SameWork, Claiming, Leaving
<1>b. UNCHANGED registryVars => SameOwners /\ SameLosses
  BY DEF registryVars, SameOwners, SameLosses, LostOf
<1>1. ASSUME UNCHANGED vars \/ \E o \in Sessions : Connect(o)
      PROVE  CountStays(s)
  <2>1. UNCHANGED <<registryVars, rec, owned>>
    BY <1>1 DEF vars, recorderVars, Connect
  <2>2. QED
    BY <1>a, <1>b, <2>1, NothingCounted
<1>2. ASSUME NEW o \in Sessions, Disconnect(o)
      PROVE  CountLoses(s)
  <2>1. /\ TakesBack(o, R!OwnedTasks(o), TRUE) /\ R!OwnedTasks(o) \in SUBSET Tasks
        /\ notices[o] = {} /\ UNCHANGED <<rec, owned>>
    BY <1>2, DisconnectEffect DEF Disconnect, Serving, Free, R!Idle, R!OwnedTasks, recorderVars
  <2>2. QED
    BY <1>a, <2>1, TakenAndTold
<1>3. ASSUME NEW o \in Sessions, Forget(o)
      PROVE  CountStays(s)
  <2>1. o # s
    BY <1>3, CountedBefore
  <2>2. /\ UNCHANGED registryVars /\ owned' = [owned EXCEPT ![o] = 0]
        /\ rec' = [th \in Threads |-> {r \in rec[th] : r.owner # o \/ r.step \notin OnEntry}]
    BY <1>3 DEF Forget, DeleteEntry
  <2>3. SameWork(s) /\ owned'[s] = owned[s]
    BY <2>1, <2>2 DEF SameWork, Claiming, Leaving, DataOK
  <2>4. QED
    BY <1>b, <2>2, <2>3, NothingCounted
<1>4. ASSUME NEW o \in Sessions, NEW t \in Tasks, Claimed(o, t), Grants(o, t), rec[o] = {},
             task[t].owner # s, UNCHANGED owned
      PROVE  CountStays(s) \/ CountClaims(s)
  <2>1. Recorded(o, "claimed", t, o) /\ totalClaims' = totalClaims + 1
    BY <1>4 DEF Claimed
  <2>2. Lost(s)' = Lost(s)
    BY <1>4 DEF Grants, SameLosses, Lost
  <2>3. CASE o = s
    <3>1. /\ s \notin Claiming(s) /\ Claiming(s)' = Claiming(s) \cup {s}
          /\ Leaving(s)' = Leaving(s)
      BY <1>4, <2>1, <2>3, WorkBegins DEF Events
    <3>2. t \in Tasks \ Mine(s) /\ Mine(s)' = Mine(s) \cup {t}
      BY <1>4, <2>3 DEF Grants, Mine
    <3>3. QED
      BY <1>4, <2>1, <2>2, <3>1, <3>2 DEF CountClaims
  <2>4. CASE o # s
    <3>1. SameWork(s)
      BY <1>4, <2>1, <2>4, WorkBegins DEF Events
    <3>2. Mine(s)' = Mine(s)
      BY <1>4, <2>4 DEF Grants, Mine
    <3>3. QED
      BY <1>4, <2>2, <3>1, <3>2 DEF CountStays
  <2>5. QED
    BY <2>3, <2>4
<1>5. ASSUME NEW o \in Sessions, NEW t \in Tasks, Acquire(o, t)
      PROVE  CountMoves(s)
  <2>1. rec[o] = {} /\ notices[o] = {} /\ UNCHANGED owned
    BY <1>5 DEF Acquire, Serving, Free, R!Idle, recorderVars
  <2>2. CASE Claimed(o, t) /\ Grants(o, t) /\ task[t].owner = NoOwner
    BY <1>4, <2>1, <2>2
  <2>3. CASE UNCHANGED rec /\ TakesBack(o, {t}, TRUE)
    BY <1>a, <2>1, <2>3, TakenAndTold
  <2>4. QED
    BY <1>5, <2>2, <2>3, AcquireEffect
<1>6. ASSUME NEW o \in Sessions, NEW t \in Tasks, Resume(o, t)
      PROVE  CountMoves(s)
  <2>1. /\ rec[o] = {} /\ Claimed(o, t) /\ Grants(o, t) /\ UNCHANGED owned
        /\ Spoil({task[t].owner} \ {o, NoOwner}) /\ <<t, o>> \in claim[o]
    BY <1>6, ResumeEffect DEF Resume, recorderVars
  <2>2. task[t].owner # o
    BY <2>1 DEF ClaimsFit
  <2>3. task[t].owner # s
    BY <2>1, <2>2, CountedBefore
  <2>4. QED
    BY <1>4, <2>1, <2>3
<1>7. ASSUME NEW o \in Sessions, NEW t \in Tasks, Release(o, t)
      PROVE  CountMoves(s)
  <2>1. /\ rec[o] = {} /\ notices[o] = {} /\ Recorded(o, "released", t, o) /\ UNCHANGED owned
        /\ TakesBack(o, {t}, FALSE) /\ task[t].owner = o
    BY <1>7, ReleaseEffect DEF Release, Serving, Free, R!Idle, recorderVars
  <2>a. o \in Threads /\ notices[o] = {} /\ TakesBack(o, {t}, FALSE)
    BY <2>1
  <2>2. Lost(s)' = Lost(s) /\ Mine(s)' = Mine(s) \ {t}
    BY <2>a, TakenInSilence, Zenon
  <2>3. CASE o = s
    <3>1. /\ s \notin Leaving(s) /\ Leaving(s)' = Leaving(s) \cup {s}
          /\ Claiming(s)' = Claiming(s)
      BY <2>1, <2>3, WorkBegins DEF Events
    <3>2. t \in Mine(s)
      BY <2>1, <2>3 DEF Mine
    <3>3. QED
      BY <2>1, <2>2, <3>1, <3>2 DEF CountReleases
  <2>4. CASE o # s
    <3>1. SameWork(s)
      BY <2>1, <2>4, WorkBegins DEF Events
    <3>2. Mine(s)' = Mine(s)
      BY <2>1, <2>2, <2>4 DEF Mine
    <3>3. QED
      BY <2>1, <2>2, <3>1, <3>2 DEF CountStays
  <2>5. QED
    BY <2>3, <2>4
<1>8. ASSUME NEW o \in Sessions, NEW t \in Tasks, Submit(o, t)
      PROVE  CountStays(s)
  <2>1. /\ Recorded(o, "rejected", t, o) \/ Recorded(o, "completed", t, o)
        /\ rec[o] = {} /\ UNCHANGED <<registryVars, owned>>
    BY <1>8 DEF Submit, Serving, Free, recorderVars
  <2>2. SameWork(s)
    BY <2>1, WorkBegins DEF Events
  <2>3. QED
    BY <1>b, <2>1, <2>2, NothingCounted
<1>9. ASSUME NEW t \in Tasks, Register(t)
      PROVE  CountStays(s)
  <2>1. /\ TakesBack(App, {t}, FALSE) /\ task[t].owner = NoOwner
        /\ notices[App] = {} /\ UNCHANGED <<rec, owned>>
    BY <1>9, RegisterEffect DEF Register, Free, R!Idle, recorderVars
  <2>a. App \in Threads /\ notices[App] = {} /\ TakesBack(App, {t}, FALSE)
    BY <2>1
  <2>2. Lost(s)' = Lost(s) /\ Mine(s)' = Mine(s) \ {t}
    BY <2>a, TakenInSilence, Zenon
  <2>3. Mine(s)' = Mine(s)
    BY <2>1, <2>2 DEF Mine
  <2>4. QED
    BY <1>a, <2>1, <2>2, <2>3 DEF CountStays
<1>10. ASSUME NEW t \in Tasks, LeaseRunsOut(t)
       PROVE  CountStays(s)
  <2>1. SameOwners /\ SameLosses /\ UNCHANGED <<rec, owned>>
    BY <1>10, LeaseEffect DEF LeaseRunsOut, recorderVars
  <2>2. QED
    BY <1>a, <2>1, NothingCounted
<1>11. ASSUME Watch
       PROVE  CountLoses(s)
  <2>1. PICK S \in SUBSET Tasks : TakesBack(Watcher, S, TRUE)
    BY <1>11, WatchEffect
  <2>2. notices[Watcher] = {} /\ UNCHANGED <<rec, owned>>
    BY <1>11 DEF Watch, Free, R!Idle, recorderVars
  <2>3. QED
    BY <1>a, <2>1, <2>2, TakenAndTold
<1>12. ASSUME NEW th \in Threads, NEW n \in notices[th], Fire(th, n)
       PROVE  CountMoves(s)
  <2> DEFINE lost == R!NextKind(n) = "lost"
  <2>1. R!Fire(th, n) /\ UNCHANGED owned
    BY <1>12 DEF Fire, recorderVars
  <2>2. /\ SameOwners /\ n.task \in Tasks
        /\ lost => n.owner \in Sessions /\ LostOf(th, n.owner, n.task)
        /\ \A u \in Threads, t \in Tasks :
              LostOf(u, s, t)' <=> LostOf(u, s, t) /\ ~(u = th /\ t = n.task /\ lost)
    BY <2>1, FireFacts DEF SameOwners
  <2>3. Mine(s)' = Mine(s)
    BY <2>2 DEF SameOwners, Mine
  <2>4. CASE ~lost
    <3>1. SameWork(s)
      BY <1>12, <1>a, <2>4 DEF Fire
    <3>2. Lost(s)' = Lost(s)
      BY <2>2, <2>4 DEF Lost
    <3>3. QED
      BY <2>1, <2>3, <3>1, <3>2 DEF CountStays
  <2>5. CASE lost
    <3>1. Recorded(th, "evicted", n.task, n.owner)
      BY <1>12, <2>5 DEF Fire
    <3>2. rec[th] = {}
      <4>1. ~Quiet(th)
        BY <2>2, <2>5 DEF Quiet
      <4>2. QED
        BY <1>12, <4>1 DEF Fire, CallsFit, CallFits, Quiet
    <3>3. CASE n.owner = s
      <4>1. /\ th \notin Leaving(s) /\ Leaving(s)' = Leaving(s) \cup {th}
            /\ Claiming(s)' = Claiming(s)
        BY <2>2, <3>1, <3>2, <3>3, WorkBegins DEF Events
      <4>2. <<th, n.task>> \in Lost(s) /\ Lost(s)' = Lost(s) \ {<<th, n.task>>}
        BY <2>2, <2>5, <3>3 DEF Lost
      <4>3. QED
        BY <2>1, <2>3, <4>1, <4>2 DEF CountIsTold
    <3>4. CASE n.owner # s
      <4>1. SameWork(s)
        BY <2>2, <2>5, <3>1, <3>2, <3>4, WorkBegins DEF Events
      <4>2. \A t \in Tasks : LostOf(th, s, t) => t # n.task
        BY <2>2, <2>5, <3>4, RegistryFacts DEF LostOf
      <4>3. Lost(s)' = Lost(s)
        BY <2>2, <4>2 DEF Lost
      <4>4. QED
        BY <2>1, <2>3, <4>1, <4>3 DEF CountStays
    <3>5. QED
      BY <3>3, <3>4
  <2>6. QED
    BY <2>4, <2>5
<1>13. ASSUME NEW th \in Threads, Flight(th)
       PROVE  CountStays(s)
  <2>1. PICK r \in rec[th] : FlightOf(th, r)
    BY <1>13, FlightFacts
  <2>2. CASE r.event \in {"completed", "rejected"} /\ rec' = [rec EXCEPT ![th] = {}]
    <3>1. SameWork(s)
      BY <2>2, WorkEnds
    <3>2. QED
      BY <1>b, <2>1, <3>1, NothingCounted DEF FlightOf
  <2>3. ASSUME NEW q, q.event = r.event, q.owner = r.owner, rec' = [rec EXCEPT ![th] = {q}]
        PROVE  CountStays(s)
    <3>1. SameWork(s)
      BY <2>3, WorkGoesOn
    <3>2. QED
      BY <1>b, <2>1, <3>1, NothingCounted DEF FlightOf
  <2>4. QED
    BY <2>1, <2>2, <2>3 DEF FlightOf
<1>14. ASSUME NEW th \in Threads, Check(th) \/ Load(th) \/ Store(th)
       PROVE  CountMoves(s)
  <2>1. PICK r \in rec[th] : EntryOf(th, r)
    BY <1>14, EntryFacts
  <2>2. r \in Record /\ r.owner \in Sessions /\ UNCHANGED registryVars
    BY <2>1 DEF EntryOf, Record
  <2>3. Lost(s)' = Lost(s) /\ Mine(s)' = Mine(s)
    BY <1>b, <2>2 DEF SameOwners, SameLosses, Lost, Mine
  <2>4. ASSUME NEW q, q.event = r.event, q.owner = r.owner, rec' = [rec EXCEPT ![th] = {q}], UNCHANGED owned
        PROVE  CountStays(s)
    <3>1. SameWork(s)
      BY <2>4, WorkGoesOn
    <3>2. QED
      BY <2>3, <2>4, <3>1 DEF CountStays
  <2>5. CASE rec' = [rec EXCEPT ![th] = {}] /\ Spoil({r.owner}) /\ UNCHANGED owned
    <3>1. r.owner # s
      BY <2>5, CountedBefore
    <3>2. SameWork(s)
      BY <2>5, <3>1, WorkEnds
    <3>3. QED
      BY <2>3, <2>5, <3>2 DEF CountStays
  <2>6. CASE /\ r.step = "store" /\ rec' = [rec EXCEPT ![th] = {}]
             /\ owned' = [owned EXCEPT ![r.owner] =
                            IF r.event = "claimed" THEN (r.val + 1) % 2^Width
                                                   ELSE (r.val + 2^Width - 1) % 2^Width]
    <3>1. r.event \in {"claimed", "released", "evicted"}
      BY <2>6 DEF CallsFit, CallFits, OnEntry
    <3>2. CASE r.owner # s
      <4>1. SameWork(s)
        BY <2>6, <3>2, WorkEnds
      <4>2. owned'[s] = owned[s]
        BY <2>6, <3>2 DEF DataOK
      <4>3. QED
        BY <2>3, <4>1, <4>2 DEF CountStays
    <3>3. CASE r.owner = s /\ r.event = "claimed"
      <4>1. th \in Claiming(s) /\ Claiming(s)' = Claiming(s) \ {th} /\ Leaving(s)' = Leaving(s)
        BY <2>6, <3>3, WorkEnds
      <4>2. owned'[s] = (owned[s] + 1) % 2^Width
        BY <2>6, <3>3 DEF DataOK, ValueFits
      <4>3. QED
        BY <2>3, <4>1, <4>2 DEF CountGoesUp
    <3>4. CASE r.owner = s /\ r.event \in {"released", "evicted"}
      <4>1. th \in Leaving(s) /\ Leaving(s)' = Leaving(s) \ {th} /\ Claiming(s)' = Claiming(s)
        BY <2>6, <3>4, WorkEnds
      <4>2. r.event # "claimed" /\ r.val = owned[s] /\ owned[s] > 0
        BY <2>6, <3>4 DEF ValueFits
      <4>3. owned'[s] = (owned[s] + 2^Width - 1) % 2^Width
        BY <2>6, <3>4, <4>2 DEF DataOK
      <4>4. owned[s] \in 0..(2^Width - 1)
        BY DEF DataOK
      <4>5. owned'[s] = owned[s] - 1
        BY <4>2, <4>3, <4>4, Modulus, ModuloFacts
      <4>6. QED
        BY <2>3, <4>1, <4>2, <4>5 DEF CountGoesDown
    <3>5. QED
      BY <3>1, <3>2, <3>3, <3>4
  <2>7. QED
    BY <2>1, <2>4, <2>5, <2>6 DEF EntryOf
<1>15. QED
  BY <1>1, <1>2, <1>3, <1>5, <1>6, <1>7, <1>8, <1>9, <1>10, <1>11, <1>12, <1>13, <1>14 DEF Next

LEMMA ClaimsAreCounted == DataOK /\ [Next]_vars => totalClaims <= totalClaims'
<1> SUFFICES ASSUME DataOK, [Next]_vars PROVE totalClaims <= totalClaims'
  OBVIOUS
<1>1. totalClaims \in Nat
  BY DEF DataOK
<1>2. UNCHANGED totalClaims \/ totalClaims' = totalClaims + 1
  <2>1. \A s \in Sessions : Connect(s) \/ Disconnect(s) \/ Forget(s) => UNCHANGED totalClaims
    BY DEF Connect, Disconnect, Forget
  <2>2. \A s \in Sessions, t \in Tasks :
           Acquire(s, t) \/ Resume(s, t) => UNCHANGED totalClaims \/ totalClaims' = totalClaims + 1
    BY DEF Acquire, Resume, Claimed
  <2>3. \A s \in Sessions, t \in Tasks : Release(s, t) \/ Submit(s, t) => UNCHANGED totalClaims
    BY DEF Release, Submit
  <2>4. \A t \in Tasks : Register(t) \/ LeaseRunsOut(t) => UNCHANGED totalClaims
    BY DEF Register, LeaseRunsOut
  <2>5. \A th \in Threads :
           (\E n \in notices[th] : Fire(th, n)) \/ Flight(th) \/ Check(th) \/ Load(th) \/ Store(th)
           => UNCHANGED totalClaims
    BY DEF Fire, Flight, Check, Load, Store
  <2>6. QED
    BY <2>1, <2>2, <2>3, <2>4, <2>5 DEF Next, Watch, vars
<1>3. QED
  BY <1>1, <1>2

\* The inductive invariant of the count.
CountsFit ==
    totalClaims < 2^Width =>
        \A s \in Sessions : Counted(s) => OneAtATime(s) /\ ValueFits(s) /\ Balanced(s)

LEMMA CountsInit == Init => CountsFit
<1> SUFFICES ASSUME Init, NEW s \in Sessions
             PROVE  OneAtATime(s) /\ ValueFits(s) /\ Balanced(s)
  BY DEF CountsFit
<1>1. OneAtATime(s) /\ ValueFits(s)
  BY DEF Init, OneAtATime, ValueFits
<1>2. Claiming(s) = {} /\ Leaving(s) = {}
  BY DEF Init, Claiming, Leaving
<1>3. Lost(s) = {}
  BY ThreadFacts DEF Init, R!Init, R!Threads, Lost, LostOf
<1>4. Mine(s) = {}
  BY DEF Init, R!Init, R!Free, Mine
<1>5. owned[s] = 0 /\ totalClaims = 0
  BY DEF Init
<1>6. QED
  BY <1>1, <1>2, <1>3, <1>4, <1>5, FS_EmptySet DEF Balanced

LEMMA CountsStep == CallsOK /\ CountsFit /\ [Next]_vars => CountsFit'
<1> SUFFICES ASSUME CallsOK, CountsFit, [Next]_vars, totalClaims' < 2^Width,
                    NEW s \in Sessions, Counted(s)'
             PROVE  OneAtATime(s)' /\ ValueFits(s)' /\ Balanced(s)'
  BY DEF CountsFit
<1>1. DataOK /\ DataOK'
  BY CallsStep DEF CallsOK
<1>2. totalClaims \in Nat /\ totalClaims' \in Nat /\ totalClaims <= totalClaims'
  BY <1>1, ClaimsAreCounted DEF DataOK
<1>3. OneAtATime(s) /\ ValueFits(s) /\ Balanced(s)
  <2>1. totalClaims < 2^Width
    BY <1>2, Modulus
  <2>2. QED
    BY <2>1, CountedBefore DEF CountsFit
<1>4. OneAtATime(s)' /\ ValueFits(s)'
  BY <1>3, OneAtATimeStep, ValueStep
<1>5. CountMoves(s)
  BY <1>3, CountStep
<1>6. QED
  BY <1>1, <1>2, <1>3, <1>4, <1>5, BalanceKept DEF CountMoves

\* When nothing about s is still to be recorded, its count is what it owns.
LEMMA SettledIsExact == CallsOK /\ CountsFit => (totalClaims < 2^Width => OwnedIsExact)
<1> SUFFICES ASSUME CallsOK, CountsFit, totalClaims < 2^Width,
                    NEW s \in Sessions, phase[s] = "open", Settled(s), s \notin disturbed
             PROVE  owned[s] = Cardinality(R!OwnedTasks(s))
  BY DEF OwnedIsExact
<1>1. Balanced(s)
  BY DEF CountsFit, Counted
<1>2. Claiming(s) = {} /\ Leaving(s) = {} /\ Lost(s) = {}
  BY DEF Settled, Claiming, Leaving, Lost, LostOf
<1>3. R!OwnedTasks(s) = Mine(s)
  BY OwnedTasksFacts DEF CallsOK, Mine
<1>4. owned[s] \in Nat /\ Cardinality(Mine(s)) \in Nat
  BY <1>1, Modulus, FS_CardinalityType DEF CallsOK, DataOK, Balanced
<1>5. QED
  BY <1>1, <1>2, <1>3, <1>4, FS_EmptySet DEF Balanced

\* The current_owned of a session that is there and whose count was not spoilt
\* is the number of tasks it owns, whenever nothing about it is still to be
\* recorded, as long as fewer tasks have been claimed than the counter has
\* values (metrics.go:92-94, 166-169, 188-192, 241-243).
THEOREM CountIsExact == Spec => [](totalClaims < 2^Width => OwnedIsExact)
<1>1. Spec => []CallsOK
  BY CallsHold, PTL DEF CallsOK
<1>2. Spec => []CountsFit
  BY <1>1, CountsInit, CountsStep, PTL DEF Spec
<1>3. QED
  BY <1>1, <1>2, SettledIsExact, PTL

=============================================================================
