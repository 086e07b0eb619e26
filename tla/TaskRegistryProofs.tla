-------------------------- MODULE TaskRegistryProofs --------------------------
(***************************************************************************)
(* Proofs about the task registry, for any sets of tasks, owners and       *)
(* calling goroutines.                                                     *)
(***************************************************************************)
EXTENDS TaskRegistryProps, TLAPS

USE RegistryAssumption

-----------------------------------------------------------------------------
(* What the pieces of the critical sections do to the types *)

LEMMA FreeIsTask ==
    ASSUME NEW s \in {"absent", "available", "owned", "completed"}
    PROVE  Free(s) \in Task
BY DEF Free, Task

LEMMA OwnedIsTask ==
    ASSUME NEW o \in Owners
    PROVE  OwnedBy(o) \in Task
BY DEF OwnedBy, Task

LEMMA MakeAvailableTypes ==
    ASSUME TypeOK,
           NEW th \in Threads,
           NEW S \in SUBSET Tasks,
           NEW reason \in {"registered", "released", "lease_expired", "disconnected"},
           NEW kinds \in (SUBSET Kinds) \ {{}},
           MakeAvailable(th, S, reason, kinds)
    PROVE  /\ task' \in [Tasks -> Task]
           /\ notices' \in [Threads -> SUBSET Notice]
           /\ announced' \in SUBSET Tasks
<1>1. task' \in [Tasks -> Task]
  <2>1. Free("available") \in Task
    BY FreeIsTask
  <2>2. QED
    BY <2>1 DEF MakeAvailable, TypeOK
<1>2. notices' \in [Threads -> SUBSET Notice]
  <2>1. ASSUME NEW t \in S
        PROVE  [task |-> t, owner |-> task[t].owner,
                reason |-> reason, left |-> kinds] \in Notice
    BY DEF TypeOK, Task, Notice
  <2>2. {[task |-> t, owner |-> task[t].owner,
          reason |-> reason, left |-> kinds] : t \in S} \in SUBSET Notice
    BY <2>1
  <2>3. QED
    BY <2>2 DEF MakeAvailable, TypeOK
<1>3. announced' \in SUBSET Tasks
  BY DEF MakeAvailable, TypeOK
<1>4. QED
  BY <1>1, <1>2, <1>3

LEMMA FireTypes ==
    ASSUME TypeOK, NEW th \in Threads, NEW n \in notices[th], Fire(th, n)
    PROVE  TypeOK'
<1> DEFINE k    == NextKind(n)
           rest == [n EXCEPT !.left = @ \ {k}]
<1>1. n \in Notice
  BY DEF TypeOK
<1>2. rest.left # {} => rest \in Notice
  BY <1>1 DEF Notice
<1>3. notices' \in [Threads -> SUBSET Notice]
  BY <1>2 DEF Fire, TypeOK
<1>4. announced' \in SUBSET Tasks
  BY <1>1 DEF Fire, TypeOK, Notice
<1>5. QED
  BY <1>3, <1>4 DEF Fire, TypeOK

-----------------------------------------------------------------------------
(* Type correctness *)

\* The registry's data keep their types, for any number of tasks, owners and
\* goroutines: every method and every handler call preserves them.
THEOREM TypeCorrect == Spec => []TypeOK
<1>1. Init => TypeOK
  BY FreeIsTask DEF Init, TypeOK
<1>2. TypeOK /\ [Next]_vars => TypeOK'
  <2> SUFFICES ASSUME TypeOK, [Next]_vars
               PROVE  TypeOK'
    OBVIOUS
  <2>0. Watcher \in Threads /\ Callers \subseteq Threads
    BY DEF Threads
  <2>1. ASSUME NEW th \in Callers, NEW t \in Tasks, Register(th, t)
        PROVE  TypeOK'
    <3>1. MakeAvailable(th, {t}, "registered", {"available"})
      BY <2>1 DEF Register
    <3>2. QED
      BY <2>0, <2>1, <3>1, MakeAvailableTypes DEF Register, TypeOK, Kinds
  <2>2. ASSUME NEW th \in Callers, NEW t \in Tasks, NEW o \in Owners,
               AcquireFree(th, t, o)
        PROVE  TypeOK'
    BY <2>2, OwnedIsTask DEF AcquireFree, Grant, TypeOK
  <2>3. ASSUME NEW th \in Callers, NEW t \in Tasks, NEW o \in Owners,
               AcquireExpired(th, t, o)
        PROVE  TypeOK'
    <3>1. MakeAvailable(th, {t}, "lease_expired", Kinds)
      BY <2>3 DEF AcquireExpired
    <3>2. /\ claim' \in [Threads -> SUBSET (Tasks \X Owners)]
          /\ watching' \in BOOLEAN
      BY <2>0, <2>3 DEF AcquireExpired, TypeOK
    <3>3. QED
      BY <2>0, <3>1, <3>2, MakeAvailableTypes DEF TypeOK, Kinds
  <2>4. ASSUME NEW th \in Callers, NEW t \in Tasks, NEW o \in Owners,
               Release(th, t, o)
        PROVE  TypeOK'
    <3>1. MakeAvailable(th, {t}, "released", {"available"})
      BY <2>4 DEF Release
    <3>2. QED
      BY <2>0, <2>4, <3>1, MakeAvailableTypes DEF Release, TypeOK, Kinds
  <2>5. ASSUME NEW th \in Callers, NEW t \in Tasks, NEW o \in Owners,
               MarkCompleted(th, t, o)
        PROVE  TypeOK'
    BY <2>5, FreeIsTask DEF MarkCompleted, TypeOK
  <2>6. ASSUME NEW th \in Callers, NEW o \in Owners, ReleaseAll(th, o)
        PROVE  TypeOK'
    <3>1. MakeAvailable(th, OwnedTasks(o), "disconnected", Kinds)
      BY <2>6 DEF ReleaseAll
    <3>2. OwnedTasks(o) \in SUBSET Tasks
      BY DEF OwnedTasks
    <3>3. QED
      BY <2>0, <2>6, <3>1, <3>2, MakeAvailableTypes DEF ReleaseAll, TypeOK, Kinds
  <2>7. ASSUME NEW th \in Threads, NEW n \in notices[th], Fire(th, n)
        PROVE  TypeOK'
    BY <2>7, FireTypes
  <2>8. ASSUME NEW th \in Threads, NEW t \in Tasks, NEW o \in Owners,
               AcquireResume(th, t, o)
        PROVE  TypeOK'
    <3>1. task' \in [Tasks -> Task]
      BY <2>8, OwnedIsTask DEF AcquireResume, Grant, TypeOK
    <3>2. QED
      BY <2>8, <3>1 DEF AcquireResume, Grant, TypeOK
  <2>9. CASE EvictExpired
    <3>1. {t \in Tasks : Expired(t)} \in SUBSET Tasks
      OBVIOUS
    <3>2. QED
      BY <2>0, <2>9, <3>1, MakeAvailableTypes DEF EvictExpired, TypeOK, Kinds
  <2>10. ASSUME NEW t \in Tasks, LeaseRunsOut(t)
         PROVE  TypeOK'
    BY <2>10 DEF LeaseRunsOut, TypeOK, Task
  <2>11. CASE Close
    BY <2>11 DEF Close, TypeOK
  <2>12. CASE UNCHANGED vars
    BY <2>12 DEF vars, TypeOK
  <2>13. QED
    BY <2>1, <2>2, <2>3, <2>4, <2>5, <2>6, <2>7, <2>8, <2>9, <2>10, <2>11, <2>12
       DEF Next, Call, Proceed
<1>3. QED
  BY <1>1, <1>2, PTL DEF Spec

-----------------------------------------------------------------------------
(* Ownership *)

\* A task's three ownership fields never disagree, for any number of tasks,
\* owners and goroutines.  Every method that writes one of OwnerID, Status and
\* LeaseUntil writes all three in the same critical section (task.go:162-165,
\* 191-197, 213-216, 230-236, 273-275, 303-307).
THEOREM Coherence == Spec => []OwnershipCoherent
<1>1. Init => OwnershipCoherent
  <2> SUFFICES ASSUME Init, NEW t \in Tasks
               PROVE  /\ task[t].owner = NoOwner
                      /\ task[t].lease = "zero"
                      /\ task[t].status = "absent"
    BY DEF OwnershipCoherent
  <2> QED
    BY DEF Init, Free
<1>2. TypeOK /\ OwnershipCoherent /\ [Next]_vars => OwnershipCoherent'
  <2> SUFFICES ASSUME TypeOK, OwnershipCoherent, [Next]_vars
               PROVE  OwnershipCoherent'
    OBVIOUS
  <2>1. ASSUME NEW th, NEW S, NEW reason, NEW kinds,
               MakeAvailable(th, S, reason, kinds)
        PROVE  OwnershipCoherent'
    BY <2>1 DEF MakeAvailable, Free, OwnershipCoherent
  <2>2. ASSUME NEW t \in Tasks, NEW o \in Owners, Grant(t, o)
        PROVE  OwnershipCoherent'
    BY <2>2 DEF Grant, OwnedBy, OwnershipCoherent, TypeOK
  <2>3. ASSUME NEW th, NEW t \in Tasks, NEW o \in Owners,
               MarkCompleted(th, t, o)
        PROVE  OwnershipCoherent'
    BY <2>3 DEF MarkCompleted, Free, OwnershipCoherent, TypeOK
  <2>4. ASSUME NEW th, NEW n, Fire(th, n)
        PROVE  OwnershipCoherent'
    BY <2>4 DEF Fire, OwnershipCoherent
  <2>5. ASSUME NEW t \in Tasks, LeaseRunsOut(t)
        PROVE  OwnershipCoherent'
    BY <2>5 DEF LeaseRunsOut, OwnershipCoherent, TypeOK, Task
  <2>6. CASE Close \/ UNCHANGED vars
    BY <2>6 DEF Close, vars, OwnershipCoherent
  <2>7. QED
    BY <2>1, <2>2, <2>3, <2>4, <2>5, <2>6
       DEF Next, Call, Proceed, Register, AcquireFree, AcquireExpired,
           AcquireResume, Release, ReleaseAll, EvictExpired
<1>3. QED
  BY <1>1, <1>2, TypeCorrect, PTL DEF Spec

-----------------------------------------------------------------------------
(* Announcements *)

\* Every task that is available was announced, or a thread is still about to
\* announce it: fireAvailable follows every critical section that makes a task
\* available, in whatever order the threads run.
THEOREM Announcement == Spec => []AvailableIsAnnounced
<1> DEFINE Owes(t) == \E th \in Threads : \E n \in notices[th] :
                         n.task = t /\ "available" \in n.left
<1>1. Init => AvailableIsAnnounced
  BY DEF Init, Free, AvailableIsAnnounced
<1>2. TypeOK /\ AvailableIsAnnounced /\ [Next]_vars => AvailableIsAnnounced'
  <2> SUFFICES ASSUME TypeOK, AvailableIsAnnounced, [Next]_vars
               PROVE  AvailableIsAnnounced'
    OBVIOUS
  <2>1. ASSUME NEW th \in Threads, NEW S \in SUBSET Tasks, NEW reason, NEW kinds,
               MakeAvailable(th, S, reason, kinds), notices[th] = {},
               "available" \in kinds
        PROVE  AvailableIsAnnounced'
    <3> SUFFICES ASSUME NEW t \in Tasks, task'[t].status = "available"
                 PROVE  t \in announced' \/ Owes(t)'
      BY DEF AvailableIsAnnounced
    <3>1. CASE t \in S
      <4> DEFINE m == [task |-> t, owner |-> task[t].owner,
                       reason |-> reason, left |-> kinds]
      <4>1. m \in notices'[th]
        BY <2>1, <3>1 DEF MakeAvailable, TypeOK
      <4>2. m.task = t /\ "available" \in m.left
        BY <2>1
      <4>3. QED
        BY <4>1, <4>2
    <3>2. CASE t \notin S
      <4>1. task[t].status = "available"
        BY <2>1, <3>2 DEF MakeAvailable
      <4>2. t \in announced => t \in announced'
        BY <2>1, <3>2 DEF MakeAvailable
      <4>3. \A u \in Threads : notices[u] # {} => notices'[u] = notices[u]
        BY <2>1 DEF MakeAvailable, TypeOK
      <4>4. QED
        BY <4>1, <4>2, <4>3 DEF AvailableIsAnnounced
    <3>3. QED
      BY <3>1, <3>2
  <2>2. ASSUME NEW t \in Tasks, NEW o, Grant(t, o), UNCHANGED notices
        PROVE  AvailableIsAnnounced'
    BY <2>2 DEF Grant, OwnedBy, AvailableIsAnnounced, TypeOK
  <2>3. ASSUME NEW th, NEW t \in Tasks, NEW o, MarkCompleted(th, t, o)
        PROVE  AvailableIsAnnounced'
    BY <2>3 DEF MarkCompleted, Free, AvailableIsAnnounced, TypeOK
  <2>4. ASSUME NEW th \in Threads, NEW n \in notices[th], Fire(th, n)
        PROVE  AvailableIsAnnounced'
    <3> DEFINE k    == NextKind(n)
               rest == [n EXCEPT !.left = @ \ {k}]
    <3>0. n \in Notice
      BY DEF TypeOK
    <3> SUFFICES ASSUME NEW t \in Tasks, task[t].status = "available"
                 PROVE  t \in announced' \/ Owes(t)'
      BY <2>4 DEF Fire, AvailableIsAnnounced
    <3>1. CASE t \in announced
      BY <2>4, <3>1 DEF Fire
    <3>2. ASSUME NEW u \in Threads, NEW m \in notices[u],
                 m.task = t, "available" \in m.left
          PROVE  t \in announced' \/ Owes(t)'
      <4>1. CASE u # th \/ m # n
        <5>1. m \in notices'[u]
          BY <2>4, <4>1 DEF Fire, TypeOK
        <5>2. QED
          BY <3>2, <5>1
      <4>2. CASE u = th /\ m = n /\ k = "available"
        BY <2>4, <3>2, <4>2 DEF Fire
      <4>3. CASE u = th /\ m = n /\ k # "available"
        <5>1. "available" \in rest.left /\ rest.task = t
          BY <3>0, <3>2, <4>3 DEF Notice
        <5>2. rest \in notices'[th]
          BY <2>4, <5>1 DEF Fire, TypeOK
        <5>3. QED
          BY <5>1, <5>2
      <4>4. QED
        BY <4>1, <4>2, <4>3
    <3>3. QED
      BY <3>1, <3>2 DEF AvailableIsAnnounced
  <2>5. ASSUME NEW t \in Tasks, LeaseRunsOut(t)
        PROVE  AvailableIsAnnounced'
    BY <2>5 DEF LeaseRunsOut, AvailableIsAnnounced, TypeOK, Task
  <2>6. CASE Close \/ UNCHANGED vars
    BY <2>6 DEF Close, vars, AvailableIsAnnounced
  <2>7. ASSUME NEW th \in Callers, Call(th)
        PROVE  AvailableIsAnnounced'
    <3>1. th \in Threads /\ \A o \in Owners : OwnedTasks(o) \in SUBSET Tasks
      BY DEF Threads, OwnedTasks
    <3>2. QED
      BY <2>1, <2>2, <2>3, <2>7, <3>1
         DEF Call, Idle, Register, AcquireFree, AcquireExpired, Release,
             ReleaseAll, Kinds
  <2>8. ASSUME NEW th \in Threads, Proceed(th)
        PROVE  AvailableIsAnnounced'
    BY <2>2, <2>4, <2>8 DEF Proceed, AcquireResume
  <2>9. CASE EvictExpired
    <3>1. Watcher \in Threads /\ {t \in Tasks : Expired(t)} \in SUBSET Tasks
      BY DEF Threads
    <3>2. QED
      BY <2>1, <2>9, <3>1 DEF EvictExpired, Idle, Kinds
  <2>10. QED
    BY <2>5, <2>6, <2>7, <2>8, <2>9 DEF Next
<1>3. QED
  BY <1>1, <1>2, TypeCorrect, PTL DEF Spec

-----------------------------------------------------------------------------
(* Refinement *)

\* What a thread has still to do determines what it owes: it is inside one
\* Acquire at most, has one notice of a task, and a "lost" event left for an
\* owner only.
DebtsFit ==
    \A th \in Threads :
        /\ \A c, d \in claim[th] : c = d
        /\ \A m, n \in notices[th] : m.task = n.task => m = n
        /\ \A n \in notices[th] : "lost" \in n.left => n.owner \in Owners

LEMMA MakeAvailableDebts ==
    ASSUME TypeOK, OwnershipCoherent, DebtsFit,
           NEW th \in Threads, NEW S \in SUBSET Tasks, NEW reason, NEW kinds,
           MakeAvailable(th, S, reason, kinds), notices[th] = {},
           "lost" \in kinds => \A t \in S : task[t].status = "owned"
    PROVE  \A u \in Threads :
              /\ \A m, n \in notices'[u] : m.task = n.task => m = n
              /\ \A n \in notices'[u] : "lost" \in n.left => n.owner \in Owners
<1> SUFFICES ASSUME NEW u \in Threads
             PROVE  /\ \A m, n \in notices'[u] : m.task = n.task => m = n
                    /\ \A n \in notices'[u] : "lost" \in n.left => n.owner \in Owners
  OBVIOUS
<1>1. CASE u = th
  <2>1. notices'[u] = {[task |-> t, owner |-> task[t].owner,
                        reason |-> reason, left |-> kinds] : t \in S}
    BY <1>1 DEF MakeAvailable, TypeOK
  <2>2. \A t \in S : "lost" \in kinds => task[t].owner \in Owners
    BY DEF OwnershipCoherent, TypeOK, Task
  <2>3. QED
    BY <2>1, <2>2
<1>2. CASE u # th
  BY <1>2 DEF MakeAvailable, TypeOK, DebtsFit
<1>3. QED
  BY <1>1, <1>2

LEMMA FireDebts ==
    ASSUME TypeOK, DebtsFit, NEW th \in Threads, NEW n \in notices[th], Fire(th, n)
    PROVE  DebtsFit'
<1> DEFINE k    == NextKind(n)
           rest == [n EXCEPT !.left = @ \ {k}]
<1>1. n \in Notice
  BY DEF TypeOK
<1>2. rest.task = n.task /\ rest.owner = n.owner /\ rest.left \subseteq n.left
  BY <1>1 DEF Notice
<1>3. /\ claim' = claim
      /\ notices'[th] \subseteq (notices[th] \ {n}) \cup {rest}
      /\ \A u \in Threads \ {th} : notices'[u] = notices[u]
  BY DEF Fire, TypeOK
<1> HIDE DEF rest
<1>4. \A m, p \in notices'[th] : m.task = p.task => m = p
  BY <1>2, <1>3 DEF DebtsFit
<1>5. \A p \in notices'[th] : "lost" \in p.left => p.owner \in Owners
  BY <1>2, <1>3 DEF DebtsFit
<1>6. QED
  BY <1>3, <1>4, <1>5 DEF DebtsFit

LEMMA Debts == Spec => []DebtsFit
<1>1. Init => DebtsFit
  BY DEF Init, DebtsFit
<1>2. TypeOK /\ OwnershipCoherent /\ DebtsFit /\ [Next]_vars => DebtsFit'
  <2> SUFFICES ASSUME TypeOK, OwnershipCoherent, DebtsFit, [Next]_vars
               PROVE  DebtsFit'
    OBVIOUS
  <2>0. /\ Watcher \in Threads /\ Callers \subseteq Threads
        /\ \A o \in Owners : OwnedTasks(o) \in SUBSET Tasks
        /\ {t \in Tasks : Expired(t)} \in SUBSET Tasks
        /\ \A t \in Tasks : {t} \in SUBSET Tasks
    BY DEF Threads, OwnedTasks
  <2>1. ASSUME NEW th \in Threads, NEW S \in SUBSET Tasks, NEW reason, NEW kinds,
               MakeAvailable(th, S, reason, kinds), notices[th] = {},
               "lost" \in kinds => \A t \in S : task[t].status = "owned",
               UNCHANGED claim
        PROVE  DebtsFit'
    BY <2>1, MakeAvailableDebts DEF DebtsFit
  <2>2. ASSUME NEW th \in Callers, Call(th)
        PROVE  DebtsFit'
    <3>1. ASSUME NEW t \in Tasks, Register(th, t)
          PROVE  DebtsFit'
      BY <2>0, <2>1, <3>1 DEF Register, Idle
    <3>2. ASSUME NEW t \in Tasks, NEW o \in Owners, Release(th, t, o)
          PROVE  DebtsFit'
      BY <2>0, <2>1, <3>2 DEF Release, Idle
    <3>3. ASSUME NEW o \in Owners, ReleaseAll(th, o)
          PROVE  DebtsFit'
      <4>1. \A t \in OwnedTasks(o) : task[t].status = "owned"
        BY DEF OwnedTasks
      <4>2. QED
        BY <2>0, <2>1, <3>3, <4>1 DEF ReleaseAll, Idle
    <3>4. ASSUME NEW t \in Tasks, NEW o \in Owners, AcquireExpired(th, t, o)
          PROVE  DebtsFit'
      <4>1. /\ MakeAvailable(th, {t}, "lease_expired", Kinds)
            /\ notices[th] = {}
            /\ task[t].status = "owned"
            /\ claim' = [claim EXCEPT ![th] = {<<t, o>>}]
        BY <3>4 DEF AcquireExpired, Idle, Expired
      <4>2. \A u \in Threads :
               /\ \A m, n \in notices'[u] : m.task = n.task => m = n
               /\ \A n \in notices'[u] : "lost" \in n.left => n.owner \in Owners
        BY <2>0, <4>1, MakeAvailableDebts
      <4>3. \A u \in Threads : \A c, d \in claim'[u] : c = d
        BY <4>1 DEF DebtsFit, TypeOK
      <4>4. QED
        BY <4>2, <4>3 DEF DebtsFit
    <3>5. ASSUME NEW t \in Tasks, NEW o \in Owners,
                 AcquireFree(th, t, o) \/ MarkCompleted(th, t, o)
          PROVE  DebtsFit'
      BY <3>5 DEF AcquireFree, MarkCompleted, DebtsFit
    <3>6. QED
      BY <2>2, <3>1, <3>2, <3>3, <3>4, <3>5 DEF Call
  <2>3. ASSUME NEW th \in Threads, Proceed(th)
        PROVE  DebtsFit'
    <3>1. ASSUME NEW t \in Tasks, NEW o \in Owners, AcquireResume(th, t, o)
          PROVE  DebtsFit'
      BY <3>1 DEF AcquireResume, DebtsFit, TypeOK
    <3>2. QED
      BY <2>3, <3>1, FireDebts DEF Proceed
  <2>4. CASE EvictExpired
    <3>1. \A t \in {u \in Tasks : Expired(u)} : task[t].status = "owned"
      BY DEF Expired
    <3>2. QED
      BY <2>0, <2>1, <2>4, <3>1 DEF EvictExpired, Idle
  <2>5. CASE Close \/ UNCHANGED vars \/ \E t \in Tasks : LeaseRunsOut(t)
    BY <2>5 DEF Close, vars, LeaseRunsOut, DebtsFit
  <2>6. QED
    BY <2>2, <2>3, <2>4, <2>5 DEF Next
<1>3. QED
  BY <1>1, <1>2, TypeCorrect, Coherence, PTL DEF Spec

-----------------------------------------------------------------------------

Holder == [t \in Tasks |-> task[t].owner]
RanOut == {t \in Tasks : task[t].lease = "expired"}

LEMMA InOwed ==
    \A x : x \in owedNow <=>
        \E th \in Threads : \E n \in notices[th] :
            "lost" \in n.left /\ x = <<th, n.owner, n.task>>
BY DEF owedNow

LEMMA InClaims ==
    \A x : x \in claimsNow <=>
        \E th \in Threads : \E c \in claim[th] : x = <<th, c[1], c[2]>>
BY DEF claimsNow

\* The tasks of S are taken away from their holders.
LEMMA MakeAvailableTakesAway ==
    ASSUME TypeOK, NEW th \in Threads, NEW S \in SUBSET Tasks, NEW reason,
           MakeAvailable(th, S, reason, Kinds), notices[th] = {}
    PROVE  Lease!TakeAway(th, S)
<1>1. Holder' = [t \in Tasks |-> IF t \in S THEN NoOwner ELSE Holder[t]]
  BY DEF MakeAvailable, Free, Holder
<1>2. RanOut' = RanOut \ S
  BY DEF MakeAvailable, Free, RanOut
<1>3. owedNow' = owedNow \cup {<<th, Holder[t], t>> : t \in S}
  <2>1. notices'[th] = {[task |-> t, owner |-> task[t].owner,
                         reason |-> reason, left |-> Kinds] : t \in S}
    BY DEF MakeAvailable, TypeOK
  <2>2. \A u \in Threads \ {th} : notices'[u] = notices[u]
    BY DEF MakeAvailable, TypeOK
  <2>3. ASSUME NEW x
        PROVE  x \in owedNow' <=> x \in owedNow \/ \E t \in S : x = <<th, task[t].owner, t>>
    <3>1. x \in owedNow' <=> \E u \in Threads : \E n \in notices'[u] :
                                "lost" \in n.left /\ x = <<u, n.owner, n.task>>
      BY DEF owedNow
    <3>2. x \in owedNow <=> \E u \in Threads \ {th} : \E n \in notices[u] :
                               "lost" \in n.left /\ x = <<u, n.owner, n.task>>
      BY InOwed
    <3>3. (\E t \in S : x = <<th, task[t].owner, t>>) <=>
             \E n \in notices'[th] : "lost" \in n.left /\ x = <<th, n.owner, n.task>>
      <4>1. \A n \in notices'[th] : \E t \in S :
               n.owner = task[t].owner /\ n.task = t /\ "lost" \in n.left
        BY <2>1 DEF Kinds
      <4>2. \A t \in S : \E n \in notices'[th] :
               n.owner = task[t].owner /\ n.task = t /\ "lost" \in n.left
        <5> TAKE t \in S
        <5> DEFINE n == [task |-> t, owner |-> task[t].owner, reason |-> reason, left |-> Kinds]
        <5>1. n \in notices'[th] /\ n.owner = task[t].owner /\ n.task = t /\ n.left = Kinds
          BY <2>1
        <5>2. QED
          BY <5>1 DEF Kinds
      <4>3. QED
        BY <4>1, <4>2
    <3>4. QED
      BY <2>2, <3>1, <3>2, <3>3
  <2>4. \A t \in S : Holder[t] = task[t].owner
    BY DEF Holder
  <2>5. QED
    BY <2>3, <2>4
<1>4. QED
  BY <1>1, <1>2, <1>3 DEF Lease!TakeAway, Holder, RanOut

\* Where nobody is to be told of a loss, nothing is owed.
LEMMA MakeAvailableOwesNothing ==
    ASSUME TypeOK, NEW th \in Threads, NEW S \in SUBSET Tasks, NEW reason,
           MakeAvailable(th, S, reason, {"available"}), notices[th] = {}
    PROVE  owedNow' = owedNow
<1>1. \A n \in notices'[th] : n.left = {"available"}
  BY DEF MakeAvailable, TypeOK
<1>2. \A u \in Threads \ {th} : notices'[u] = notices[u]
  BY DEF MakeAvailable, TypeOK
<1>3. ASSUME NEW x
      PROVE  x \in owedNow' <=> x \in owedNow
  <2>1. x \in owedNow' <=> \E u \in Threads : \E n \in notices'[u] :
                              "lost" \in n.left /\ x = <<u, n.owner, n.task>>
    BY DEF owedNow
  <2>2. QED
    BY <1>1, <1>2, <2>1, InOwed
<1>4. QED
  BY <1>3

\* A handler call delivers a notice that is owed, or is of no concern to owners.
LEMMA FireNotifies ==
    ASSUME TypeOK, DebtsFit, NEW th \in Threads, NEW n \in notices[th], Fire(th, n)
    PROVE  \/ owedNow' = owedNow
           \/ /\ n.owner \in Owners /\ n.task \in Tasks
              /\ <<th, n.owner, n.task>> \in owedNow
              /\ owedNow' = owedNow \ {<<th, n.owner, n.task>>}
<1> DEFINE k    == NextKind(n)
           rest == [n EXCEPT !.left = @ \ {k}]
<1>1. n \in Notice
  BY DEF TypeOK
<1>2. k \in n.left /\ k \in Kinds
  <2>1. n.left \subseteq Kinds /\ n.left # {}
    BY <1>1 DEF Notice
  <2>2. CASE n.left = Kinds
    BY <2>2 DEF NextKind, Kinds
  <2>3. CASE n.left # Kinds
    <3>1. \E x \in Kinds : x \in n.left
      BY <2>1
    <3>2. QED
      BY <2>3, <3>1 DEF NextKind
  <2>4. QED
    BY <2>2, <2>3
<1>3. rest.task = n.task /\ rest.owner = n.owner /\ rest.left = n.left \ {k}
  BY <1>1 DEF Notice
<1>4. /\ notices'[th] = (notices[th] \ {n}) \cup (IF rest.left = {} THEN {} ELSE {rest})
      /\ \A u \in Threads \ {th} : notices'[u] = notices[u]
  BY DEF Fire, TypeOK
<1> HIDE DEF k, rest
<1>5. ASSUME NEW x
      PROVE  x \in owedNow' <=> \E u \in Threads : \E m \in notices'[u] :
                                   "lost" \in m.left /\ x = <<u, m.owner, m.task>>
  BY DEF owedNow
<1>6. CASE k = "lost"
  <2>1. n.owner \in Owners /\ n.task \in Tasks /\ <<th, n.owner, n.task>> \in owedNow
    BY <1>1, <1>2, <1>6, InOwed DEF DebtsFit, Notice
  <2>2. ASSUME NEW x
        PROVE  x \in owedNow' <=> x \in owedNow /\ x # <<th, n.owner, n.task>>
    <3>1. ASSUME NEW u \in Threads, NEW m \in notices'[u], "lost" \in m.left
          PROVE  m \in notices[u] /\ (u # th \/ m.task # n.task)
      <4>1. m # rest
        BY <1>3, <1>6, <3>1
      <4>2. m \in notices[u] /\ (u # th \/ m # n)
        BY <1>4, <4>1
      <4>3. QED
        BY <4>2 DEF DebtsFit
    <3>2. ASSUME NEW u \in Threads, NEW m \in notices[u], u # th \/ m # n
          PROVE  m \in notices'[u]
      BY <1>4, <3>2
    <3>3. QED
      BY <1>5, <3>1, <3>2, InOwed
  <2>3. owedNow' = owedNow \ {<<th, n.owner, n.task>>}
    BY <2>2
  <2>4. QED
    BY <2>1, <2>3
<1>7. CASE k # "lost"
  <2>1. ASSUME NEW x
        PROVE  x \in owedNow' <=> x \in owedNow
    <3>1. "lost" \in rest.left <=> "lost" \in n.left
      BY <1>3, <1>7
    <3>2. rest.left # {} => rest \in notices'[th]
      BY <1>4
    <3>3. ASSUME NEW u \in Threads, NEW m \in notices'[u]
          PROVE  m \in notices[u] \/ (u = th /\ m = rest)
      BY <1>4
    <3>4. ASSUME NEW u \in Threads, NEW m \in notices[u]
          PROVE  m \in notices'[u] \/ (u = th /\ m = n)
      BY <1>4
    <3>5. QED
      BY <1>3, <1>5, <3>1, <3>2, <3>3, <3>4, InOwed
  <2>2. QED
    BY <2>1
<1>8. QED
  BY <1>6, <1>7

\* The registry implements the leases it promises, for any sets of tasks, owners
\* and goroutines: whatever the interleaving of calls, evictions and handler
\* calls, an owner loses a task only after its lease ran out or when it
\* disconnects, and is told of it once; the one exception is the Acquire that had
\* evicted an earlier owner and overtakes (task.go:177).
THEOREM Refinement == Spec => ImplementsTaskLease
<1>1. Init => Lease!Init
  <2> SUFFICES ASSUME Init
               PROVE  Lease!Init
    OBVIOUS
  <2>1. Holder = [t \in Tasks |-> NoOwner] /\ RanOut = {}
    BY DEF Init, Free, Holder, RanOut
  <2>2. owedNow = {} /\ claimsNow = {}
    BY InOwed, InClaims DEF Init
  <2>3. QED
    BY <2>1, <2>2 DEF Lease!Init, Holder, RanOut
<1>2. TypeOK /\ OwnershipCoherent /\ DebtsFit /\ [Next]_vars
        => [Lease!Next]_(Lease!leaseVars)
  <2> SUFFICES ASSUME TypeOK, OwnershipCoherent, DebtsFit, [Next]_vars
               PROVE  [Lease!Next]_(Lease!leaseVars)
    OBVIOUS
  <2>0. /\ Watcher \in Threads /\ Callers \subseteq Threads
        /\ \A o \in Owners : OwnedTasks(o) \in SUBSET Tasks
        /\ RanOut \in SUBSET Tasks
        /\ \A t \in Tasks : {t} \in SUBSET Tasks
        /\ RanOut = {t \in Tasks : Expired(t)}
    BY DEF Threads, OwnedTasks, RanOut, Expired, OwnershipCoherent
  <2>1. UNCHANGED <<Holder, RanOut, owedNow, claimsNow>> => UNCHANGED Lease!leaseVars
    BY DEF Lease!leaseVars, Holder, RanOut
  <2>2. UNCHANGED task => UNCHANGED <<Holder, RanOut>>
    BY DEF Holder, RanOut
  <2>3. UNCHANGED notices => owedNow' = owedNow
    BY DEF owedNow
  <2>4. UNCHANGED claim => claimsNow' = claimsNow
    BY DEF claimsNow
  <2>5. ASSUME NEW th \in Callers, Call(th)
        PROVE  [Lease!Next]_(Lease!leaseVars)
    <3>0. th \in Threads
      BY <2>0
    <3>1. ASSUME NEW t \in Tasks, Register(th, t)
          PROVE  [Lease!Next]_(Lease!leaseVars)
      <4>1. MakeAvailable(th, {t}, "registered", {"available"}) /\ notices[th] = {}
        BY <3>1 DEF Register, Idle
      <4>2. owedNow' = owedNow
        BY <2>0, <4>1, MakeAvailableOwesNothing
      <4>3. task[t].owner = NoOwner /\ task[t].lease = "zero"
        BY <3>1 DEF Register, OwnershipCoherent
      <4>4. UNCHANGED <<Holder, RanOut>>
        BY <4>1, <4>3 DEF MakeAvailable, Free, Holder, RanOut
      <4>5. QED
        BY <2>1, <2>4, <3>1, <4>2, <4>4 DEF Register
    <3>2. ASSUME NEW t \in Tasks, NEW o \in Owners, AcquireFree(th, t, o)
          PROVE  [Lease!Next]_(Lease!leaseVars)
      <4>1. /\ Holder[t] = NoOwner /\ t \notin RanOut
            /\ Holder' = [Holder EXCEPT ![t] = o]
            /\ RanOut' = RanOut
        BY <3>2 DEF AcquireFree, Grant, OwnedBy, OwnershipCoherent, TypeOK, Holder, RanOut
      <4>2. Lease!Obtain(t, o)
        BY <2>3, <2>4, <3>2, <4>1 DEF AcquireFree, Lease!Obtain, Holder, RanOut
      <4>3. QED
        BY <4>2 DEF Lease!Next
    <3>3. ASSUME NEW t \in Tasks, NEW o \in Owners, AcquireExpired(th, t, o)
          PROVE  [Lease!Next]_(Lease!leaseVars)
      <4>1. /\ MakeAvailable(th, {t}, "lease_expired", Kinds)
            /\ notices[th] = {} /\ claim[th] = {} /\ t \in RanOut
            /\ claim' = [claim EXCEPT ![th] = {<<t, o>>}]
        BY <2>0, <3>3 DEF AcquireExpired, Idle
      <4>2. Lease!TakeAway(th, {t})
        BY <2>0, <4>1, MakeAvailableTakesAway
      <4>3. claimsNow' = claimsNow \cup {<<th, t, o>>}
        <5>1. ASSUME NEW x
              PROVE  x \in claimsNow' <=> \E u \in Threads : \E c \in claim'[u] : x = <<u, c[1], c[2]>>
          BY DEF claimsNow
        <5>2. /\ claim'[th] = {<<t, o>>}
              /\ \A u \in Threads \ {th} : claim'[u] = claim[u]
          BY <3>0, <4>1 DEF TypeOK
        <5>3. ASSUME NEW x
              PROVE  x \in claimsNow' <=> x \in claimsNow \/ x = <<th, t, o>>
          <6>1. (\E c \in claim'[th] : x = <<th, c[1], c[2]>>) <=> x = <<th, t, o>>
            BY <5>2
          <6>2. x \in claimsNow <=>
                   \E u \in Threads \ {th} : \E c \in claim[u] : x = <<u, c[1], c[2]>>
            BY <4>1, InClaims
          <6>3. x \in claimsNow' <=>
                   \/ \E c \in claim'[th] : x = <<th, c[1], c[2]>>
                   \/ \E u \in Threads \ {th} : \E c \in claim'[u] : x = <<u, c[1], c[2]>>
            BY <3>0, <5>1
          <6>4. QED
            BY <5>2, <6>1, <6>2, <6>3
        <5>4. QED
          BY <5>3
      <4>4. Lease!RevokeAndClaim(th, t, o)
        BY <4>1, <4>2, <4>3 DEF Lease!RevokeAndClaim, RanOut
      <4>5. QED
        BY <3>0, <4>4 DEF Lease!Next
    <3>4. ASSUME NEW t \in Tasks, NEW o \in Owners,
                 Release(th, t, o) \/ MarkCompleted(th, t, o)
          PROVE  [Lease!Next]_(Lease!leaseVars)
      <4>1. Release(th, t, o) => /\ MakeAvailable(th, {t}, "released", {"available"})
                                 /\ notices[th] = {}
        BY DEF Release, Idle
      <4>2. owedNow' = owedNow
        BY <2>0, <2>3, <3>4, <4>1, MakeAvailableOwesNothing DEF MarkCompleted
      <4>3. task[t].owner = o /\ claim' = claim
        BY <3>4 DEF Release, MarkCompleted
      <4>4. /\ \A u \in Tasks : task'[u].owner = IF u = t THEN NoOwner ELSE task[u].owner
            /\ \A u \in Tasks : task'[u].lease = IF u = t THEN "zero" ELSE task[u].lease
        BY <3>4, <4>1 DEF MarkCompleted, MakeAvailable, Free, TypeOK
      <4>5. /\ Holder[t] # NoOwner
            /\ Holder' = [Holder EXCEPT ![t] = NoOwner]
            /\ RanOut' = RanOut \ {t}
        BY <4>3, <4>4 DEF Holder, RanOut
      <4>6. Lease!GiveUp(t)
        BY <2>4, <4>2, <4>3, <4>5 DEF Lease!GiveUp, Holder, RanOut
      <4>7. QED
        BY <4>6 DEF Lease!Next
    <3>5. ASSUME NEW o \in Owners, ReleaseAll(th, o)
          PROVE  [Lease!Next]_(Lease!leaseVars)
      <4>1. PICK S \in SUBSET Tasks : S = OwnedTasks(o)
        BY <2>0
      <4>2. /\ MakeAvailable(th, S, "disconnected", Kinds)
            /\ notices[th] = {} /\ claim' = claim
        BY <3>5, <4>1 DEF ReleaseAll, Idle
      <4>3. Lease!TakeAway(th, S)
        BY <3>0, <4>2, MakeAvailableTakesAway
      <4>4. S = {t \in Tasks : Holder[t] = o}
        BY <4>1 DEF OwnedTasks, Holder, OwnershipCoherent
      <4>5. Lease!Disconnect(th, o)
        BY <2>4, <4>2, <4>3, <4>4 DEF Lease!Disconnect, Lease!TakeAway, Holder
      <4>6. QED
        BY <3>0, <4>5 DEF Lease!Next
    <3>6. QED
      BY <2>5, <3>1, <3>2, <3>3, <3>4, <3>5 DEF Call
  <2>6. ASSUME NEW th \in Threads, NEW n \in notices[th], Fire(th, n)
        PROVE  [Lease!Next]_(Lease!leaseVars)
    <3>1. UNCHANGED <<Holder, RanOut, claimsNow>>
      BY <2>2, <2>4, <2>6 DEF Fire
    <3>2. CASE owedNow' = owedNow
      BY <2>1, <3>1, <3>2
    <3>3. CASE /\ n.owner \in Owners /\ n.task \in Tasks
               /\ <<th, n.owner, n.task>> \in owedNow
               /\ owedNow' = owedNow \ {<<th, n.owner, n.task>>}
      <4>1. Lease!Notify(th, n.owner, n.task)
        BY <3>1, <3>3 DEF Lease!Notify, Holder, RanOut
      <4>2. QED
        BY <3>3, <4>1 DEF Lease!Next
    <3>4. QED
      BY <2>6, <3>2, <3>3, FireNotifies
  <2>7. ASSUME NEW th \in Threads, NEW t \in Tasks, NEW o \in Owners, AcquireResume(th, t, o)
        PROVE  [Lease!Next]_(Lease!leaseVars)
    <3>1. /\ notices[th] = {} /\ <<t, o>> \in claim[th]
          /\ claim' = [claim EXCEPT ![th] = {}]
          /\ notices' = notices
          /\ task' = [task EXCEPT ![t] = OwnedBy(o)]
      BY <2>7 DEF AcquireResume, Grant
    <3>2. \A p \in Owners, u \in Tasks : <<th, p, u>> \notin owedNow
      BY <3>1, InOwed
    <3>3. claimsNow' = claimsNow \ {<<th, t, o>>} /\ <<th, t, o>> \in claimsNow
      <4>1. ASSUME NEW x
            PROVE  x \in claimsNow' <=> \E u \in Threads : \E c \in claim'[u] : x = <<u, c[1], c[2]>>
        BY DEF claimsNow
      <4>2. /\ claim'[th] = {} /\ claim[th] = {<<t, o>>}
            /\ \A u \in Threads \ {th} : claim'[u] = claim[u]
        BY <3>1 DEF TypeOK, DebtsFit
      <4>3. ASSUME NEW x
            PROVE  x \in claimsNow' <=> x \in claimsNow /\ x # <<th, t, o>>
        <5>1. (\E c \in claim[th] : x = <<th, c[1], c[2]>>) <=> x = <<th, t, o>>
          BY <4>2
        <5>2. x \in claimsNow' <=>
                 \E u \in Threads \ {th} : \E c \in claim[u] : x = <<u, c[1], c[2]>>
          BY <4>1, <4>2
        <5>3. QED
          BY <5>1, <5>2, InClaims
      <4>4. <<th, t, o>> \in claimsNow
        <5>1. \E c \in claim[th] : <<th, t, o>> = <<th, c[1], c[2]>>
          BY <3>1
        <5>2. QED
          BY <5>1, InClaims
      <4>5. QED
        BY <4>3, <4>4
    <3>4. /\ Holder' = [Holder EXCEPT ![t] = o]
          /\ RanOut' = RanOut \ {t}
      BY <3>1 DEF OwnedBy, TypeOK, Holder, RanOut
    <3>5. Lease!Overtake(th, t, o)
      BY <2>3, <3>1, <3>2, <3>3, <3>4 DEF Lease!Overtake, Holder, RanOut
    <3>6. QED
      BY <3>5 DEF Lease!Next
  <2>8. CASE EvictExpired
    <3>1. PICK S \in SUBSET Tasks : S = RanOut
      BY <2>0
    <3>2. /\ MakeAvailable(Watcher, S, "lease_expired", Kinds)
          /\ notices[Watcher] = {} /\ claim' = claim
      BY <2>0, <2>8, <3>1 DEF EvictExpired, Idle
    <3>3. Lease!TakeAway(Watcher, S)
      BY <2>0, <3>2, MakeAvailableTakesAway
    <3>4. Lease!Revoke(Watcher)
      BY <2>4, <3>1, <3>2, <3>3 DEF Lease!Revoke, Lease!TakeAway, RanOut
    <3>5. QED
      BY <2>0, <3>4 DEF Lease!Next
  <2>9. ASSUME NEW t \in Tasks, LeaseRunsOut(t)
        PROVE  [Lease!Next]_(Lease!leaseVars)
    <3>1. /\ task[t].lease = "live"
          /\ task' = [task EXCEPT ![t].lease = "expired"]
          /\ UNCHANGED <<notices, claim>>
      BY <2>9 DEF LeaseRunsOut
    <3>2. /\ Holder' = Holder /\ RanOut' = RanOut \cup {t}
          /\ Holder[t] # NoOwner
      BY <3>1 DEF Holder, RanOut, TypeOK, Task, OwnershipCoherent
    <3>3. Lease!RunOut(t)
      BY <2>3, <2>4, <3>1, <3>2 DEF Lease!RunOut, Holder, RanOut
    <3>4. QED
      BY <3>3 DEF Lease!Next
  <2>10. CASE Close \/ UNCHANGED vars
    BY <2>1, <2>2, <2>3, <2>4, <2>10 DEF Close, vars
  <2>11. QED
    BY <2>5, <2>6, <2>7, <2>8, <2>9, <2>10 DEF Next, Proceed
<1>3. QED
  BY <1>1, <1>2, TypeCorrect, Coherence, Debts, PTL DEF Spec, ImplementsTaskLease, Lease!Spec

=============================================================================
