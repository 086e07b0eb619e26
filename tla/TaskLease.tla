------------------------------ MODULE TaskLease ------------------------------
(***************************************************************************)
(* What the task registry promises its callers, without its data           *)
(* structures: a task has at most one holder, and a holder that does not   *)
(* give the task up itself loses it only after its lease ran out, or       *)
(* because it disconnected, and is then owed exactly one "lost" notice by  *)
(* the thread that took the task away.                                     *)
(*                                                                         *)
(* Overtake is what the code leaves open: the thread that revoked an       *)
(* expired lease inside an Acquire has a claim on the task and exercises   *)
(* it later, whoever holds the task by then.                               *)
(***************************************************************************)
CONSTANTS Tasks, Owners, Threads, NoOwner

VARIABLES
    holder,     \* who holds each task, NoOwner when nobody does
    ranOut,     \* the tasks whose holder's lease has run out
    owed,       \* <<thread, owner, task>>: lost notices not yet delivered
    claims      \* <<thread, task, owner>>: claims of unfinished Acquires

leaseVars == <<holder, ranOut, owed, claims>>

Init ==
    /\ holder = [t \in Tasks |-> NoOwner]
    /\ ranOut = {}
    /\ owed = {}
    /\ claims = {}

Obtain(t, o) ==
    /\ holder[t] = NoOwner
    /\ holder' = [holder EXCEPT ![t] = o]
    /\ UNCHANGED <<ranOut, owed, claims>>

RunOut(t) ==
    /\ holder[t] # NoOwner
    /\ ranOut' = ranOut \cup {t}
    /\ UNCHANGED <<holder, owed, claims>>

\* Everybody in S loses its task; thread th owes the notices.
TakeAway(th, S) ==
    /\ holder' = [t \in Tasks |-> IF t \in S THEN NoOwner ELSE holder[t]]
    /\ ranOut' = ranOut \ S
    /\ owed' = owed \cup {<<th, holder[t], t>> : t \in S}

GiveUp(t) ==
    /\ holder[t] # NoOwner
    /\ holder' = [holder EXCEPT ![t] = NoOwner]
    /\ ranOut' = ranOut \ {t}
    /\ UNCHANGED <<owed, claims>>

Disconnect(th, o) ==
    /\ TakeAway(th, {t \in Tasks : holder[t] = o})
    /\ UNCHANGED claims

Revoke(th) ==
    /\ TakeAway(th, ranOut)
    /\ UNCHANGED claims

RevokeAndClaim(th, t, o) ==
    /\ t \in ranOut
    /\ TakeAway(th, {t})
    /\ claims' = claims \cup {<<th, t, o>>}

Notify(th, o, t) ==
    /\ <<th, o, t>> \in owed
    /\ owed' = owed \ {<<th, o, t>>}
    /\ UNCHANGED <<holder, ranOut, claims>>

\* The claimant takes the task, after it has delivered its own notices.
Overtake(th, t, o) ==
    /\ <<th, t, o>> \in claims
    /\ \A p \in Owners, u \in Tasks : <<th, p, u>> \notin owed
    /\ holder' = [holder EXCEPT ![t] = o]
    /\ ranOut' = ranOut \ {t}
    /\ claims' = claims \ {<<th, t, o>>}
    /\ UNCHANGED owed

Next ==
    \/ \E t \in Tasks : RunOut(t) \/ GiveUp(t)
    \/ \E t \in Tasks, o \in Owners : Obtain(t, o)
    \/ \E th \in Threads :
          \/ Revoke(th)
          \/ \E o \in Owners : Disconnect(th, o)
          \/ \E t \in Tasks, o \in Owners :
                RevokeAndClaim(th, t, o) \/ Notify(th, o, t) \/ Overtake(th, t, o)

Spec == Init /\ [][Next]_leaseVars

=============================================================================
