------------------------------ MODULE SessionLife ------------------------------
(***************************************************************************)
(* What the transports promise the rest of server mode about sessions: a   *)
(* session is opened once, told to leave once, removed once, and its       *)
(* requests are handled one at a time while it is open.  Where the         *)
(* goroutine that handles the requests is not the one that closes the      *)
(* session, one request may still be begun after it has left, and no more. *)
(***************************************************************************)
EXTENDS Naturals

CONSTANTS
    Sessions,
    Shared      \* those that are closed by another goroutine

VARIABLES
    phase,      \* of each session
    handling,   \* the sessions that have a request handled
    late        \* those that have had a request begun after they left

vars == <<phase, handling, late>>

Phase == {"new", "open", "leaving", "gone"}

Init ==
    /\ phase = [s \in Sessions |-> "new"]
    /\ handling = {}
    /\ late = {}

Move(s, from, to) ==
    /\ phase[s] = from
    /\ phase' = [phase EXCEPT ![s] = to]
    /\ UNCHANGED <<handling, late>>

Open(s)   == Move(s, "new", "open")
Leave(s)  == Move(s, "open", "leaving") /\ (s \in Shared \/ s \notin handling)
Remove(s) == Move(s, "leaving", "gone")

Begin(s) ==
    /\ s \notin handling
    /\ handling' = handling \cup {s}
    /\ \/ phase[s] = "open" /\ UNCHANGED late
       \/ /\ phase[s] \in {"leaving", "gone"}
          /\ s \in Shared \ late
          /\ late' = late \cup {s}
    /\ UNCHANGED phase

Finish(s) ==
    /\ s \in handling
    /\ handling' = handling \ {s}
    /\ UNCHANGED <<phase, late>>

Next == \E s \in Sessions : Open(s) \/ Leave(s) \/ Remove(s) \/ Begin(s) \/ Finish(s)

Spec == Init /\ [][Next]_vars

=============================================================================
