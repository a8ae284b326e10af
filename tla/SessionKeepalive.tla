--------------------------- MODULE SessionKeepalive ---------------------------
(***************************************************************************)
(* What the session manager promises, with tabs, timers and requests       *)
(* abstracted away: one user, one ESP session, a lock.  Working while the  *)
(* session is unlocked keeps the session alive; ESP may drop it only after *)
(* the user has not worked unlocked for Grace units, or when the network  *)
(* lost the latest request, and a dropped session stays dropped.  Locking  *)
(* stops work from counting.                                               *)
(***************************************************************************)
EXTENDS Naturals

CONSTANT Grace   \* time without unlocked work after which ESP may expire

VARIABLES
    quiet,   \* time since the user last worked unlocked, saturating at Grace
    alive,   \* the ESP session is alive
    locked,  \* the session is locked
    unheard  \* the latest request the client sent was lost

kvars == <<quiet, alive, locked, unheard>>

Init ==
    /\ quiet = Grace
    /\ alive = TRUE
    /\ locked \in BOOLEAN
    /\ unheard = FALSE

\* The user works in the unlocked session.
Work ==
    /\ ~locked
    /\ quiet' = 0
    /\ UNCHANGED <<alive, locked, unheard>>

\* The lock is set or cleared.
SetLock ==
    /\ locked' \in BOOLEAN
    /\ UNCHANGED <<quiet, alive, unheard>>

\* A request reaches ESP or is lost.
Network ==
    /\ unheard' \in BOOLEAN
    /\ UNCHANGED <<quiet, alive, locked>>

\* Time passes; the session may expire only if the user was quiet long
\* enough before this step, or the latest request was lost.
Pass ==
    /\ quiet' = IF quiet < Grace THEN quiet + 1 ELSE Grace
    /\ alive' => alive
    /\ (alive /\ ~alive') => quiet >= Grace \/ unheard
    /\ UNCHANGED <<locked, unheard>>

Spec == Init /\ [][Work \/ SetLock \/ Network \/ Pass]_kvars

=============================================================================
