--------------------------- MODULE CrashSafeMutex ---------------------------
(***************************************************************************)
(* What the server-side holder table of one keyed lock promises its        *)
(* clients: at any time the lock belongs to at most one acquisition, and   *)
(* an acquisition whose process is still running keeps the lock until it   *)
(* gives it back.  Only the lock of a dead acquisition may change hands.   *)
(***************************************************************************)
CONSTANTS Lease,      \* the acquisitions, named by their lease_id
          NoLease     \* the empty slot

VARIABLES holder,     \* the acquisition the lock belongs to, or NoLease
          dead        \* the acquisitions whose process has died

mutexVars == <<holder, dead>>

MutexInit == holder = NoLease /\ dead = {}

Grant(l) ==           \* also to a client that died while it was being served
    /\ holder = NoLease
    /\ holder' = l
    /\ UNCHANGED dead

Reclaim(l) ==
    /\ holder \in dead
    /\ holder' = l
    /\ UNCHANGED dead

GiveBack(l) ==
    /\ holder = l
    /\ l \notin dead
    /\ holder' = NoLease
    /\ UNCHANGED dead

Die ==
    /\ dead' \in SUBSET Lease
    /\ dead \subseteq dead'
    /\ UNCHANGED holder

MutexNext == Die \/ \E l \in Lease : Grant(l) \/ Reclaim(l) \/ GiveBack(l)

MutexSpec == MutexInit /\ [][MutexNext]_mutexVars
=============================================================================
