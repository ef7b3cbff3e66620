---------------------------- MODULE ConcurrencyGate ----------------------------
(***************************************************************************)
(* One group of the cross-process concurrency gate of shared_storage.py:   *)
(* a table of leases in the Manager, renewed from a heartbeat, reaped by   *)
(* whichever process polls or reconciles.                                  *)
(*                                                                         *)
(* Times are ages counted in heartbeats, capped just above the largest     *)
(* value they are compared with.  Each operation holds the group's keyed   *)
(* lock from its read to its write and is one step; what it computed       *)
(* before it took the lock (the leases to renew) may be old by then.       *)
(* Waiter records only steer how soon a process polls again and are left   *)
(* out.                                                                    *)
(***************************************************************************)
EXTENDS Naturals, FiniteSets, Functions

CONSTANTS Proc,     \* worker processes, by PID
          Lease,    \* lease ids
          Limit,    \* the group's limit
          TTL,      \* _heartbeat_ttl
          Grace     \* _suspect_grace

ASSUME GateAssumption ==
    /\ Limit \in Nat /\ TTL \in Nat \ {0} /\ Grace \in Nat \ {0}
    /\ IsFiniteSet(Proc) /\ IsFiniteSet(Lease)

VARIABLES leases,    \* ns[group]["leases"]: lease id -> [pid, age, suspect]
          alive,     \* alive[p]: the PID exists
          stalled,   \* stalled[p]: p or its way to the Manager is blocked
          held,      \* held[p]: leases whose calls p is executing
          renewing,  \* renewing[p]: the leases that a renewal of p read to renew
          started,   \* started[p]: heartbeats since it read them
          silence,   \* silence[p]: heartbeats since p read what it last renewed
          lapsed     \* history: some living process was silent for too long

vars == <<leases, alive, stalled, held, renewing, started, silence, lapsed>>

Trusted == 0                            \* no suspect_since
Longest == TTL + Grace + 1              \* bound on every age
Older(n) == IF n < Longest THEN n + 1 ELSE n

Init ==
    /\ leases = <<>>
    /\ alive = [p \in Proc |-> TRUE]
    /\ stalled = [p \in Proc |-> FALSE]
    /\ held = [p \in Proc |-> {}]
    /\ renewing = [p \in Proc |-> {}]
    /\ started = [p \in Proc |-> 0] /\ silence = [p \in Proc |-> 0]
    /\ lapsed = FALSE

Up(p) == alive[p] /\ ~stalled[p]

\* _reap_gate_state.  suspect counts the heartbeats since the mark, plus one.
Reclaimed_NoGrace(t) ==            \* bug: no second look at a suspect
    {l \in DOMAIN t : ~alive[t[l].pid] \/ t[l].age > TTL}
Reclaimed(t) ==
    {l \in DOMAIN t : \/ ~alive[t[l].pid]
                      \/ /\ t[l].age > TTL
                         /\ t[l].suspect # Trusted /\ t[l].suspect - 1 > Grace}

Marked_Again(r) ==                 \* bug: every pass marks anew
    [r EXCEPT !.suspect = IF r.age > TTL THEN 1 ELSE Trusted]
Marked(r) ==
    [r EXCEPT !.suspect = IF r.age <= TTL THEN Trusted
                          ELSE IF @ = Trusted THEN 1 ELSE @]

Reaped(t) == [l \in DOMAIN t \ Reclaimed(t) |-> Marked(t[l])]

Used == DOMAIN leases \cup UNION {held[p] \cup renewing[p] : p \in Proc}

\* _acquire_global_slot.  The grant may be lost on its way to the caller: the
\* table has the lease, and nobody will renew or release it.
Acquire(p) ==
    /\ Up(p)
    /\ LET t == Reaped(leases) IN
          IF Cardinality(DOMAIN t) >= Limit
          THEN leases' = t /\ UNCHANGED held
          ELSE /\ Lease # Used
               /\ LET l == CHOOSE l \in Lease \ Used : TRUE
                      new == [pid |-> p, age |-> 0, suspect |-> Trusted]
                  IN /\ leases' = [k \in DOMAIN t \cup {l} |->
                                      IF k = l THEN new ELSE t[k]]
                     /\ \E got \in SUBSET {l} :
                           held' = [held EXCEPT ![p] = @ \cup got]
    /\ UNCHANGED <<alive, stalled, renewing, started, silence, lapsed>>

\* release_global_slot: idempotent, also on a lease reclaimed long ago.
Release(p, l) ==
    /\ Up(p) /\ l \in held[p]
    /\ leases' = Restrict(leases, DOMAIN leases \ {l})
    /\ held' = [held EXCEPT ![p] = @ \ {l}]
    /\ UNCHANGED <<alive, stalled, renewing, started, silence, lapsed>>

\* A release that raises: the lease is parked and no longer renewed.
ReleaseFails(p, l) ==
    /\ Up(p) /\ l \in held[p]
    /\ held' = [held EXCEPT ![p] = @ \ {l}]
    /\ UNCHANGED <<leases, alive, stalled, renewing, started, silence, lapsed>>

\* renew_global_slots(group, tuple(held_leases)) of the health check, once in a
\* heartbeat: the tuple first ...
StartRenewal(p) ==
    /\ Up(p) /\ renewing[p] = {} /\ held[p] # {} /\ silence[p] > 0
    /\ renewing' = [renewing EXCEPT ![p] = held[p]]
    /\ started' = [started EXCEPT ![p] = 0]
    /\ UNCHANGED <<leases, alive, stalled, held, silence, lapsed>>

\* ... then, under the lock, those still in the table are rewritten whole.
Renewed_Again(p) ==                \* bug: reclaimed leases come back
    [l \in DOMAIN leases \cup renewing[p] |->
        IF l \in renewing[p] THEN [pid |-> p, age |-> 0, suspect |-> Trusted]
                             ELSE leases[l]]
Renewed(p) ==
    [l \in DOMAIN leases |->
        IF l \in renewing[p] THEN [pid |-> p, age |-> 0, suspect |-> Trusted]
                             ELSE leases[l]]

Renew(p) ==
    /\ Up(p) /\ renewing[p] # {}
    /\ leases' = Renewed(p)
    /\ renewing' = [renewing EXCEPT ![p] = {}]
    /\ silence' = [silence EXCEPT ![p] = started[p]]
    /\ started' = [started EXCEPT ![p] = 0]
    /\ UNCHANGED <<alive, stalled, held, lapsed>>

\* reconcile_global_slots, in every health check.
Reconcile(p) ==
    /\ Up(p)
    /\ leases' = Reaped(leases)
    /\ UNCHANGED <<alive, stalled, held, renewing, started, silence, lapsed>>

-----------------------------------------------------------------------------
(* Time, stalls and deaths                                                 *)

\* A heartbeat passes.  A process that is up with calls to renew for has
\* renewed them within the last one.
Tick ==
    /\ \A p \in Proc : Up(p) => /\ held[p] # {} => silence[p] = 0
                                /\ renewing[p] # {} => started[p] = 0
    /\ leases' = [l \in DOMAIN leases |->
                    [leases[l] EXCEPT !.age = Older(@),
                                      !.suspect = IF @ = Trusted THEN @ ELSE Older(@)]]
    /\ silence' = [p \in Proc |-> IF held[p] = {} THEN 0 ELSE Older(silence[p])]
    /\ started' = [p \in Proc |-> IF renewing[p] = {} THEN 0 ELSE Older(started[p])]
    /\ lapsed' = (lapsed \/ \E p \in Proc : alive[p] /\ silence'[p] > TTL + Grace)
    /\ UNCHANGED <<alive, stalled, held, renewing>>

Stall(p) ==
    /\ Up(p)
    /\ stalled' = [stalled EXCEPT ![p] = TRUE]
    /\ UNCHANGED <<leases, alive, held, renewing, started, silence, lapsed>>

Resume(p) ==
    /\ alive[p] /\ stalled[p]
    /\ stalled' = [stalled EXCEPT ![p] = FALSE]
    /\ UNCHANGED <<leases, alive, held, renewing, started, silence, lapsed>>

Kill(p) ==
    /\ alive[p]
    /\ alive' = [alive EXCEPT ![p] = FALSE]
    /\ stalled' = [stalled EXCEPT ![p] = FALSE]
    /\ held' = [held EXCEPT ![p] = {}] /\ renewing' = [renewing EXCEPT ![p] = {}]
    /\ started' = [started EXCEPT ![p] = 0] /\ silence' = [silence EXCEPT ![p] = 0]
    /\ UNCHANGED <<leases, lapsed>>

\* A new worker that gets the dead one's PID.
Respawn(p) ==
    /\ ~alive[p]
    /\ alive' = [alive EXCEPT ![p] = TRUE]
    /\ UNCHANGED <<leases, stalled, held, renewing, started, silence, lapsed>>

Next ==
    \/ Tick
    \/ \E p \in Proc : \/ Acquire(p) \/ StartRenewal(p) \/ Renew(p) \/ Reconcile(p)
                       \/ Stall(p) \/ Resume(p) \/ Kill(p) \/ Respawn(p)
                       \/ \E l \in Lease : Release(p, l) \/ ReleaseFails(p, l)

Spec == Init /\ [][Next]_vars

\* Time passes, stalls end, dead workers are replaced, and the processes keep
\* running their health checks, if often interrupted.
Renewal == \E p \in Proc : StartRenewal(p) \/ Renew(p)
Comeback == \E p \in Proc : Resume(p) \/ Respawn(p)
Reaper == \E p \in Proc : Reconcile(p)
Fairness ==
    SF_vars(Tick) /\ SF_vars(Renewal) /\ WF_vars(Comeback) /\ SF_vars(Reaper)

FairSpec == Spec /\ Fairness

-----------------------------------------------------------------------------
Record == [pid : Proc, age : 0..Longest, suspect : 0..Longest]

TypeOK ==
    /\ DOMAIN leases \subseteq Lease /\ leases \in [DOMAIN leases -> Record]
    /\ alive \in [Proc -> BOOLEAN] /\ stalled \in [Proc -> BOOLEAN]
    /\ held \in [Proc -> SUBSET Lease] /\ renewing \in [Proc -> SUBSET Lease]
    /\ started \in [Proc -> 0..Longest] /\ silence \in [Proc -> 0..Longest]
    /\ lapsed \in BOOLEAN

\* The table never has more leases than the limit, whatever stalls, dies or
\* comes back late: a reclaimed lease is not resurrected
\* (shared_storage.py:4020-4022, 4352-4354).
TableWithinLimit == Cardinality(DOMAIN leases) <= Limit

\* "the cap is exact while holders keep renewing" (shared_storage.py:4011-4015):
\* as long as no living process was silent for longer than the heartbeat TTL
\* and the suspect grace together, the calls being executed, of all processes,
\* are within the limit.  A stall shorter than that costs no lease.
CapIsExact ==
    ~lapsed => Cardinality({l \in Lease : \E p \in Proc : l \in held[p]}) <= Limit

\* Capacity never leaks: a lease that nobody will release, because its holder
\* died, lost the grant or failed to release it, leaves the table, even when
\* the PID is in use again (shared_storage.py:4005-4009).
SlotComesBack ==
    \A l \in Lease :
        (l \in DOMAIN leases /\ \A p \in Proc : l \notin held[p])
            ~> l \notin DOMAIN leases
=============================================================================
