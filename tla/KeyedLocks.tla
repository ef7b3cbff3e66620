------------------------------ MODULE KeyedLocks ------------------------------
(***************************************************************************)
(* Acquisition of several keyed locks (KeyedUnifiedLock, _KeyedLockContext *)
(* and UnifiedLock of shared_storage.py).                                  *)
(*                                                                         *)
(* A task is one `async with get_storage_keyed_lock(request)` of one       *)
(* coroutine.  It sorts its keys and takes them one after another.  Per    *)
(* key it takes a reference on the process's gate (an asyncio.Lock kept in *)
(* a table while its reference count is positive), waits for the gate and, *)
(* in multi-process mode, for the key's slot of the holder table in the    *)
(* Manager.  In single-process mode the gate is the lock.                  *)
(*                                                                         *)
(* The holder table is used by what it promises (CrashSafeMutex, which     *)
(* KeyedHolderTable implements): a slot is granted when it is free or when *)
(* the process of its holder is dead.  A gate object is named by the task  *)
(* and the position that created it.  The entries of one `async with` are  *)
(* released one per step, which for __aexit__ adds interleavings with      *)
(* coroutines of the same process to those other processes can see.        *)
(***************************************************************************)
EXTENDS Naturals, FiniteSets, Sequences

CONSTANTS Process,      \* worker processes
          Task,         \* `async with` blocks, each run once
          NoTask,       \* nobody
          Key,          \* lock keys, numbers for their sort order
          Requests,     \* the key lists callers pass, in the callers' order
          Placements    \* how the tasks may be spread over the processes

NoGate == <<>>

ASSUME LocksAssumption ==
    /\ NoTask \notin Task
    /\ Key \subseteq Nat
    /\ Requests \subseteq {request \in Seq(Key) : Len(request) \in 1..2}
    /\ Placements \subseteq [Task -> Process]
    /\ IsFiniteSet(Task)

VARIABLES multi,    \* _is_multiprocess
          alive,    \* alive[p]: the process runs
          proc,     \* proc[t]: the process of task t
          keys,     \* keys[t]: _KeyedLockContext._keys
          phase,    \* phase[t]: where the task is
          gates,    \* gates[t]: gate object of each entry of self._ul
          entered,  \* entered[t]: entries of self._ul that are "entered"
          table,    \* table[p][k]: _async_lock
          count,    \* count[p][k]: _async_lock_count
          owner,    \* owner[g]: the task that has locked gate object g
          slot      \* slot[k]: holder table, in the Manager

vars == <<multi, alive, proc, keys, phase, gates, entered, table, count,
          owner, slot>>
fixed == <<multi, proc, keys>>

Phase == {"next",     \* __aenter__, about to take the next key
          "gate",     \* awaiting the gate
          "lease",    \* gate locked, polling the holder table
          "in",       \* in the critical section
          "release",  \* __aexit__, under way
          "rollback", \* __aenter__ failed: _rollback_acquired_locks
          "done"}

Position == 1..2                    \* bound: keys of one request
Gate == Task \X Position

Live(t) == alive[proc[t]]
Last(s) == s[Len(s)]

\* The sort that __init__ does, for lists of at most two keys.
Sorted_AsGiven(request) == request
Sorted(request) ==
    IF Len(request) = 2 /\ request[1] > request[2]
    THEN <<request[2], request[1]>> ELSE request

Init ==
    /\ multi \in BOOLEAN
    /\ alive = [p \in Process |-> TRUE]
    /\ proc \in Placements
    /\ multi \/ \A t, u \in Task : proc[t] = proc[u]
    /\ \E request \in [Task -> Requests] :
          keys = [t \in Task |-> Sorted(request[t])]
    /\ phase = [t \in Task |-> "next"]
    /\ gates = [t \in Task |-> <<>>]
    /\ entered = [t \in Task |-> 0]
    /\ table = [p \in Process |-> [k \in Key |-> NoGate]]
    /\ count = [p \in Process |-> [k \in Key |-> 0]]
    /\ owner = [g \in Gate |-> NoTask]
    /\ slot = [k \in Key |-> NoTask]

-----------------------------------------------------------------------------
(* Acquisition: __aenter__                                                 *)

Go(t, from, to) ==
    /\ Live(t) /\ phase[t] \in from
    /\ phase' = [phase EXCEPT ![t] = to]

\* Lookup and count go together (no await between them), and the entry is
\* appended before anything is awaited.
Reference(t) ==
    /\ Go(t, {"next"}, "gate")
    /\ LET p == proc[t]
           i == Len(gates[t]) + 1
           k == keys[t][i]
           g == IF table[p][k] = NoGate THEN <<t, i>> ELSE table[p][k]
       IN /\ table' = [table EXCEPT ![p][k] = g]
          /\ count' = [count EXCEPT ![p][k] = @ + 1]
          /\ gates' = [gates EXCEPT ![t] = Append(@, g)]
    /\ UNCHANGED <<fixed, alive, entered, owner, slot>>

\* The entry is entered; it may be the last one.
Entered(t, from) ==
    /\ Go(t, from, IF Len(gates[t]) = Len(keys[t]) THEN "in" ELSE "next")
    /\ entered' = [entered EXCEPT ![t] = @ + 1]

LockGate(t) ==
    /\ phase[t] = "gate" /\ owner[Last(gates[t])] = NoTask
    /\ owner' = [owner EXCEPT ![Last(gates[t])] = t]
    /\ IF multi THEN Go(t, {"gate"}, "lease") /\ UNCHANGED entered
                ELSE Entered(t, {"gate"})
    /\ UNCHANGED <<fixed, alive, gates, table, count, slot>>

LeaseKey(t) ==
    /\ Entered(t, {"lease"})
    /\ LET k == keys[t][Len(gates[t])]
       IN /\ slot[k] \in {NoTask} \cup {u \in Task : ~Live(u)}
          /\ slot' = [slot EXCEPT ![k] = t]
    /\ UNCHANGED <<fixed, alive, gates, table, count, owner>>

\* A cancellation, or an RPC that raises, at one of the two awaits.
\* UnifiedLock gives the gate back itself when it has it.
Cancel(t) ==
    /\ Go(t, {"gate", "lease"}, "rollback")
    /\ owner' = IF phase[t] = "lease"
                THEN [owner EXCEPT ![Last(gates[t])] = NoTask] ELSE owner
    /\ UNCHANGED <<fixed, alive, gates, entered, table, count, slot>>

-----------------------------------------------------------------------------
(* Release, by __aexit__ and by _rollback_acquired_locks.  Both run        *)
(* shielded: a cancellation only changes what the caller is told later.    *)

\* _release_async_lock; the bugs forget the waiters, or keep
\* idle gates.
TableAfter_Dropped(p, k) == NoGate
TableAfter_Kept(p, k) == table[p][k]
TableAfter(p, k) == IF count[p][k] = 1 THEN NoGate ELSE table[p][k]

\* The last entry: its slot and its gate if it was entered, then its
\* reference.
ReleaseEntry(t) ==
    LET n == Len(gates[t])
        p == proc[t]
        k == keys[t][n]
        wasEntered == entered[t] = n
    IN /\ \/ Go(t, {"in", "release"}, IF n = 1 THEN "done" ELSE "release")
          \/ Go(t, {"rollback"}, IF n = 1 THEN "done" ELSE "rollback")
       /\ gates' = [gates EXCEPT ![t] = SubSeq(@, 1, n - 1)]
       /\ entered' = [entered EXCEPT ![t] = IF wasEntered THEN n - 1 ELSE @]
       /\ owner' = IF wasEntered THEN [owner EXCEPT ![gates[t][n]] = NoTask]
                                 ELSE owner
       /\ slot' = IF wasEntered /\ slot[k] = t
                  THEN [slot EXCEPT ![k] = NoTask] ELSE slot
       /\ table' = [table EXCEPT ![p][k] = TableAfter(p, k)]
       /\ count' = [count EXCEPT ![p][k] = @ - 1]
       /\ UNCHANGED <<fixed, alive>>

\* SIGKILL of a worker; its gates are gone with it, its slots stay.
Kill(p) ==
    /\ multi /\ alive[p]
    /\ alive' = [alive EXCEPT ![p] = FALSE]
    /\ UNCHANGED <<fixed, phase, gates, entered, table, count, owner, slot>>

-----------------------------------------------------------------------------
Step(t) == Reference(t) \/ LockGate(t) \/ LeaseKey(t) \/ ReleaseEntry(t)

Next == (\E t \in Task : Step(t) \/ Cancel(t)) \/ \E p \in Process : Kill(p)

Spec == Init /\ [][Next]_vars

\* Coroutines run, a critical section ends, and a gate or a slot that stays
\* free is taken (asyncio.Lock wakes its waiters, the poll comes back).
\* Nobody has to be cancelled or killed.
Fairness == \A t \in Task : WF_vars(Step(t))

FairSpec == Spec /\ Fairness

-----------------------------------------------------------------------------
TypeOK ==
    /\ multi \in BOOLEAN
    /\ alive \in [Process -> BOOLEAN]
    /\ proc \in [Task -> Process]
    /\ keys \in [Task -> Seq(Key)]
    /\ phase \in [Task -> Phase]
    /\ gates \in [Task -> Seq(Gate)]
    /\ entered \in [Task -> Nat]
    /\ table \in [Process -> [Key -> Gate \cup {NoGate}]]
    /\ count \in [Process -> [Key -> Nat]]
    /\ owner \in [Gate -> Task \cup {NoTask}]
    /\ slot \in [Key -> Task \cup {NoTask}]

\* No two running tasks have the same key, whether the gate (one process) or
\* the slot (several processes) keeps them apart and whoever was cancelled,
\* killed or rolled back meanwhile (KeyedUnifiedLock, shared_storage.py).
Exclusive ==
    \A t, u \in Task : t # u /\ Live(t) /\ Live(u) =>
        \A i \in 1..entered[t], j \in 1..entered[u] : keys[t][i] # keys[u][j]

\* The tasks of a process that hold or await a key share one gate object,
\* the one a newcomer would find: "Same-key coroutines MUST share one
\* asyncio.Lock while any of them is active" (KeyedUnifiedLock).
OneGate ==
    \A t \in Task : Live(t) =>
        \A i \in 1..Len(gates[t]) : table[proc[t]][keys[t][i]] = gates[t][i]

\* The references of process p to key k, as entries of self._ul.
References(p, k) ==
    {r \in Task \X Position : /\ proc[r[1]] = p
                              /\ r[2] <= Len(gates[r[1]])
                              /\ keys[r[1]][r[2]] = k}

\* "an entry exists iff its refcount >= 1 (some coroutine holds or awaits
\* it)": nothing is leaked by a cancelled waiter or a rollback and no entry
\* goes while it is in use (KeyedUnifiedLock).
CountIsExact ==
    \A p \in Process, k \in Key : alive[p] =>
        /\ count[p][k] = Cardinality(References(p, k))
        /\ table[p][k] = NoGate <=> count[p][k] = 0

\* A running task that wants locks gets all of them, unless it is cancelled,
\* although others want overlapping keys in the opposite order, give up half
\* way or are killed with locks in hand ("critical to ensure proper lock and
\* release order to avoid deadlocks", _KeyedLockContext.__init__).
EveryoneServed ==
    \A t \in Task : (phase[t] = "next" /\ Live(t))
                        ~> (phase[t] \in {"in", "rollback"} \/ ~Live(t))
=============================================================================
