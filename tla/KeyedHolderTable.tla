-------------------------- MODULE KeyedHolderTable --------------------------
(***************************************************************************)
(* The multi-process keyed lock: the clients (_KeyedLeaseLock, one object  *)
(* per acquire) and the table in the Manager server (KeyedHolderTable).    *)
(*                                                                         *)
(* try_acquire is one RPC but not one step.  It snapshots the slot under   *)
(* the server's threading lock, samples process identities outside it, and *)
(* only then takes the lock again to install the record, so other clients' *)
(* RPCs, crashes and PID reuse interleave with it.  A server thread goes   *)
(* on after its client has been killed.  Keys do not interact, so this is  *)
(* the table's slot for one key.                                           *)
(*                                                                         *)
(* A lease stands for one acquire() call.  The record                      *)
(* {owner_pid, lease_id, start_delta} of lease l is                        *)
(* <<ownerPid[l], l, stamp[l]>>: a record does not change once installed.   *)
(* start_delta is the owner's start time relative to the server's, which   *)
(* distinguishes the processes that had the same PID one after another:    *)
(* the n-th process of a PID has start time n, and 0 is Python's None.     *)
(***************************************************************************)
EXTENDS Naturals

CONSTANTS Pid,            \* PIDs
          Lease,          \* acquire() calls, named by their uuid4 lease_id
          NoLease,        \* no holder record
          MaxStart,       \* bound: processes that have one PID in turn
          SampleMayFail   \* TRUE off Linux, where _start_delta may give up

ASSUME TableAssumption ==
    /\ NoLease \notin Lease
    /\ Pid # {}
    /\ MaxStart \in Nat \ {0}
    /\ SampleMayFail \in BOOLEAN

VARIABLES running,    \* running[p]: a process with PID p is running
          start,      \* start[p]: start time of the latest process with PID p
          ownerPid,   \* ownerPid[l]: owner_pid of the record of l
          born,       \* born[l]: start time of the process that called acquire()
          place,      \* place[l]: where acquire() of l and its RPC are
          snap,       \* snap[l]: the record try_acquire found in the slot
          stamp,      \* stamp[l]: start_delta of the record of l
          holder      \* the table's slot

tableVars == <<running, start, ownerPid, born, place, snap, stamp, holder>>

NoStamp == 0

Place == {"idle",        \* acquire() not called yet
          "poll",        \* client: between two RPCs (asyncio.sleep)
          "sampleEmpty", \* server: slot was empty, about to sample identity
          "setIfEmpty",  \* server: about to re-check and set
          "probe",       \* server: slot was held, about to probe its owner
          "sampleDead",  \* server: owner confirmed dead, about to sample
          "cas",         \* server: about to compare-and-set on lease_id
          "granted",     \* server: record installed, answer on its way
          "held",        \* client: in the critical section
          "done"}        \* released, or the wait was cancelled

\* The process that called acquire() still runs (its PID was not reused).
Lives(l) == running[ownerPid[l]] /\ start[ownerPid[l]] = born[l]

\* Bug, for checking the check: only PID reuse is looked for.
HolderDead_ReuseOnly(l, d) ==
    stamp[l] # NoStamp /\ d # NoStamp /\ d # stamp[l]

\* _start_delta(pid): None when the process is gone, or when it cannot tell.
StartDelta(p) == (IF running[p] THEN {start[p]} ELSE {NoStamp})
                   \cup (IF SampleMayFail THEN {NoStamp} ELSE {})

\* _holder_dead(record of l), given the recomputed start_delta d.
HolderDead(l, d) ==
    \/ ~running[ownerPid[l]]
    \/ stamp[l] # NoStamp /\ d # NoStamp /\ d # stamp[l]

TableInit ==
    /\ running = [p \in Pid |-> TRUE]
    /\ start = [p \in Pid |-> 1]
    /\ ownerPid \in [Lease -> Pid]
    /\ born = [l \in Lease |-> 0]
    /\ place = [l \in Lease |-> "idle"]
    /\ snap = [l \in Lease |-> NoLease]
    /\ stamp = [l \in Lease |-> NoStamp]
    /\ holder = NoLease

-----------------------------------------------------------------------------
(* The client                                                              *)

Move(l, from, to) == place[l] = from /\ place' = [place EXCEPT ![l] = to]

Begin(l) ==
    /\ Move(l, "idle", "poll")
    /\ running[ownerPid[l]]
    /\ born' = [born EXCEPT ![l] = start[ownerPid[l]]]
    /\ UNCHANGED <<running, start, ownerPid, snap, stamp, holder>>

\* The sleep between two polls is the only place a cancellation can land.
CancelWait(l) ==
    /\ Move(l, "poll", "done")
    /\ Lives(l)
    /\ UNCHANGED <<running, start, ownerPid, born, snap, stamp, holder>>

\* try_acquire returned True: the critical section starts.
Enter(l) ==
    /\ Move(l, "granted", "held")
    /\ Lives(l)
    /\ UNCHANGED <<running, start, ownerPid, born, snap, stamp, holder>>

Release(l) ==
    /\ Move(l, "held", "done")
    /\ Lives(l)
    /\ holder' = IF holder = l THEN NoLease ELSE holder
    /\ UNCHANGED <<running, start, ownerPid, born, snap, stamp>>

-----------------------------------------------------------------------------
(* try_acquire, in the server                                              *)

Snapshot(l) ==
    /\ Lives(l)
    /\ IF holder = NoLease THEN Move(l, "poll", "sampleEmpty")
                           ELSE Move(l, "poll", "probe")
    /\ snap' = [snap EXCEPT ![l] = holder]
    /\ UNCHANGED <<running, start, ownerPid, born, stamp, holder>>

Sample(l) ==
    /\ \/ Move(l, "sampleEmpty", "setIfEmpty")
       \/ Move(l, "sampleDead", "cas")
    /\ \E d \in StartDelta(ownerPid[l]) : stamp' = [stamp EXCEPT ![l] = d]
    /\ UNCHANGED <<running, start, ownerPid, born, snap, holder>>

\* Bugs: the record is installed without looking at the slot again.
SetIfEmpty_NoRecheck(l) ==
    /\ Move(l, "setIfEmpty", "granted")
    /\ holder' = l
    /\ UNCHANGED <<running, start, ownerPid, born, snap, stamp>>

CompareAndSet_NoCompare(l) ==
    /\ Move(l, "cas", "granted")
    /\ holder' = l
    /\ UNCHANGED <<running, start, ownerPid, born, snap, stamp>>

SetIfEmpty(l) ==
    /\ IF holder = NoLease
       THEN Move(l, "setIfEmpty", "granted") /\ holder' = l
       ELSE Move(l, "setIfEmpty", "poll") /\ UNCHANGED holder
    /\ UNCHANGED <<running, start, ownerPid, born, snap, stamp>>

Probe(l) ==
    /\ place[l] = "probe"
    /\ \E d \in StartDelta(ownerPid[snap[l]]) :
          IF HolderDead(snap[l], d) THEN Move(l, "probe", "sampleDead")
                                    ELSE Move(l, "probe", "poll")
    /\ UNCHANGED <<running, start, ownerPid, born, snap, stamp, holder>>

CompareAndSet(l) ==
    /\ IF holder = snap[l]
       THEN Move(l, "cas", "granted") /\ holder' = l
       ELSE Move(l, "cas", "poll") /\ UNCHANGED holder
    /\ UNCHANGED <<running, start, ownerPid, born, snap, stamp>>

-----------------------------------------------------------------------------
(* The operating system                                                    *)

\* SIGKILL: the process's coroutines stop where they are, its RPCs do not.
KillProcess(p) ==
    /\ running[p]
    /\ running' = [running EXCEPT ![p] = FALSE]
    /\ UNCHANGED <<start, ownerPid, born, place, snap, stamp, holder>>

\* A new process gets the PID of a dead one.
ReusePid(p) ==
    /\ ~running[p] /\ start[p] < MaxStart
    /\ running' = [running EXCEPT ![p] = TRUE]
    /\ start' = [start EXCEPT ![p] = @ + 1]
    /\ UNCHANGED <<ownerPid, born, place, snap, stamp, holder>>

-----------------------------------------------------------------------------
Client(l) == Begin(l) \/ CancelWait(l) \/ Enter(l) \/ Release(l)
Server(l) == Snapshot(l) \/ Sample(l) \/ SetIfEmpty(l) \/ Probe(l)
                \/ CompareAndSet(l)
System == \E p \in Pid : KillProcess(p) \/ ReusePid(p)

TableNext == System \/ \E l \in Lease : Client(l) \/ Server(l)

TableSpec == TableInit /\ [][TableNext]_tableVars

\* A poll loop sleeps for a bounded time and then asks again, the Manager
\* answers every request, and a critical section ends.  Nobody has to call
\* acquire(), cancel, die or reuse a PID.
TableFairness == \A l \in Lease : /\ WF_tableVars(Server(l))
                                 /\ WF_tableVars(Enter(l))
                                 /\ WF_tableVars(Release(l))

FairTableSpec == TableSpec /\ TableFairness

-----------------------------------------------------------------------------
TableTypeOK ==
    /\ running \in [Pid -> BOOLEAN]
    /\ start \in [Pid -> 1..MaxStart]
    /\ ownerPid \in [Lease -> Pid]
    /\ born \in [Lease -> 0..MaxStart]
    /\ place \in [Lease -> Place]
    /\ snap \in [Lease -> Lease \cup {NoLease}]
    /\ stamp \in [Lease -> 0..MaxStart]
    /\ holder \in Lease \cup {NoLease}

\* Two running processes (or two coroutines of one) are never in the critical
\* section together, whatever snapshot, probe, crash and PID reuse interleave
\* (KeyedHolderTable.try_acquire's "mutual exclusion", shared_storage.py).
MutualExclusion ==
    \A l, m \in Lease :
        (place[l] = "held" /\ place[m] = "held" /\ Lives(l) /\ Lives(m)) => l = m

\* A client that was told it holds the lock finds its own record in the slot
\* until it releases it: "a live (merely slow) owner is never preempted, so
\* no fencing token is needed" (_KeyedLeaseLock).
HolderIsRecorded ==
    \A l \in Lease : place[l] \in {"granted", "held"} /\ Lives(l) => holder = l

\* A reclaim takes the slot from a dead owner only, however long ago the
\* owner was probed (the lease_id compare-and-set in try_acquire).
ReclaimOnlyTheDead ==
    [][(holder # NoLease /\ holder' \notin {holder, NoLease})
         => ~Lives(holder)]_tableVars

\* The table refines the promise of CrashSafeMutex.
Mutex == INSTANCE CrashSafeMutex
            WITH dead <- {l \in Lease : place[l] # "idle" /\ ~Lives(l)}
MutexSpec == Mutex!MutexSpec

\* A client that was killed before its identity was sampled left a record
\* without a start time, or with that of the process that has its PID now:
\* nobody can tell that it is dead.
Indistinguishable ==
    /\ holder # NoLease /\ ~Lives(holder) /\ running[ownerPid[holder]]
    /\ stamp[holder] \in {NoStamp, start[ownerPid[holder]]}

\* A waiter of a live process gets the lock, unless it gives up: a holder
\* that was killed does not block the others ("a SIGKILLed holder can never
\* deadlock other workers", _KeyedLeaseLock), with the one exception that
\* the code cannot know.
WaiterServed ==
    \A l \in Lease :
        (place[l] = "poll" /\ Lives(l))
            ~> (place[l] \in {"held", "done"} \/ ~Lives(l) \/ Indistinguishable)
=============================================================================
