----------------------------- MODULE LimitedCalls -----------------------------
(***************************************************************************)
(* One process's priority_limit_async_func_call wrapper in global-limit    *)
(* mode (utils.py): callers are admitted up to a logical queue size, one   *)
(* slot pump takes a slot of the cross-process gate before it takes a      *)
(* queued call, executor workers run dispatched calls and give the slots   *)
(* back, and callers may time out or be cancelled at any point.            *)
(*                                                                         *)
(* The gate is used by its promise: at most Limit slots, of which other    *)
(* processes hold some; a slot nobody renews is taken back after a while   *)
(* (ConcurrencyGate).  The queue's priorities are abstracted to a choice.  *)
(* What the event loop runs between two suspensions is one step; the locks *)
(* task_states_lock and initialization_lock are never held over one, so    *)
(* waiting for them does not suspend.                                      *)
(***************************************************************************)
EXTENDS Naturals, FiniteSets

CONSTANTS Call,          \* the calls of the wrapped function
          Worker,        \* executor workers: max_size of them
          MaxQueueSize,  \* max_queue_size
          Limit,         \* the group's global limit
          DrainLimit,    \* DEFAULT_GLOBAL_SLOT_DRAIN_LIMIT
          CompactAt,     \* zombie_compact_threshold
          Lease,         \* bound: lease ids; one may be used again once it is free
          NoLease, NoCall

ASSUME LimitedCallsAssumption ==
    /\ NoLease \notin Lease /\ NoCall \notin Call
    /\ MaxQueueSize \in Nat \ {0} /\ Limit \in Nat \ {0}
    /\ DrainLimit \in Nat \ {0} /\ CompactAt \in Nat
    /\ IsFiniteSet(Call) /\ IsFiniteSet(Worker) /\ IsFiniteSet(Lease)
    /\ Cardinality(Lease) >= Limit         \* the ids are random: one is always new

VARIABLES phase,      \* phase[c]: where wait_func is
          entry,      \* entry[c]: task_states entry and its worker_started
          givenUp,    \* givenUp[c]: cancellation_requested
          resolved,   \* resolved[c]: future.done(), by a result or a cancellation
          liveQueued, \* live_queued
          queue,      \* calls with a tuple in the physical queue
          dispatch,   \* calls in dispatch_queue
          leaseOf,    \* leaseOf[c]: the lease that travels with c
          worker,     \* worker[w]: what executor worker w is doing, and to whom
          pump,       \* what the slot pump is doing, and its lease
          held,       \* held_leases: renewed by every maintenance pass
          pending,    \* pending_release
          slots,      \* this process's leases in the gate's table
          others,     \* slots that other processes have
          stop        \* how far shutdown is

callers == <<phase, entry, givenUp, resolved, liveQueued, queue>>
gate == <<held, pending, slots, others>>
vars == <<callers, dispatch, leaseOf, worker, pump, gate, stop>>

Pump(at, l) == [at |-> at, lease |-> l]
Work(at, c) == [at |-> at, call |-> c]
Free == Work("free", NoCall)

Init ==
    /\ phase = [c \in Call |-> "idle"]
    /\ entry = [c \in Call |-> "none"]
    /\ givenUp = [c \in Call |-> FALSE]
    /\ resolved = [c \in Call |-> FALSE]
    /\ liveQueued = 0
    /\ queue = {}
    /\ dispatch = {}
    /\ leaseOf = [c \in Call |-> NoLease]
    /\ worker = [w \in Worker |-> Free]
    /\ pump = Pump("idle", NoLease)
    /\ held = {} /\ pending = {} /\ slots = {}
    /\ others \in 0..Limit
    /\ stop = "no"

-----------------------------------------------------------------------------
(* The caller: _limited_wait                                               *)

\* admission_cond.notify_all: sleepers look again.
Woken(ph) == [c \in Call |-> IF ph[c] = "asleep" THEN "woken" ELSE ph[c]]

\* Reserve, register and put; then wait for the future.
Admit(c) ==
    /\ liveQueued < MaxQueueSize
    /\ liveQueued' = liveQueued + 1
    /\ entry' = [entry EXCEPT ![c] = "queued"]
    /\ queue' = queue \cup {c}
    /\ phase' = [phase EXCEPT ![c] = "waiting"]

Sleep(c) ==
    /\ liveQueued >= MaxQueueSize
    /\ phase' = [phase EXCEPT ![c] = "asleep"]
    /\ UNCHANGED <<liveQueued, entry, queue>>

\* Entering, and looking again after a wake-up: rejected once shutdown began.
Enter(c) ==
    /\ phase[c] \in {"idle", "woken"}
    /\ \/ stop = "no" /\ (Admit(c) \/ Sleep(c))
       \/ /\ stop # "no"
          /\ phase' = [phase EXCEPT ![c] = "done"]
          /\ UNCHANGED <<liveQueued, entry, queue>>
    /\ UNCHANGED <<givenUp, resolved, dispatch, leaseOf, worker, pump, gate, stop>>

\* _queue_timeout, or a cancellation, while waiting for admission.
LeaveAdmission(c) ==
    /\ phase[c] \in {"asleep", "woken"}
    /\ phase' = [phase EXCEPT ![c] = "done"]
    /\ UNCHANGED <<entry, givenUp, resolved, liveQueued, queue, dispatch, leaseOf,
                   worker, pump, gate, stop>>

\* The finally block: whoever pops an entry that has not started gives its
\* reservation back, and then notifies.
Final_Twice(c) ==                \* bug: the reservation is always given back
    /\ entry' = [entry EXCEPT ![c] = "none"]
    /\ liveQueued' = IF liveQueued > 0 THEN liveQueued - 1 ELSE 0
    /\ phase' = [phase EXCEPT ![c] = "notify"]
Final_NoNotify(c) ==             \* bug: nobody is told
    /\ entry' = [entry EXCEPT ![c] = "none"]
    /\ liveQueued' = IF entry[c] = "queued" THEN liveQueued - 1 ELSE liveQueued
    /\ phase' = [phase EXCEPT ![c] = "done"]
Final(c) ==
    /\ entry' = [entry EXCEPT ![c] = "none"]
    /\ IF entry[c] = "queued"
       THEN /\ liveQueued' = liveQueued - 1
            /\ phase' = [phase EXCEPT ![c] = "notify"]
       ELSE /\ phase' = [phase EXCEPT ![c] = "done"]
            /\ UNCHANGED liveQueued

\* The lock of admission_cond is never held over a suspension either (since
\* Python 3.12, where wait_for runs in the caller's own task), so the caller
\* cannot be cancelled once more while it enters it.
Notify(c) ==
    /\ phase[c] = "notify"
    /\ phase' = Woken([phase EXCEPT ![c] = "done"])
    /\ UNCHANGED <<entry, givenUp, resolved, liveQueued, queue, dispatch, leaseOf,
                   worker, pump, gate, stop>>

Answer(c) ==
    /\ phase[c] = "waiting" /\ resolved[c]
    /\ Final(c)
    /\ UNCHANGED <<givenUp, resolved, queue, dispatch, leaseOf, worker, pump, gate,
                   stop>>

\* The caller's task is cancelled; that cancels the future it awaits.
Cancel(c) ==
    /\ phase[c] = "waiting" /\ ~resolved[c]
    /\ resolved' = [resolved EXCEPT ![c] = TRUE]
    /\ Final(c)
    /\ UNCHANGED <<givenUp, queue, dispatch, leaseOf, worker, pump, gate, stop>>

\* The user timeout marks the entry, then waits a while for its removal.
UserTimeout(c) ==
    /\ phase[c] = "waiting" /\ ~resolved[c]
    /\ resolved' = [resolved EXCEPT ![c] = TRUE]
    /\ givenUp' = [givenUp EXCEPT ![c] = entry[c] # "none"]
    /\ phase' = [phase EXCEPT ![c] = "cleanup"]
    /\ UNCHANGED <<entry, liveQueued, queue, dispatch, leaseOf, worker, pump, gate,
                   stop>>

CleanupEnds(c) ==
    /\ phase[c] = "cleanup"
    /\ Final(c)
    /\ UNCHANGED <<givenUp, resolved, queue, dispatch, leaseOf, worker, pump, gate,
                   stop>>

-----------------------------------------------------------------------------
(* The slot pump                                                           *)

Open == {"no", "drain"}          \* shutdown_event is not set

Running == {w \in Worker : worker[w].at = "run"}               \* executing

\* With work in the queue and a worker to run it, a slot that is free is
\* taken; held_leases learns of it when the RPC returns.
PumpAcquire ==
    /\ stop \in Open /\ pump.at = "idle" /\ queue # {}
    /\ Cardinality(dispatch) + Cardinality(Running) < Cardinality(Worker)
    /\ Cardinality(slots) + others < Limit
    /\ LET l == CHOOSE l \in Lease \ slots : TRUE
       IN slots' = slots \cup {l} /\ pump' = Pump("granted", l)
    /\ UNCHANGED <<callers, dispatch, leaseOf, worker, held, pending, others, stop>>

Zombie(c) == entry[c] = "none" \/ givenUp[c] \/ resolved[c]

\* Zombies are dropped until a live call turns up, the queue is empty or the
\* drain limit is reached.
Drained(Z, live) ==
    /\ Z \subseteq {c \in queue : Zombie(c)}
    /\ IF live = NoCall
       THEN Cardinality(Z) = DrainLimit \/ (Z = queue /\ Cardinality(Z) < DrainLimit)
       ELSE /\ live \in queue /\ ~Zombie(live)
            /\ Cardinality(Z) < DrainLimit

\* The entries the pump removes or starts give back their reservations.
PumpTake ==
    /\ stop \in Open /\ pump.at = "granted"
    /\ held' = held \cup {pump.lease}
    /\ \E Z \in SUBSET queue, live \in Call \cup {NoCall} :
          LET freed == {c \in (Z \cup {live}) \ {NoCall} : entry[c] = "queued"}
              rest == IF live = NoCall THEN pump.lease ELSE NoLease
          IN /\ Drained(Z, live)
             /\ queue' = queue \ (Z \cup {live})
             /\ entry' = [c \in Call |-> IF c \in Z THEN "none"
                                         ELSE IF c = live THEN "started"
                                         ELSE entry[c]]
             /\ liveQueued' = liveQueued - Cardinality(freed)
             /\ dispatch' = dispatch \cup ({live} \ {NoCall})
             /\ leaseOf' = [c \in Call |-> IF c = live THEN pump.lease ELSE leaseOf[c]]
             /\ pump' = Pump(IF freed # {} THEN "notify" ELSE "release", rest)
    /\ UNCHANGED <<phase, givenUp, resolved, worker, pending, slots, others, stop>>

PumpNotify ==
    /\ stop \in Open /\ pump.at = "notify"
    /\ phase' = Woken(phase)
    /\ pump' = Pump("release", pump.lease)
    /\ UNCHANGED <<entry, givenUp, resolved, liveQueued, queue, dispatch, leaseOf,
                   worker, gate, stop>>

\* _release_lease_safely: never renewed again, and freed or parked for retry.
Release_Kept(l) ==               \* bug: a failed release stays renewed
    \/ slots' = slots \ {l} /\ held' = held \ {l} /\ UNCHANGED pending
    \/ pending' = pending \cup {l} /\ UNCHANGED <<slots, held>>
Release(l) ==
    /\ held' = held \ {l}
    /\ \/ slots' = slots \ {l} /\ pending' = pending \ {l}
       \/ pending' = pending \cup {l} /\ UNCHANGED slots

PumpRelease ==
    /\ stop \in Open /\ pump.at = "release"
    /\ IF pump.lease = NoLease THEN UNCHANGED <<held, pending, slots>>
                               ELSE Release(pump.lease)
    /\ pump' = Pump("idle", NoLease)
    /\ UNCHANGED <<callers, dispatch, leaseOf, worker, others, stop>>

-----------------------------------------------------------------------------
(* Executor workers                                                        *)

\* A call given up between dispatch and pick-up is not run.
Pick(w) ==
    /\ stop \in Open /\ worker[w] = Free
    /\ \E c \in dispatch :
          /\ dispatch' = dispatch \ {c}
          /\ IF givenUp[c] \/ resolved[c]
             THEN /\ worker' = [worker EXCEPT ![w] = Work("release", c)]
                  /\ entry' = [entry EXCEPT ![c] = "none"]
             ELSE /\ worker' = [worker EXCEPT ![w] = Work("run", c)]
                  /\ UNCHANGED entry
    /\ UNCHANGED <<phase, givenUp, resolved, liveQueued, queue, leaseOf, pump, gate,
                   stop>>

\* The function returns, raises, times out, or is cancelled by shutdown.  The
\* slot is returned in a step of its own.
RunEnds(w) ==
    LET c == worker[w].call
    IN /\ worker[w].at = "run"
       /\ resolved' = [resolved EXCEPT ![c] = TRUE]
       /\ entry' = [entry EXCEPT ![c] = "none"]
       /\ worker' = [worker EXCEPT ![w] = Work("release", c)]
       /\ UNCHANGED <<phase, givenUp, liveQueued, queue, dispatch, leaseOf, pump,
                      gate, stop>>

ReturnSlot(w) ==
    /\ worker[w].at = "release"
    /\ Release(leaseOf[worker[w].call])
    /\ leaseOf' = [leaseOf EXCEPT ![worker[w].call] = NoLease]
    /\ worker' = [worker EXCEPT ![w] = Free]
    /\ UNCHANGED <<callers, dispatch, pump, others, stop>>

-----------------------------------------------------------------------------
(* enhanced_health_check and _run_maintenance                              *)

Stuck(c) ==
    /\ stop # "down" /\ entry[c] = "started"
    /\ resolved' = [resolved EXCEPT ![c] = TRUE]
    /\ entry' = [entry EXCEPT ![c] = "none"]
    /\ UNCHANGED <<phase, givenUp, liveQueued, queue, dispatch, leaseOf, worker,
                   pump, gate, stop>>

RetryRelease(l) ==
    /\ stop # "down" /\ l \in pending
    /\ slots' = slots \ {l} /\ pending' = pending \ {l}
    /\ UNCHANGED <<callers, dispatch, leaseOf, worker, pump, held, others, stop>>

Compact ==
    LET Z == {c \in queue : Zombie(c)}
        freed == {c \in Z : entry[c] = "queued"}
    IN /\ stop # "down" /\ Cardinality(queue) > liveQueued + CompactAt
       /\ queue' = queue \ Z
       /\ entry' = [c \in Call |-> IF c \in Z THEN "none" ELSE entry[c]]
       /\ liveQueued' = liveQueued - Cardinality(freed)
       /\ phase' = IF freed # {} THEN Woken(phase) ELSE phase
       /\ UNCHANGED <<givenUp, resolved, dispatch, leaseOf, worker, pump, gate, stop>>

-----------------------------------------------------------------------------
(* shutdown                                                                *)

BeginShutdown_Quiet ==          \* bug: the sleepers are not told
    /\ stop = "no" /\ stop' = "drain"
    /\ UNCHANGED <<callers, dispatch, leaseOf, worker, pump, gate>>
BeginShutdown ==
    /\ stop = "no"
    /\ stop' = "drain"
    /\ phase' = Woken(phase)
    /\ UNCHANGED <<entry, givenUp, resolved, liveQueued, queue, dispatch, leaseOf,
                   worker, pump, gate>>

\* queue.join(): every tuple has had its task_done.
Joined ==
    /\ stop = "drain" /\ queue = {} /\ dispatch = {} /\ Running = {}
    /\ stop' = "closing"
    /\ UNCHANGED <<callers, dispatch, leaseOf, worker, pump, gate>>

\* Not graceful, or the drain timed out.
CancelAll ==
    /\ stop = "drain"
    /\ stop' = "closing"
    /\ resolved' = [c \in Call |-> resolved[c] \/ phase[c] = "waiting"]
    /\ entry' = [c \in Call |-> "none"]
    /\ queue' = {}
    /\ UNCHANGED <<phase, givenUp, liveQueued, dispatch, leaseOf, worker, pump, gate>>

\* The pump is cancelled.  A lease whose grant is still on its way back is in
\* nobody's books then; its finally block returns the one it has taken.
ClosePump ==
    /\ stop = "closing" /\ pump.at # "off"
    /\ IF pump.at \in {"notify", "release"} /\ pump.lease # NoLease
       THEN Release(pump.lease)
       ELSE UNCHANGED <<held, pending, slots>>
    /\ pump' = Pump("off", NoLease)
    /\ UNCHANGED <<callers, dispatch, leaseOf, worker, others, stop>>

\* The rest, once pump and workers have ended: undelivered calls are
\* cancelled, all leases in the books are released, failures are ignored.
Close_NoGather ==               \* bug: the workers are not waited for
    /\ stop = "closing" /\ pump.at = "off"
    /\ stop' = "down"
    /\ held' = {} /\ pending' = {} /\ slots' = slots \ (held \cup pending)
    /\ UNCHANGED <<callers, dispatch, leaseOf, worker, pump, others>>
Close ==
    /\ stop = "closing" /\ pump.at = "off" /\ \A w \in Worker : worker[w] = Free
    /\ stop' = "down"
    /\ resolved' = [c \in Call |-> resolved[c] \/ c \in dispatch]
    /\ entry' = [c \in Call |-> IF c \in dispatch THEN "none" ELSE entry[c]]
    /\ dispatch' = {}
    /\ \E failed \in SUBSET slots : slots' = (slots \ (held \cup pending)) \cup failed
    /\ held' = {} /\ pending' = {} /\ leaseOf' = [c \in Call |-> NoLease]
    /\ UNCHANGED <<phase, givenUp, liveQueued, queue, worker, pump, others>>

-----------------------------------------------------------------------------
(* The gate and the other processes                                        *)

\* The reaper of some process takes back a slot that is no longer renewed.
Expire(l) ==
    /\ l \in slots \ held /\ l # pump.lease
    /\ slots' = slots \ {l}
    /\ pending' = pending \ {l}      \* releasing it later changes nothing
    /\ UNCHANGED <<callers, dispatch, leaseOf, worker, pump, held, others, stop>>

OthersTake ==
    /\ Cardinality(slots) + others < Limit
    /\ others' = others + 1
    /\ UNCHANGED <<callers, dispatch, leaseOf, worker, pump, held, pending, slots,
                   stop>>

OthersGive ==
    /\ others > 0
    /\ others' = others - 1
    /\ UNCHANGED <<callers, dispatch, leaseOf, worker, pump, held, pending, slots,
                   stop>>

-----------------------------------------------------------------------------
Caller(c) == Enter(c) \/ LeaveAdmission(c) \/ Notify(c) \/ Answer(c) \/ Cancel(c)
                \/ UserTimeout(c) \/ CleanupEnds(c)
PumpStep == PumpTake \/ PumpNotify \/ PumpRelease
Execute(w) == Pick(w) \/ RunEnds(w) \/ ReturnSlot(w)
Maintenance == Compact \/ (\E c \in Call : Stuck(c)) \/ \E l \in Lease : RetryRelease(l)
Shutdown == BeginShutdown \/ Joined \/ CancelAll \/ ClosePump \/ Close
Gate == (\E l \in Lease : Expire(l)) \/ OthersTake \/ OthersGive

Next == (\E c \in Call : Caller(c)) \/ PumpAcquire \/ PumpStep
           \/ (\E w \in Worker : Execute(w)) \/ Maintenance \/ Shutdown \/ Gate

Spec == Init /\ [][Next]_vars

\* What the event loop does unasked: woken and answered callers, the pump, the
\* workers, whose functions end, and shutdown once begun.  A slot that nobody
\* renews expires.
Loop ==
    \/ \E c \in Call : \/ phase[c] = "woken" /\ Enter(c)
                      \/ Notify(c) \/ Answer(c) \/ CleanupEnds(c)
    \/ PumpStep \/ (\E w \in Worker : Execute(w))
    \/ Joined \/ ClosePump \/ Close \/ \E l \in Lease : Expire(l)

\* Other processes give slots back, and the pump, which keeps asking, is not
\* overtaken for ever (soft FIFO of the waiters).  Nobody has to call, time
\* out, cancel or shut down.
Fairness == WF_vars(Loop) /\ SF_vars(PumpAcquire) /\ WF_vars(OthersGive)

FairSpec == Spec /\ Fairness

-----------------------------------------------------------------------------
TypeOK ==
    /\ phase \in [Call -> {"idle", "asleep", "woken", "waiting", "cleanup", "notify",
                           "done"}]
    /\ entry \in [Call -> {"none", "queued", "started"}]
    /\ givenUp \in [Call -> BOOLEAN] /\ resolved \in [Call -> BOOLEAN]
    /\ liveQueued \in Nat /\ queue \subseteq Call /\ dispatch \subseteq Call
    /\ leaseOf \in [Call -> Lease \cup {NoLease}]
    /\ worker \in [Worker -> {Work(at, c) : at \in {"free", "run", "release"},
                                            c \in Call \cup {NoCall}}]
    /\ pump \in {Pump(at, l) : at \in {"idle", "granted", "notify", "release", "off"},
                               l \in Lease \cup {NoLease}}
    /\ held \subseteq slots /\ pending \subseteq slots /\ slots \subseteq Lease
    /\ others \in 0..Limit /\ stop \in {"no", "drain", "closing", "down"}

\* A reservation is given back exactly once (utils.py:2110-2112): until
\* shutdown throws the rest away, live_queued counts the registered calls that
\* have not started, whichever of pump, compaction and caller ended the others.
ReservationsExact ==
    stop \in Open => liveQueued = Cardinality({c \in Call : entry[c] = "queued"})

\* Nobody sleeps before a queue with room unless a notification is on its way:
\* the decrement and the notify_all are separate steps (utils.py:2241-2245).
AdmissionToldOfRoom ==
    (\E c \in Call : phase[c] = "asleep") /\ liveQueued < MaxQueueSize
        => pump.at = "notify" \/ \E c \in Call : phase[c] = "notify"

\* The calls being executed here and the slots of the other processes never
\* exceed the group's limit, shutdown included.
GlobalLimit == Cardinality(Running) + others <= Limit

\* A lease that is renewed is in the hands of somebody who will release it: a
\* renewed lease nobody releases never expires (utils.py:1241-1266, 1635-1637).
NoOrphanLease ==
    \A l \in held :
        \/ l = pump.lease
        \/ \E c \in dispatch : l = leaseOf[c]
        \/ \E w \in Worker : worker[w] # Free /\ l = leaseOf[worker[w].call]

\* Every call is answered in the end, by a result, a rejection or an error,
\* whatever times out, is cancelled or is shut down meanwhile.
EveryCallAnswered == \A c \in Call : phase[c] # "idle" ~> phase[c] = "done"
=============================================================================
