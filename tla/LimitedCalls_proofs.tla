-------------------------- MODULE LimitedCalls_proofs --------------------------
(***************************************************************************)
(* Proofs about the priority limiter in global-limit mode, for every       *)
(* number of calls, workers, slots and places in the queue.                *)
(*                                                                         *)
(* Two books have to balance.  live_queued is compared with the registered *)
(* calls that have not started; that balance holds because a call is in    *)
(* one place at a time, so that no two of pump, worker, compaction and     *)
(* caller end it.  The slots in the gate's table are compared with the     *)
(* calls being executed; that balance holds because every executed call    *)
(* carries a renewed lease of its own.                                     *)
(***************************************************************************)
EXTENDS LimitedCalls, FiniteSetTheorems, TLAPS

-----------------------------------------------------------------------------
(* The inductive invariant                                                 *)

\* An executor worker that is not free has a call.
Busy == {w \in Worker : worker[w].at # "free"}
Queued == {c \in Call : entry[c] = "queued"}

\* A call is in one place: not yet admitted, queued, dispatched or with one
\* worker.
Places ==
    /\ \A c \in Call : entry[c] = "queued" => c \in queue
    /\ \A c \in Call : phase[c] \in {"idle", "asleep", "woken"} =>
          c \notin queue /\ leaseOf[c] = NoLease
    /\ \A c \in queue : leaseOf[c] = NoLease
    /\ \A c \in dispatch : leaseOf[c] # NoLease
    /\ \A w \in Worker : IF worker[w].at = "free" THEN worker[w] = Free
                         ELSE /\ worker[w].call \in Call \ dispatch
                              /\ leaseOf[worker[w].call] # NoLease
    /\ \A v, w \in Busy : v # w => worker[v].call # worker[w].call

\* A lease that travels with a call or with the pump is renewed, is not parked
\* for a release, and travels with nobody else.
Hands ==
    /\ \A c \in Call : leaseOf[c] # NoLease =>
          /\ leaseOf[c] \in held /\ leaseOf[c] # pump.lease
          /\ \A d \in Call \ {c} : leaseOf[d] # leaseOf[c]
          /\ c \in dispatch \/ \E w \in Busy : worker[w].call = c
    /\ held \cap pending = {}
    /\ pump.at \in {"idle", "off"} => pump.lease = NoLease
    /\ pump.at = "granted" => pump.lease \in slots \ (held \cup pending)
    /\ pump.at \in {"notify", "release"} => pump.lease \in held \cup {NoLease}

\* Nobody is admitted, and nobody sleeps, once the shutdown is under way.
Closing ==
    /\ stop # "no" => \A c \in Call : phase[c] # "asleep"
    /\ stop \notin Open => queue = {}

Counted == Cardinality(Queued) <= liveQueued
SlotsWithinLimit == Cardinality(slots) + others <= Limit

Inv == /\ TypeOK /\ Places /\ Hands /\ Closing /\ Counted /\ SlotsWithinLimit
       /\ ReservationsExact /\ AdmissionToldOfRoom /\ NoOrphanLease

-----------------------------------------------------------------------------
(* Facts about finite sets of calls and leases                             *)

LEMMA CallSets ==
    ASSUME NEW S, S \subseteq Call, NEW F, F \subseteq S
    PROVE  /\ IsFiniteSet(S) /\ Cardinality(S) \in Nat /\ Cardinality(F) \in Nat
           /\ Cardinality(F) <= Cardinality(S)
           /\ Cardinality(S \ F) = Cardinality(S) - Cardinality(F)
           /\ Cardinality(F) = 0 <=> F = {}
<1>1. IsFiniteSet(S)
  BY FS_Subset, LimitedCallsAssumption
<1>2. IsFiniteSet(F) /\ Cardinality(F) <= Cardinality(S)
  BY <1>1, FS_Subset
<1>3. Cardinality(S) \in Nat /\ Cardinality(F) \in Nat
  BY <1>1, <1>2, FS_CardinalityType
<1>4. S \cap F = F
  OBVIOUS
<1>5. Cardinality(S \ F) = Cardinality(S) - Cardinality(F)
  BY <1>1, <1>4, FS_Difference
<1>6. QED
  BY <1>1, <1>2, <1>3, <1>5, FS_EmptySet

LEMMA OneMoreCall ==
    ASSUME NEW S, S \subseteq Call, NEW c, c \notin S
    PROVE  Cardinality(S \cup {c}) = Cardinality(S) + 1
<1>1. IsFiniteSet(S)
  BY FS_Subset, LimitedCallsAssumption
<1>2. QED
  BY <1>1, FS_AddElement

LEMMA OneCall == ASSUME NEW c PROVE Cardinality({c}) = 1
BY FS_Singleton

LEMMA LeaseSets ==
    ASSUME NEW S, S \subseteq Lease, NEW T, T \subseteq S
    PROVE  /\ IsFiniteSet(S) /\ Cardinality(S) \in Nat /\ Cardinality(T) \in Nat
           /\ Cardinality(T) <= Cardinality(S)
<1>1. IsFiniteSet(S)
  BY FS_Subset, LimitedCallsAssumption
<1>2. IsFiniteSet(T) /\ Cardinality(T) <= Cardinality(S)
  BY <1>1, FS_Subset
<1>3. QED
  BY <1>1, <1>2, FS_CardinalityType

LEMMA OneMoreLease ==
    ASSUME NEW S, S \subseteq Lease, NEW l, l \notin S
    PROVE  Cardinality(S \cup {l}) = Cardinality(S) + 1
<1>1. IsFiniteSet(S)
  BY FS_Subset, LimitedCallsAssumption
<1>2. QED
  BY <1>1, FS_AddElement

\* While the gate has a free slot there is a lease id that is not in use.
LEMMA FreshLease ==
    ASSUME NEW S, S \subseteq Lease, Cardinality(S) < Limit
    PROVE  Lease \ S # {}
<1>1. SUFFICES ASSUME Lease \subseteq S PROVE FALSE
  OBVIOUS
<1>2. S = Lease
  BY <1>1
<1>3. Cardinality(Lease) \in Nat
  BY FS_CardinalityType, LimitedCallsAssumption
<1>4. QED
  BY <1>2, <1>3, LimitedCallsAssumption

-----------------------------------------------------------------------------
(* What several steps have in common                                       *)

\* The reservations balance as long as nobody touches them.
LEMMA SameReservations ==
    ASSUME Inv, UNCHANGED <<entry, liveQueued>>, stop' \in Open => stop \in Open
    PROVE  Counted' /\ ReservationsExact'
BY DEF Inv, Counted, Queued, ReservationsExact

\* They balance as well when calls leave the registered ones and take exactly
\* their reservations with them.
LEMMA ReservationsBack ==
    ASSUME Inv, NEW F, F \subseteq Queued, Queued' = Queued \ F,
           liveQueued' = liveQueued - Cardinality(F), stop' \in Open => stop \in Open
    PROVE  /\ liveQueued' \in Nat /\ Counted' /\ ReservationsExact'
           /\ F # {} => liveQueued' < liveQueued
           /\ F = {} => liveQueued' = liveQueued
<1>1. Queued \subseteq Call
  BY DEF Queued
<1>2. /\ Cardinality(Queued) \in Nat /\ Cardinality(F) \in Nat
      /\ Cardinality(F) <= Cardinality(Queued)
      /\ Cardinality(Queued') = Cardinality(Queued) - Cardinality(F)
      /\ Cardinality(F) = 0 <=> F = {}
  BY <1>1, CallSets
<1>3. liveQueued \in Nat /\ Cardinality(Queued) <= liveQueued
  BY DEF Inv, TypeOK, Counted
<1>4. stop \in Open => liveQueued = Cardinality(Queued)
  BY DEF Inv, ReservationsExact, Queued
<1>5. ReservationsExact' <=> (stop' \in Open => liveQueued' = Cardinality(Queued'))
  BY DEF ReservationsExact, Queued
<1>6. Counted' <=> Cardinality(Queued') <= liveQueued'
  BY DEF Counted
<1>7. liveQueued' \in Nat
  BY <1>2, <1>3
<1>8. Counted'
  BY <1>2, <1>3, <1>6
<1>9. ReservationsExact'
  BY <1>2, <1>3, <1>4, <1>5
<1>10. (F # {} => liveQueued' < liveQueued) /\ (F = {} => liveQueued' = liveQueued)
  BY <1>2, <1>3
<1>11. QED
  BY <1>7, <1>8, <1>9, <1>10

\* The leases stay in good hands as long as nobody touches them.
LEMMA SameHands ==
    ASSUME Inv, UNCHANGED <<dispatch, leaseOf, worker, pump, gate>>
    PROVE  Hands' /\ SlotsWithinLimit' /\ NoOrphanLease'
BY DEF Inv, Hands, Busy, SlotsWithinLimit, NoOrphanLease, gate

\* Waking the sleepers tells everybody.
LEMMA AllWoken ==
    ASSUME Inv, NEW ph, phase' = Woken(ph), ph \in [Call -> {"idle", "asleep", "woken",
             "waiting", "cleanup", "notify", "done"}]
    PROVE  /\ phase' \in [Call -> {"idle", "asleep", "woken", "waiting", "cleanup",
                                   "notify", "done"}]
           /\ AdmissionToldOfRoom'
           /\ \A c \in Call : phase'[c] # "asleep"
           /\ \A c \in Call : phase'[c] = ph[c] \/ (ph[c] = "asleep" /\ phase'[c] = "woken")
BY DEF Woken, AdmissionToldOfRoom

\* Releasing a renewed lease, whether or not the release succeeds.
LEMMA Released ==
    ASSUME Inv, NEW l \in held, Release(l), UNCHANGED others
    PROVE  /\ held' = held \ {l} /\ slots' \subseteq slots /\ slots \ {l} \subseteq slots'
           /\ held' \subseteq slots' /\ pending' \subseteq slots'
           /\ pending \subseteq pending' /\ pending' \subseteq pending \cup {l}
           /\ held' \cap pending' = {} /\ SlotsWithinLimit'
<1>1. l \in slots /\ l \notin pending /\ held \subseteq slots /\ pending \subseteq slots
      /\ held \cap pending = {} /\ slots \subseteq Lease /\ others \in Nat
  BY LimitedCallsAssumption DEF Inv, TypeOK, Hands
<1>2. /\ held' = held \ {l} /\ slots' \subseteq slots /\ slots \ {l} \subseteq slots'
      /\ held' \subseteq slots' /\ pending' \subseteq slots'
      /\ pending \subseteq pending' /\ pending' \subseteq pending \cup {l}
      /\ held' \cap pending' = {}
  BY <1>1 DEF Release
<1>3. /\ Cardinality(slots') \in Nat /\ Cardinality(slots) \in Nat
      /\ Cardinality(slots') <= Cardinality(slots)
  BY <1>1, <1>2, LeaseSets
<1>4. SlotsWithinLimit'
  BY <1>1, <1>3, LimitedCallsAssumption DEF Inv, SlotsWithinLimit
<1>5. QED
  BY <1>2, <1>4

-----------------------------------------------------------------------------
(* The caller                                                              *)

LEMMA InitInv == Init => Inv
<1> SUFFICES ASSUME Init PROVE Inv
  OBVIOUS
<1>1. Queued = {} /\ {c \in Call : entry[c] = "queued"} = {}
  BY DEF Init, Queued
<1>2. Cardinality({}) = 0
  BY FS_EmptySet
<1>3. Counted /\ ReservationsExact
  BY <1>1, <1>2 DEF Init, Counted, ReservationsExact
<1>4. SlotsWithinLimit
  BY <1>2, LimitedCallsAssumption DEF Init, SlotsWithinLimit
<1>5. TypeOK
  <2>1. Free \in {Work(at, c) : at \in {"free", "run", "release"}, c \in Call \cup {NoCall}}
    BY DEF Free
  <2>2. pump \in {Pump(at, l) : at \in {"idle", "granted", "notify", "release", "off"},
                                l \in Lease \cup {NoLease}}
    BY DEF Init
  <2>3. worker \in [Worker -> {Work(at, c) : at \in {"free", "run", "release"},
                                             c \in Call \cup {NoCall}}]
    BY <2>1 DEF Init
  <2>4. QED
    BY <2>2, <2>3 DEF Init, TypeOK
<1>6. Places /\ Hands /\ Closing /\ AdmissionToldOfRoom /\ NoOrphanLease
  BY DEF Init, Places, Hands, Busy, Closing, Open, AdmissionToldOfRoom, NoOrphanLease,
         Pump, Work, Free
<1>7. QED
  BY <1>3, <1>4, <1>5, <1>6 DEF Inv

\* A call that is admitted is nowhere yet, and its reservation is new.
LEMMA AdmitStep ==
    ASSUME Inv, NEW c \in Call, phase[c] \in {"idle", "woken"}, stop = "no", Admit(c),
           UNCHANGED <<givenUp, resolved, dispatch, leaseOf, worker, pump, gate, stop>>
    PROVE  Inv'
<1>1. c \notin queue /\ leaseOf[c] = NoLease /\ entry[c] # "queued"
  BY DEF Inv, Places
<1>2. c \notin dispatch /\ \A w \in Busy : worker[w].call # c
  BY <1>1 DEF Inv, Places, Busy
<1>3. /\ entry' = [entry EXCEPT ![c] = "queued"] /\ queue' = queue \cup {c}
      /\ phase' = [phase EXCEPT ![c] = "waiting"]
      /\ liveQueued' = liveQueued + 1 /\ liveQueued < MaxQueueSize
  BY DEF Admit
<1>4. TypeOK'
  BY <1>3 DEF Inv, TypeOK, gate
<1>5. Places'
  BY <1>1, <1>2, <1>3 DEF Inv, TypeOK, Places, Busy
<1>6. Hands' /\ SlotsWithinLimit' /\ NoOrphanLease'
  BY SameHands
<1>7. Closing'
  BY <1>3 DEF Inv, TypeOK, Closing, Open
<1>8. Counted' /\ ReservationsExact'
  <2>1. Queued \subseteq Call /\ c \notin Queued /\ Queued' = Queued \cup {c}
    BY <1>1, <1>3 DEF Inv, TypeOK, Queued
  <2>2. Cardinality(Queued') = Cardinality(Queued) + 1 /\ Cardinality(Queued) \in Nat
    BY <2>1, OneMoreCall, CallSets
  <2>3. liveQueued \in Nat /\ Cardinality(Queued) <= liveQueued
    BY DEF Inv, TypeOK, Counted
  <2>4. Counted'
    BY <1>3, <2>2, <2>3 DEF Counted
  <2>5. stop \in Open => liveQueued = Cardinality(Queued)
    BY DEF Inv, ReservationsExact, Queued
  <2>6. ReservationsExact' <=> (stop' \in Open => liveQueued' = Cardinality(Queued'))
    BY DEF ReservationsExact, Queued
  <2>7. QED
    BY <1>3, <2>2, <2>4, <2>5, <2>6
<1>9. AdmissionToldOfRoom'
  BY <1>3, LimitedCallsAssumption DEF Inv, TypeOK, AdmissionToldOfRoom
<1>10. QED
  BY <1>4, <1>5, <1>6, <1>7, <1>8, <1>9 DEF Inv

\* Falling asleep, being rejected and giving up before admission.
LEMMA OutsideStep ==
    ASSUME Inv, NEW c \in Call, phase[c] \in {"idle", "asleep", "woken"},
           NEW at \in {"asleep", "done"}, phase' = [phase EXCEPT ![c] = at],
           at = "asleep" => stop = "no" /\ liveQueued >= MaxQueueSize,
           UNCHANGED <<entry, givenUp, resolved, liveQueued, queue, dispatch, leaseOf,
                       worker, pump, gate, stop>>
    PROVE  Inv'
<1>1. TypeOK'
  BY DEF Inv, TypeOK, gate
<1>2. Places'
  BY DEF Inv, TypeOK, Places, Busy
<1>3. Hands' /\ SlotsWithinLimit' /\ NoOrphanLease'
  BY SameHands
<1>4. Closing'
  BY DEF Inv, TypeOK, Closing
<1>5. Counted' /\ ReservationsExact'
  BY SameReservations
<1>6. AdmissionToldOfRoom'
  BY LimitedCallsAssumption DEF Inv, TypeOK, AdmissionToldOfRoom
<1>7. QED
  BY <1>1, <1>2, <1>3, <1>4, <1>5, <1>6 DEF Inv

LEMMA EnterStep == ASSUME Inv, NEW c \in Call, Enter(c) PROVE Inv'
<1>1. phase[c] \in {"idle", "woken"}
  BY DEF Enter
<1>2. UNCHANGED <<givenUp, resolved, dispatch, leaseOf, worker, pump, gate, stop>>
  BY DEF Enter
<1>3. CASE stop = "no" /\ Admit(c)
  BY <1>1, <1>2, <1>3, AdmitStep
<1>4. CASE stop = "no" /\ Sleep(c)
  BY <1>1, <1>2, <1>4, OutsideStep DEF Sleep
<1>5. CASE stop # "no"
  BY <1>1, <1>2, <1>5, OutsideStep DEF Enter
<1>6. QED
  BY <1>3, <1>4, <1>5 DEF Enter

LEMMA LeaveAdmissionStep == ASSUME Inv, NEW c \in Call, LeaveAdmission(c) PROVE Inv'
BY OutsideStep DEF LeaveAdmission

LEMMA NotifyStep == ASSUME Inv, NEW c \in Call, Notify(c) PROVE Inv'
<1>1. UNCHANGED <<entry, givenUp, resolved, liveQueued, queue, dispatch, leaseOf,
                  worker, pump, gate, stop>>
  BY DEF Notify
<1> DEFINE ph == [phase EXCEPT ![c] = "done"]
<1>2. ph \in [Call -> {"idle", "asleep", "woken", "waiting", "cleanup", "notify", "done"}]
  BY DEF Inv, TypeOK
<1>3. \A d \in Call : ph[d] = phase[d] \/ (d = c /\ ph[d] = "done")
  BY DEF Inv, TypeOK
<1>4. phase[c] = "notify"
  BY DEF Notify
<1> HIDE DEF ph
<1>5. /\ phase' \in [Call -> {"idle", "asleep", "woken", "waiting", "cleanup",
                              "notify", "done"}]
      /\ AdmissionToldOfRoom'
      /\ \A d \in Call : phase'[d] # "asleep"
      /\ \A d \in Call : phase'[d] = ph[d] \/ (ph[d] = "asleep" /\ phase'[d] = "woken")
  <2>1. phase' = Woken(ph)
    BY DEF Notify, ph
  <2>2. QED
    BY <1>2, <2>1, AllWoken
<1>6. TypeOK'
  BY <1>1, <1>5 DEF Inv, TypeOK, gate
<1>7. Places'
  BY <1>4, <1>1, <1>3, <1>5 DEF Inv, TypeOK, Places, Busy
<1>8. Hands' /\ SlotsWithinLimit' /\ NoOrphanLease'
  BY <1>1, SameHands
<1>9. Closing'
  BY <1>1, <1>5 DEF Inv, Closing
<1>10. Counted' /\ ReservationsExact'
  BY <1>1, SameReservations
<1>11. QED
  BY <1>5, <1>6, <1>7, <1>8, <1>9, <1>10 DEF Inv

\* The finally block of a call that was admitted: the reservation goes back
\* unless another ended it before, and it is told.
LEMMA FinalStep ==
    ASSUME Inv, NEW c \in Call, phase[c] \in {"waiting", "cleanup"}, Final(c),
           resolved' \in [Call -> BOOLEAN],
           UNCHANGED <<givenUp, queue, dispatch, leaseOf, worker, pump, gate, stop>>
    PROVE  Inv'
<1>1. /\ entry' = [entry EXCEPT ![c] = "none"]
      /\ phase' = [phase EXCEPT ![c] = IF entry[c] = "queued" THEN "notify" ELSE "done"]
      /\ liveQueued' = IF entry[c] = "queued" THEN liveQueued - 1 ELSE liveQueued
  BY DEF Final
<1> DEFINE F == IF entry[c] = "queued" THEN {c} ELSE {}
<1>2. F \subseteq Queued /\ Queued' = Queued \ F
  BY <1>1 DEF Inv, TypeOK, Queued
<1>3. liveQueued' = liveQueued - Cardinality(F)
  <2>1. CASE entry[c] = "queued"
    BY <1>1, <2>1, OneCall
  <2>2. CASE entry[c] # "queued"
    BY <1>1, <2>2, FS_EmptySet DEF Inv, TypeOK
  <2>3. QED
    BY <2>1, <2>2
<1>4. /\ liveQueued' \in Nat /\ Counted' /\ ReservationsExact'
      /\ F # {} => liveQueued' < liveQueued
      /\ F = {} => liveQueued' = liveQueued
  <2> HIDE DEF F
  <2>1. QED
    BY <1>2, <1>3, ReservationsBack
<1>5. TypeOK'
  BY <1>1, <1>4 DEF Inv, TypeOK, gate
<1>6. Places'
  BY <1>1 DEF Inv, TypeOK, Places, Busy
<1>7. Hands' /\ SlotsWithinLimit' /\ NoOrphanLease'
  BY SameHands
<1>8. Closing'
  BY <1>1 DEF Inv, TypeOK, Closing
<1>9. AdmissionToldOfRoom'
  BY <1>1 DEF Inv, TypeOK, AdmissionToldOfRoom
<1>10. QED
  BY <1>4, <1>5, <1>6, <1>7, <1>8, <1>9 DEF Inv

LEMMA AnswerStep ==
    ASSUME Inv, NEW c \in Call, Answer(c) \/ Cancel(c) \/ CleanupEnds(c)
    PROVE  Inv'
<1>1. /\ phase[c] \in {"waiting", "cleanup"} /\ Final(c)
      /\ UNCHANGED <<givenUp, queue, dispatch, leaseOf, worker, pump, gate, stop>>
  BY DEF Answer, Cancel, CleanupEnds
<1>2. resolved' \in [Call -> BOOLEAN]
  <2>1. resolved \in [Call -> BOOLEAN]
    BY DEF Inv, TypeOK
  <2>2. resolved' = resolved \/ resolved' = [resolved EXCEPT ![c] = TRUE]
    BY DEF Answer, Cancel, CleanupEnds
  <2>3. QED
    BY <2>1, <2>2
<1>3. QED
  BY <1>1, <1>2, FinalStep

LEMMA UserTimeoutStep == ASSUME Inv, NEW c \in Call, UserTimeout(c) PROVE Inv'
<1>1. /\ UNCHANGED <<entry, liveQueued, queue, dispatch, leaseOf, worker, pump, gate, stop>>
      /\ phase[c] = "waiting" /\ phase' = [phase EXCEPT ![c] = "cleanup"]
      /\ resolved' = [resolved EXCEPT ![c] = TRUE]
      /\ givenUp' = [givenUp EXCEPT ![c] = entry[c] # "none"]
  BY DEF UserTimeout
<1>2. TypeOK'
  BY <1>1 DEF Inv, TypeOK, gate
<1>3. Places'
  BY <1>1 DEF Inv, TypeOK, Places, Busy
<1>4. Hands' /\ SlotsWithinLimit' /\ NoOrphanLease'
  BY <1>1, SameHands
<1>5. Closing'
  BY <1>1 DEF Inv, TypeOK, Closing
<1>6. Counted' /\ ReservationsExact'
  BY <1>1, SameReservations
<1>7. AdmissionToldOfRoom'
  BY <1>1 DEF Inv, TypeOK, AdmissionToldOfRoom
<1>8. QED
  BY <1>2, <1>3, <1>4, <1>5, <1>6, <1>7 DEF Inv

-----------------------------------------------------------------------------
(* The slot pump                                                           *)

\* What a state of the pump or of a worker is made of.
LEMMA PumpFields ==
    ASSUME NEW at, NEW l
    PROVE  Pump(at, l).at = at /\ Pump(at, l).lease = l
BY DEF Pump

LEMMA WorkFields ==
    ASSUME NEW at, NEW c
    PROVE  Work(at, c).at = at /\ Work(at, c).call = c
BY DEF Work

LEMMA PumpAcquireStep == ASSUME Inv, PumpAcquire PROVE Inv'
<1>1. /\ UNCHANGED <<callers, dispatch, leaseOf, worker, held, pending, others, stop>>
      /\ pump.at = "idle" /\ Cardinality(slots) + others < Limit
  BY DEF PumpAcquire
<1>2. slots \subseteq Lease /\ others \in Nat /\ held \subseteq slots /\ pending \subseteq slots
  BY LimitedCallsAssumption DEF Inv, TypeOK
<1>3. Cardinality(slots) \in Nat
  BY <1>2, LeaseSets
<1>4. PICK l \in Lease \ slots : slots' = slots \cup {l} /\ pump' = Pump("granted", l)
  <2>1. Lease \ slots # {}
    BY <1>1, <1>2, <1>3, FreshLease, LimitedCallsAssumption
  <2>2. (CHOOSE l \in Lease \ slots : TRUE) \in Lease \ slots
    BY <2>1
  <2>3. QED
    BY <2>2 DEF PumpAcquire
<1>5. pump'.at = "granted" /\ pump'.lease = l
  BY <1>4, PumpFields
<1>6. TypeOK'
  <2>1. pump' \in {Pump(at, k) : at \in {"idle", "granted", "notify", "release", "off"},
                                 k \in Lease \cup {NoLease}}
    BY <1>4
  <2>2. QED
    BY <1>1, <1>2, <1>4, <2>1 DEF Inv, TypeOK, callers
<1>7. Places'
  BY <1>1 DEF Inv, Places, Busy, callers
<1>8. Hands'
  BY <1>1, <1>2, <1>4, <1>5 DEF Inv, Hands, Busy
<1>9. SlotsWithinLimit'
  BY <1>1, <1>2, <1>3, <1>4, OneMoreLease, LimitedCallsAssumption DEF SlotsWithinLimit
<1>10. NoOrphanLease'
  BY <1>1, LimitedCallsAssumption, <1>2 DEF Inv, Hands, NoOrphanLease
<1>11. Closing' /\ AdmissionToldOfRoom'
  BY <1>1 DEF Inv, Closing, AdmissionToldOfRoom, callers
<1>12. Counted' /\ ReservationsExact'
  BY <1>1, SameReservations DEF callers
<1>13. QED
  BY <1>6, <1>7, <1>8, <1>9, <1>10, <1>11, <1>12 DEF Inv

\* The pump drops dead calls and hands its lease to the first live one, or
\* keeps it to release it.
LEMMA PumpTakeStep == ASSUME Inv, PumpTake PROVE Inv'
<1>1. UNCHANGED <<phase, givenUp, resolved, worker, pending, slots, others, stop>>
  BY DEF PumpTake
<1>2. PICK Z \in SUBSET queue, live \in Call \cup {NoCall} :
        LET freed == {c \in (Z \cup {live}) \ {NoCall} : entry[c] = "queued"}
            rest == IF live = NoCall THEN pump.lease ELSE NoLease
        IN /\ Drained(Z, live)
           /\ queue' = queue \ (Z \cup {live})
           /\ entry' = [c \in Call |-> IF c \in Z THEN "none"
                                       ELSE IF c = live THEN "started"
                                       ELSE entry[c]]
           /\ liveQueued' = liveQueued - Cardinality(freed)
           /\ dispatch' = dispatch \cup ({live} \ {NoCall})
           /\ leaseOf' = [c \in Call |-> IF c = live THEN pump.lease ELSE leaseOf[c]]
           /\ pump' = Pump(IF freed # {} THEN "notify" ELSE "release", rest)
  BY DEF PumpTake
<1> DEFINE F == {c \in (Z \cup {live}) \ {NoCall} : entry[c] = "queued"}
<1> DEFINE rest == IF live = NoCall THEN pump.lease ELSE NoLease
<1>3. /\ held' = held \cup {pump.lease} /\ pump.at = "granted" /\ stop \in Open
      /\ pump.lease \in slots \ (held \cup pending) /\ slots \subseteq Lease
      /\ pump.lease \in Lease
  BY DEF PumpTake, Inv, TypeOK, Hands
<1>4. live # NoCall => live \in queue /\ live \notin Z
  BY <1>2 DEF Drained
<1>5. /\ queue' = queue \ (Z \cup {live}) /\ queue \subseteq Call
      /\ dispatch' = dispatch \cup ({live} \ {NoCall})
      /\ leaseOf' = [c \in Call |-> IF c = live THEN pump.lease ELSE leaseOf[c]]
  BY <1>2 DEF Inv, TypeOK
<1>6. entry' = [c \in Call |-> IF c \in Z THEN "none"
                               ELSE IF c = live THEN "started" ELSE entry[c]]
  BY <1>2
<1>7. pump'.at = (IF F # {} THEN "notify" ELSE "release") /\ pump'.lease = rest
  BY <1>2, PumpFields
<1>8. live # NoCall => /\ leaseOf[live] = NoLease /\ live \notin dispatch
                       /\ \A w \in Busy : worker[w].call # live
  BY <1>4 DEF Inv, Places, Busy
<1>9. F \subseteq Queued /\ Queued' = Queued \ F
  BY <1>4, <1>5, <1>6, LimitedCallsAssumption DEF Queued
<1>10. /\ liveQueued' \in Nat /\ Counted' /\ ReservationsExact'
       /\ F # {} => liveQueued' < liveQueued
       /\ F = {} => liveQueued' = liveQueued
  <2>1. liveQueued' = liveQueued - Cardinality(F)
    BY <1>2
  <2> HIDE DEF F
  <2>2. QED
    BY <1>1, <1>9, <2>1, ReservationsBack
<1>11. TypeOK'
  <2>1. rest \in Lease \cup {NoLease}
    BY <1>3
  <2>2. pump' \in {Pump(at, l) : at \in {"idle", "granted", "notify", "release", "off"},
                                 l \in Lease \cup {NoLease}}
    <3> HIDE DEF F, rest
    <3>1. pump' = Pump(IF F # {} THEN "notify" ELSE "release", rest)
      BY <1>2 DEF F, rest
    <3>2. (IF F # {} THEN "notify" ELSE "release")
             \in {"idle", "granted", "notify", "release", "off"}
      OBVIOUS
    <3>3. QED
      BY <2>1, <3>1, <3>2
  <2>3. entry' \in [Call -> {"none", "queued", "started"}]
    BY <1>6 DEF Inv, TypeOK
  <2>4. leaseOf' \in [Call -> Lease \cup {NoLease}]
    BY <1>3, <1>5 DEF Inv, TypeOK
  <2>5. queue' \subseteq Call /\ dispatch' \subseteq Call /\ held' \subseteq slots
    BY <1>3, <1>5 DEF Inv, TypeOK
  <2>6. QED
    BY <1>1, <1>10, <2>2, <2>3, <2>4, <2>5 DEF Inv, TypeOK
<1>12. Places'
  BY <1>1, <1>3, <1>4, <1>5, <1>6, <1>8, LimitedCallsAssumption
     DEF Inv, TypeOK, Places, Busy
<1>13. Hands'
  BY <1>1, <1>3, <1>4, <1>5, <1>7, <1>8, LimitedCallsAssumption DEF Inv, TypeOK, Hands, Busy
<1>14. SlotsWithinLimit' /\ Closing'
  BY <1>1, <1>5 DEF Inv, SlotsWithinLimit, Closing
<1>15. NoOrphanLease'
  <2> SUFFICES ASSUME NEW l \in held'
               PROVE  \/ l = pump'.lease
                      \/ \E c \in dispatch' : l = leaseOf'[c]
                      \/ \E w \in Worker : worker[w] # Free /\ l = leaseOf'[worker[w].call]
    BY <1>1 DEF NoOrphanLease
  <2>1. CASE l = pump.lease
    <3>1. CASE live = NoCall
      BY <1>7, <2>1, <3>1
    <3>2. CASE live # NoCall
      <4>1. live \in dispatch' /\ live \in Call
        BY <1>5, <3>2
      <4>2. leaseOf'[live] = pump.lease
        BY <1>5, <4>1
      <4>3. QED
        BY <2>1, <4>1, <4>2
    <3>3. QED
      BY <3>1, <3>2
  <2>2. ASSUME NEW c \in dispatch, l = leaseOf[c]
        PROVE  c \in dispatch' /\ l = leaseOf'[c]
    BY <1>5, <1>8, <2>2, LimitedCallsAssumption DEF Inv, TypeOK
  <2>3. ASSUME NEW w \in Worker, worker[w] # Free, l = leaseOf[worker[w].call]
        PROVE  l = leaseOf'[worker[w].call]
    <3>1. w \in Busy /\ worker[w].call \in Call
      BY <2>3 DEF Inv, Places, Busy
    <3>2. worker[w].call # live
      BY <1>8, <3>1, LimitedCallsAssumption
    <3>3. QED
      BY <1>5, <2>3, <3>1, <3>2
  <2>4. l = pump.lease \/ l \in held
    BY <1>3
  <2>5. QED
    BY <2>1, <2>2, <2>3, <2>4 DEF Inv, NoOrphanLease
<1>16. AdmissionToldOfRoom'
  BY <1>1, <1>3, <1>7, <1>10, LimitedCallsAssumption DEF Inv, TypeOK, AdmissionToldOfRoom
<1>17. QED
  BY <1>10, <1>11, <1>12, <1>13, <1>14, <1>15, <1>16 DEF Inv

\* The pump lets go of the lease it has, if it has one, at the end of a round
\* or because it is cancelled.
LEMMA PumpGivesUp ==
    ASSUME Inv, NEW at \in {"idle", "off"}, pump' = Pump(at, NoLease),
           pump.at # "notify" \/ stop \notin Open,
           IF pump.at \in {"notify", "release"} /\ pump.lease # NoLease
           THEN Release(pump.lease) ELSE UNCHANGED <<held, pending, slots>>,
           UNCHANGED <<callers, dispatch, leaseOf, worker, others, stop>>
    PROVE  Inv'
<1>1. pump'.at = at /\ pump'.lease = NoLease
  BY PumpFields
<1>2. /\ held' = held \ {pump.lease} /\ slots' \subseteq slots
      /\ held' \subseteq slots' /\ pending' \subseteq slots'
      /\ held' \cap pending' = {} /\ SlotsWithinLimit'
  <2>1. CASE pump.at \in {"notify", "release"} /\ pump.lease # NoLease
    <3>1. pump.lease \in held /\ Release(pump.lease)
      BY <2>1 DEF Inv, Hands
    <3>2. QED
      BY <3>1, Released
  <2>2. CASE ~(pump.at \in {"notify", "release"} /\ pump.lease # NoLease)
    <3>1. pump.lease \notin held
      BY <2>2, LimitedCallsAssumption DEF Inv, TypeOK, Hands, Pump
    <3>2. UNCHANGED <<held, pending, slots>>
      BY <2>2
    <3>3. QED
      BY <3>1, <3>2 DEF Inv, TypeOK, Hands, SlotsWithinLimit
  <2>3. QED
    BY <2>1, <2>2
<1>3. TypeOK'
  <2>1. pump' \in {Pump(a, l) : a \in {"idle", "granted", "notify", "release", "off"},
                                l \in Lease \cup {NoLease}}
    OBVIOUS
  <2>2. QED
    BY <1>2, <2>1 DEF Inv, TypeOK, callers
<1>4. Places'
  BY DEF Inv, Places, Busy, callers
<1>5. Hands'
  BY <1>1, <1>2, LimitedCallsAssumption DEF Inv, TypeOK, Hands, Busy
<1>6. NoOrphanLease'
  BY <1>1, <1>2 DEF Inv, NoOrphanLease
<1>7. Closing'
  BY DEF Inv, Closing, callers
<1>8. AdmissionToldOfRoom'
  BY LimitedCallsAssumption DEF Inv, AdmissionToldOfRoom, Closing, Open, callers
<1>9. Counted' /\ ReservationsExact'
  BY SameReservations DEF callers
<1>10. QED
  BY <1>2, <1>3, <1>4, <1>5, <1>6, <1>7, <1>8, <1>9 DEF Inv

LEMMA PumpNotifyStep == ASSUME Inv, PumpNotify PROVE Inv'
<1>1. /\ UNCHANGED <<entry, givenUp, resolved, liveQueued, queue, dispatch, leaseOf,
                     worker, gate, stop>>
      /\ pump' = Pump("release", pump.lease)
  BY DEF PumpNotify
<1>2. pump'.at = "release" /\ pump'.lease = pump.lease /\ pump.at = "notify"
  BY <1>1, PumpFields DEF PumpNotify
<1>3. /\ phase' \in [Call -> {"idle", "asleep", "woken", "waiting", "cleanup",
                              "notify", "done"}]
      /\ AdmissionToldOfRoom'
      /\ \A d \in Call : phase'[d] # "asleep"
      /\ \A d \in Call : phase'[d] = phase[d] \/ (phase[d] = "asleep" /\ phase'[d] = "woken")
  BY AllWoken DEF PumpNotify, Inv, TypeOK
<1>4. TypeOK'
  <2>1. pump.lease \in Lease \cup {NoLease}
    BY <1>2 DEF Inv, TypeOK, Hands
  <2>2. pump' \in {Pump(at, l) : at \in {"idle", "granted", "notify", "release", "off"},
                                 l \in Lease \cup {NoLease}}
    BY <1>1, <2>1
  <2>3. QED
    BY <1>1, <1>3, <2>2 DEF Inv, TypeOK, gate
<1>5. Places'
  BY <1>1, <1>3 DEF Inv, Places, Busy
<1>6. Hands' /\ SlotsWithinLimit' /\ NoOrphanLease'
  BY <1>1, <1>2 DEF Inv, Hands, Busy, SlotsWithinLimit, NoOrphanLease, gate
<1>7. Closing'
  BY <1>1, <1>3 DEF Inv, Closing
<1>8. Counted' /\ ReservationsExact'
  BY <1>1, SameReservations
<1>9. QED
  BY <1>3, <1>4, <1>5, <1>6, <1>7, <1>8 DEF Inv

LEMMA PumpReleaseStep == ASSUME Inv, PumpRelease PROVE Inv'
<1>1. /\ UNCHANGED <<callers, dispatch, leaseOf, worker, others, stop>>
      /\ pump' = Pump("idle", NoLease) /\ pump.at = "release"
      /\ IF pump.lease = NoLease THEN UNCHANGED <<held, pending, slots>>
                                 ELSE Release(pump.lease)
  BY DEF PumpRelease
<1>2. QED
  BY <1>1, PumpGivesUp

-----------------------------------------------------------------------------
(* Executor workers                                                        *)

LEMMA PickStep == ASSUME Inv, NEW w \in Worker, Pick(w) PROVE Inv'
<1>1. /\ UNCHANGED <<phase, givenUp, resolved, liveQueued, queue, leaseOf, pump, gate, stop>>
      /\ worker[w] = Free
  BY DEF Pick
<1>2. PICK c \in dispatch, at \in {"run", "release"} :
        /\ dispatch' = dispatch \ {c}
        /\ worker' = [worker EXCEPT ![w] = Work(at, c)]
        /\ entry' = [entry EXCEPT ![c] = "none"] \/ entry' = entry
  BY DEF Pick
<1>3. /\ c \in Call /\ leaseOf[c] # NoLease /\ entry[c] # "queued" /\ c \notin queue
      /\ phase[c] \notin {"idle", "asleep", "woken"}
      /\ \A v \in Busy : worker[v].call # c
  BY <1>2 DEF Inv, TypeOK, Places, Busy
<1>4. worker[w].at = "free"
  BY <1>1, WorkFields DEF Free
<1>5. /\ worker'[w].at = at /\ worker'[w].call = c
      /\ \A v \in Worker \ {w} : worker'[v] = worker[v]
  BY <1>2, WorkFields DEF Inv, TypeOK
<1>6. Busy' = Busy \cup {w} /\ w \notin Busy
  BY <1>4, <1>5 DEF Busy
<1>7. TypeOK'
  <2>1. Work(at, c) \in {Work(a, d) : a \in {"free", "run", "release"},
                                      d \in Call \cup {NoCall}}
    BY <1>3
  <2>2. worker' \in [Worker -> {Work(a, d) : a \in {"free", "run", "release"},
                                             d \in Call \cup {NoCall}}]
    BY <1>2, <2>1 DEF Inv, TypeOK
  <2>3. entry' \in [Call -> {"none", "queued", "started"}]
    BY <1>2 DEF Inv, TypeOK
  <2>4. QED
    BY <1>1, <1>2, <2>2, <2>3 DEF Inv, TypeOK, gate
<1>8. Places'
  <2>1. \A d \in Call : entry'[d] = "queued" => d \in queue'
    BY <1>1, <1>2 DEF Inv, TypeOK, Places
  <2>2. \A v \in Worker : IF worker'[v].at = "free" THEN worker'[v] = Free
                          ELSE /\ worker'[v].call \in Call \ dispatch'
                               /\ leaseOf'[worker'[v].call] # NoLease
    BY <1>1, <1>2, <1>3, <1>5 DEF Inv, Places
  <2>3. \A u, v \in Busy' : u # v => worker'[u].call # worker'[v].call
    BY <1>3, <1>5, <1>6 DEF Inv, Places, Busy
  <2>4. QED
    BY <1>1, <1>2, <2>1, <2>2, <2>3 DEF Inv, Places
<1>9. Hands'
  BY <1>1, <1>2, <1>3, <1>5, <1>6 DEF Inv, Hands, Busy, gate
<1>10. SlotsWithinLimit' /\ Closing' /\ AdmissionToldOfRoom'
  BY <1>1 DEF Inv, SlotsWithinLimit, Closing, AdmissionToldOfRoom, gate
<1>11. NoOrphanLease'
  <2> SUFFICES ASSUME NEW l \in held
               PROVE  \/ l = pump.lease
                      \/ \E d \in dispatch' : l = leaseOf[d]
                      \/ \E v \in Worker : worker'[v] # Free /\ l = leaseOf[worker'[v].call]
    BY <1>1 DEF NoOrphanLease, gate
  <2>1. worker'[w] # Free
    BY <1>5, WorkFields DEF Free
  <2>2. QED
    BY <1>1, <1>2, <1>5, <2>1 DEF Inv, NoOrphanLease
<1>12. Counted' /\ ReservationsExact'
  <2>1. Queued' = Queued
    BY <1>2, <1>3 DEF Inv, TypeOK, Queued
  <2>2. QED
    BY <1>1, <2>1 DEF Inv, Counted, ReservationsExact, Queued
<1>13. QED
  BY <1>7, <1>8, <1>9, <1>10, <1>11, <1>12 DEF Inv

LEMMA RunEndsStep == ASSUME Inv, NEW w \in Worker, RunEnds(w) PROVE Inv'
<1> DEFINE c == worker[w].call
<1>1. /\ UNCHANGED <<phase, givenUp, liveQueued, queue, dispatch, leaseOf, pump, gate, stop>>
      /\ worker[w].at = "run" /\ entry' = [entry EXCEPT ![c] = "none"]
      /\ resolved' = [resolved EXCEPT ![c] = TRUE]
      /\ worker' = [worker EXCEPT ![w] = Work("release", c)]
  BY DEF RunEnds
<1>2. c \in Call /\ leaseOf[c] # NoLease /\ entry[c] # "queued"
  BY <1>1 DEF Inv, Places
<1>3. /\ worker'[w].at = "release" /\ worker'[w].call = c
      /\ \A v \in Worker \ {w} : worker'[v] = worker[v]
  BY <1>1, WorkFields DEF Inv, TypeOK
<1>4. Busy' = Busy /\ w \in Busy /\ \A v \in Worker : worker'[v].call = worker[v].call
  BY <1>1, <1>3 DEF Busy
<1>5. TypeOK'
  <2>1. Work("release", c) \in {Work(a, d) : a \in {"free", "run", "release"},
                                             d \in Call \cup {NoCall}}
    BY <1>2
  <2>2. worker' \in [Worker -> {Work(a, d) : a \in {"free", "run", "release"},
                                             d \in Call \cup {NoCall}}]
    BY <1>1, <2>1 DEF Inv, TypeOK
  <2>3. /\ entry' \in [Call -> {"none", "queued", "started"}]
        /\ resolved' \in [Call -> BOOLEAN]
    <3>1. /\ entry \in [Call -> {"none", "queued", "started"}]
          /\ resolved \in [Call -> BOOLEAN]
      BY DEF Inv, TypeOK
    <3> HIDE DEF c
    <3>2. QED
      BY <1>1, <3>1
  <2>4. QED
    BY <1>1, <2>2, <2>3 DEF Inv, TypeOK, gate
<1>6. Places'
  <2>1. \A d \in Call : entry'[d] = "queued" => d \in queue'
    BY <1>1 DEF Inv, TypeOK, Places
  <2>2. \A v \in Worker : IF worker'[v].at = "free" THEN worker'[v] = Free
                          ELSE /\ worker'[v].call \in Call \ dispatch'
                               /\ leaseOf'[worker'[v].call] # NoLease
    BY <1>1, <1>3 DEF Inv, Places
  <2>3. \A u, v \in Busy' : u # v => worker'[u].call # worker'[v].call
    BY <1>4 DEF Inv, Places, Busy
  <2>4. QED
    BY <1>1, <2>1, <2>2, <2>3 DEF Inv, Places
<1>7. Hands'
  BY <1>1, <1>4 DEF Inv, Hands, gate, Busy
<1>8. SlotsWithinLimit' /\ Closing' /\ AdmissionToldOfRoom'
  BY <1>1 DEF Inv, SlotsWithinLimit, Closing, AdmissionToldOfRoom, gate
<1>9. NoOrphanLease'
  <2>1. worker'[w] # Free
    BY <1>3, WorkFields DEF Free
  <2>2. QED
    BY <1>1, <1>3, <1>4, <2>1 DEF Inv, NoOrphanLease, gate
<1>10. Counted' /\ ReservationsExact'
  <2>1. Queued' = Queued
    BY <1>1, <1>2 DEF Inv, TypeOK, Queued
  <2>2. QED
    BY <1>1, <2>1 DEF Inv, Counted, ReservationsExact, Queued
<1>11. QED
  BY <1>5, <1>6, <1>7, <1>8, <1>9, <1>10 DEF Inv

LEMMA ReturnSlotStep == ASSUME Inv, NEW w \in Worker, ReturnSlot(w) PROVE Inv'
<1> DEFINE c == worker[w].call
<1> DEFINE l == leaseOf[c]
<1>1. /\ UNCHANGED <<callers, dispatch, pump, others, stop>>
      /\ worker[w].at = "release"
      /\ leaseOf' = [leaseOf EXCEPT ![c] = NoLease]
      /\ worker' = [worker EXCEPT ![w] = Free]
  BY DEF ReturnSlot
<1>2. /\ c \in Call /\ leaseOf[c] # NoLease /\ l \in held /\ c \notin dispatch
      /\ l # pump.lease /\ \A d \in Call \ {c} : leaseOf[d] # l
  BY <1>1 DEF Inv, Places, Hands
<1>3. /\ held' = held \ {l} /\ slots' \subseteq slots /\ slots \ {l} \subseteq slots'
      /\ held' \subseteq slots' /\ pending' \subseteq slots'
      /\ pending \subseteq pending' /\ pending' \subseteq pending \cup {l}
      /\ held' \cap pending' = {} /\ SlotsWithinLimit'
  <2>1. Release(l) /\ UNCHANGED others
    BY DEF ReturnSlot
  <2> HIDE DEF l
  <2>2. QED
    BY <1>2, <2>1, Released
<1>4. /\ worker'[w] = Free /\ worker'[w].at = "free"
      /\ \A v \in Worker \ {w} : worker'[v] = worker[v]
  BY <1>1, WorkFields DEF Inv, TypeOK, Free
<1>5. Busy' = Busy \ {w} /\ w \in Busy /\ \A v \in Busy' : worker[v].call # c
  BY <1>1, <1>4 DEF Busy, Inv, Places
<1>6. leaseOf'[c] = NoLease /\ \A d \in Call \ {c} : leaseOf'[d] = leaseOf[d]
  BY <1>1, <1>2 DEF Inv, TypeOK
<1>7. TypeOK'
  <2>1. Free \in {Work(a, d) : a \in {"free", "run", "release"}, d \in Call \cup {NoCall}}
    BY DEF Free
  <2>2. worker' \in [Worker -> {Work(a, d) : a \in {"free", "run", "release"},
                                             d \in Call \cup {NoCall}}]
    BY <1>1, <2>1 DEF Inv, TypeOK
  <2>3. leaseOf' \in [Call -> Lease \cup {NoLease}]
    <3>1. leaseOf \in [Call -> Lease \cup {NoLease}]
      BY DEF Inv, TypeOK
    <3> HIDE DEF c
    <3>2. QED
      BY <1>1, <3>1
  <2>4. QED
    BY <1>1, <1>3, <2>2, <2>3 DEF Inv, TypeOK, callers
<1>8. Places'
  <2>1. \A v \in Worker : IF worker'[v].at = "free" THEN worker'[v] = Free
                          ELSE /\ worker'[v].call \in Call \ dispatch'
                               /\ leaseOf'[worker'[v].call] # NoLease
    BY <1>1, <1>4, <1>5, <1>6 DEF Inv, Places, Busy
  <2>2. \A u, v \in Busy' : u # v => worker'[u].call # worker'[v].call
    BY <1>4, <1>5 DEF Inv, Places, Busy
  <2>3. /\ \A d \in Call : phase[d] \in {"idle", "asleep", "woken"} =>
              d \notin queue /\ leaseOf'[d] = NoLease
        /\ \A d \in queue : leaseOf'[d] = NoLease
        /\ \A d \in dispatch : leaseOf'[d] # NoLease
    BY <1>2, <1>6 DEF Inv, TypeOK, Places
  <2>4. QED
    BY <1>1, <2>1, <2>2, <2>3 DEF Inv, Places, callers
<1>9. Hands'
  <2>1. \A d \in Call : leaseOf'[d] # NoLease =>
          /\ d # c /\ leaseOf[d] \in held' /\ leaseOf'[d] # pump.lease
          /\ \A e \in Call \ {d} : leaseOf'[e] # leaseOf'[d]
    BY <1>2, <1>3, <1>6 DEF Inv, Hands
  <2>2. \A d \in Call \ {c} : leaseOf[d] # NoLease =>
          d \in dispatch \/ \E v \in Busy' : worker'[v].call = d
    <3> SUFFICES ASSUME NEW d \in Call \ {c}, leaseOf[d] # NoLease, d \notin dispatch
                 PROVE  \E v \in Busy' : worker'[v].call = d
      OBVIOUS
    <3>1. PICK v \in Busy : worker[v].call = d
      BY DEF Inv, Hands
    <3>2. v # w
      BY <3>1
    <3>3. QED
      BY <1>4, <1>5, <3>1, <3>2 DEF Busy
  <2>3. /\ pump.at \in {"idle", "off"} => pump.lease = NoLease
        /\ pump.at = "granted" => pump.lease \in slots' \ (held' \cup pending')
        /\ pump.at \in {"notify", "release"} => pump.lease \in held' \cup {NoLease}
    BY <1>2, <1>3 DEF Inv, Hands
  <2>4. QED
    BY <1>1, <1>3, <1>6, <2>1, <2>2, <2>3 DEF Hands
<1>10. NoOrphanLease'
  <2> SUFFICES ASSUME NEW k \in held'
               PROVE  \/ k = pump.lease
                      \/ \E d \in dispatch : k = leaseOf'[d]
                      \/ \E v \in Worker : worker'[v] # Free /\ k = leaseOf'[worker'[v].call]
    BY <1>1 DEF NoOrphanLease
  <2>1. k \in held /\ k # l
    BY <1>3
  <2>2. CASE \E d \in dispatch : k = leaseOf[d]
    BY <1>2, <1>6, <2>2 DEF Inv, TypeOK
  <2>3. ASSUME NEW v \in Worker, worker[v] # Free, k = leaseOf[worker[v].call]
        PROVE  worker'[v] # Free /\ k = leaseOf'[worker'[v].call]
    BY <1>4, <1>6, <2>1, <2>3 DEF Inv, Places
  <2>4. QED
    BY <2>1, <2>2, <2>3 DEF Inv, NoOrphanLease
<1>11. Closing' /\ AdmissionToldOfRoom'
  BY <1>1 DEF Inv, Closing, AdmissionToldOfRoom, callers
<1>12. Counted' /\ ReservationsExact'
  BY <1>1, SameReservations DEF callers
<1>13. QED
  BY <1>3, <1>7, <1>8, <1>9, <1>10, <1>11, <1>12 DEF Inv

-----------------------------------------------------------------------------
(* Maintenance                                                             *)

LEMMA StuckStep == ASSUME Inv, NEW c \in Call, Stuck(c) PROVE Inv'
<1>1. /\ UNCHANGED <<phase, givenUp, liveQueued, queue, dispatch, leaseOf, worker, pump,
                     gate, stop>>
      /\ entry[c] = "started" /\ entry' = [entry EXCEPT ![c] = "none"]
      /\ resolved' = [resolved EXCEPT ![c] = TRUE]
  BY DEF Stuck
<1>2. TypeOK'
  BY <1>1 DEF Inv, TypeOK, gate
<1>3. Places'
  BY <1>1 DEF Inv, TypeOK, Places, Busy
<1>4. Hands' /\ SlotsWithinLimit' /\ NoOrphanLease'
  BY <1>1, SameHands
<1>5. Closing' /\ AdmissionToldOfRoom'
  BY <1>1 DEF Inv, Closing, AdmissionToldOfRoom
<1>6. Counted' /\ ReservationsExact'
  <2>1. Queued' = Queued
    BY <1>1 DEF Inv, TypeOK, Queued
  <2>2. QED
    BY <1>1, <2>1 DEF Inv, Counted, ReservationsExact, Queued
<1>7. QED
  BY <1>2, <1>3, <1>4, <1>5, <1>6 DEF Inv

\* A slot that is neither renewed nor the pump's leaves the table.
LEMMA SlotGone ==
    ASSUME Inv, NEW l, l \notin held, l # pump.lease,
           slots' = slots \ {l}, pending' = pending \ {l},
           UNCHANGED <<callers, dispatch, leaseOf, worker, pump, held, others, stop>>
    PROVE  Inv'
<1>1. TypeOK'
  BY DEF Inv, TypeOK, callers
<1>2. Places'
  BY DEF Inv, Places, Busy, callers
<1>3. Hands'
  BY DEF Inv, Hands, Busy
<1>4. SlotsWithinLimit'
  <2>1. slots \subseteq Lease /\ slots' \subseteq slots /\ others \in Nat
    BY LimitedCallsAssumption DEF Inv, TypeOK
  <2>2. /\ Cardinality(slots') <= Cardinality(slots)
        /\ Cardinality(slots') \in Nat /\ Cardinality(slots) \in Nat
    BY <2>1, LeaseSets
  <2>3. QED
    BY <2>1, <2>2, LimitedCallsAssumption DEF Inv, SlotsWithinLimit
<1>5. NoOrphanLease'
  BY DEF Inv, NoOrphanLease
<1>6. Closing' /\ AdmissionToldOfRoom'
  BY DEF Inv, Closing, AdmissionToldOfRoom, callers
<1>7. Counted' /\ ReservationsExact'
  BY SameReservations DEF callers
<1>8. QED
  BY <1>1, <1>2, <1>3, <1>4, <1>5, <1>6, <1>7 DEF Inv

LEMMA RetryReleaseStep == ASSUME Inv, NEW l \in Lease, RetryRelease(l) PROVE Inv'
<1>1. l \in pending /\ l \in slots
  BY DEF RetryRelease, Inv, TypeOK
<1>2. l \notin held
  BY <1>1 DEF Inv, Hands
<1>3. l # pump.lease
  BY <1>1, <1>2, LimitedCallsAssumption DEF Inv, TypeOK, Hands, Pump
<1>4. QED
  BY <1>2, <1>3, SlotGone DEF RetryRelease

LEMMA ExpireStep == ASSUME Inv, NEW l \in Lease, Expire(l) PROVE Inv'
BY SlotGone DEF Expire

LEMMA CompactStep == ASSUME Inv, Compact PROVE Inv'
<1> DEFINE Z == {c \in queue : Zombie(c)}
<1> DEFINE F == {c \in Z : entry[c] = "queued"}
<1>1. /\ UNCHANGED <<givenUp, resolved, dispatch, leaseOf, worker, pump, gate, stop>>
      /\ queue' = queue \ Z
      /\ entry' = [c \in Call |-> IF c \in Z THEN "none" ELSE entry[c]]
      /\ liveQueued' = liveQueued - Cardinality(F)
  BY DEF Compact
<1>2. F # {} => phase' = Woken(phase)
  BY DEF Compact
<1>3. F = {} => phase' = phase
  BY DEF Compact
<1>4. Z \subseteq queue /\ queue \subseteq Call
  BY DEF Inv, TypeOK
<1>5. F \subseteq Queued /\ Queued' = Queued \ F
  BY <1>1, <1>4 DEF Queued
<1> HIDE DEF F, Z
<1>6. /\ liveQueued' \in Nat /\ Counted' /\ ReservationsExact'
      /\ F = {} => liveQueued' = liveQueued
  BY <1>1, <1>5, ReservationsBack
<1>7. /\ phase' \in [Call -> {"idle", "asleep", "woken", "waiting", "cleanup",
                              "notify", "done"}]
      /\ AdmissionToldOfRoom'
      /\ \A d \in Call : phase'[d] = phase[d] \/ (phase[d] = "asleep" /\ phase'[d] = "woken")
  <2>1. phase \in [Call -> {"idle", "asleep", "woken", "waiting", "cleanup", "notify",
                            "done"}]
    BY DEF Inv, TypeOK
  <2>2. CASE F # {}
    BY <1>2, <2>1, <2>2, AllWoken
  <2>3. CASE F = {}
    BY <1>1, <1>3, <1>6, <2>1, <2>3 DEF Inv, AdmissionToldOfRoom
  <2>4. QED
    BY <2>2, <2>3
<1>8. TypeOK'
  BY <1>1, <1>4, <1>6, <1>7 DEF Inv, TypeOK, gate
<1>9. Places'
  BY <1>1, <1>4, <1>7 DEF Inv, TypeOK, Places, Busy
<1>10. Hands' /\ SlotsWithinLimit' /\ NoOrphanLease'
  BY <1>1, SameHands
<1>11. Closing'
  BY <1>1, <1>7 DEF Inv, Closing
<1>12. QED
  BY <1>6, <1>7, <1>8, <1>9, <1>10, <1>11 DEF Inv

-----------------------------------------------------------------------------
(* Shutdown                                                                *)

LEMMA BeginShutdownStep == ASSUME Inv, BeginShutdown PROVE Inv'
<1>1. /\ UNCHANGED <<entry, givenUp, resolved, liveQueued, queue, dispatch, leaseOf,
                     worker, pump, gate>>
      /\ stop = "no" /\ stop' = "drain"
  BY DEF BeginShutdown
<1>2. /\ phase' \in [Call -> {"idle", "asleep", "woken", "waiting", "cleanup",
                              "notify", "done"}]
      /\ AdmissionToldOfRoom'
      /\ \A d \in Call : phase'[d] # "asleep"
      /\ \A d \in Call : phase'[d] = phase[d] \/ (phase[d] = "asleep" /\ phase'[d] = "woken")
  BY AllWoken DEF BeginShutdown, Inv, TypeOK
<1>3. TypeOK'
  BY <1>1, <1>2 DEF Inv, TypeOK, gate
<1>4. Places'
  BY <1>1, <1>2 DEF Inv, Places, Busy
<1>5. Hands' /\ SlotsWithinLimit' /\ NoOrphanLease'
  BY <1>1, SameHands
<1>6. Closing'
  BY <1>1, <1>2 DEF Closing, Open
<1>7. Counted' /\ ReservationsExact'
  BY <1>1, SameReservations DEF Open
<1>8. QED
  BY <1>2, <1>3, <1>4, <1>5, <1>6, <1>7 DEF Inv

LEMMA JoinedStep == ASSUME Inv, Joined PROVE Inv'
<1>1. /\ UNCHANGED <<callers, dispatch, leaseOf, worker, pump, gate>>
      /\ stop = "drain" /\ queue = {} /\ stop' = "closing"
  BY DEF Joined
<1>2. TypeOK'
  BY <1>1 DEF Inv, TypeOK, callers, gate
<1>3. Places'
  BY <1>1 DEF Inv, Places, Busy, callers
<1>4. Hands' /\ SlotsWithinLimit' /\ NoOrphanLease'
  BY <1>1, SameHands
<1>5. Closing' /\ AdmissionToldOfRoom'
  BY <1>1 DEF Inv, Closing, Open, AdmissionToldOfRoom, callers
<1>6. Counted' /\ ReservationsExact'
  BY <1>1, SameReservations DEF Open, callers
<1>7. QED
  BY <1>2, <1>3, <1>4, <1>5, <1>6 DEF Inv

LEMMA CancelAllStep == ASSUME Inv, CancelAll PROVE Inv'
<1>1. /\ UNCHANGED <<phase, givenUp, liveQueued, dispatch, leaseOf, worker, pump, gate>>
      /\ stop = "drain" /\ stop' = "closing" /\ queue' = {}
      /\ resolved' = [c \in Call |-> resolved[c] \/ phase[c] = "waiting"]
      /\ entry' = [c \in Call |-> "none"]
  BY DEF CancelAll
<1>2. TypeOK'
  BY <1>1 DEF Inv, TypeOK, gate
<1>3. Places'
  BY <1>1 DEF Inv, Places, Busy
<1>4. Hands' /\ SlotsWithinLimit' /\ NoOrphanLease'
  BY <1>1, SameHands
<1>5. Closing' /\ AdmissionToldOfRoom'
  BY <1>1 DEF Inv, Closing, Open, AdmissionToldOfRoom
<1>6. Counted' /\ ReservationsExact'
  <2>1. Queued' = {} /\ liveQueued \in Nat
    BY <1>1 DEF Queued, Inv, TypeOK
  <2>2. QED
    BY <1>1, <2>1, FS_EmptySet DEF Counted, ReservationsExact, Open
<1>7. QED
  BY <1>2, <1>3, <1>4, <1>5, <1>6 DEF Inv

LEMMA ClosePumpStep == ASSUME Inv, ClosePump PROVE Inv'
<1>1. /\ pump' = Pump("off", NoLease) /\ stop \notin Open
      /\ UNCHANGED <<callers, dispatch, leaseOf, worker, others, stop>>
  BY DEF ClosePump, Open
<1>2. IF pump.at \in {"notify", "release"} /\ pump.lease # NoLease
      THEN Release(pump.lease) ELSE UNCHANGED <<held, pending, slots>>
  BY DEF ClosePump
<1>3. QED
  BY <1>1, <1>2, PumpGivesUp

LEMMA CloseStep == ASSUME Inv, Close PROVE Inv'
<1>1. /\ UNCHANGED <<phase, givenUp, liveQueued, queue, worker, pump, others>>
      /\ stop = "closing" /\ stop' = "down" /\ pump.at = "off"
      /\ \A w \in Worker : worker[w] = Free
      /\ resolved' = [c \in Call |-> resolved[c] \/ c \in dispatch]
      /\ entry' = [c \in Call |-> IF c \in dispatch THEN "none" ELSE entry[c]]
      /\ dispatch' = {} /\ held' = {} /\ pending' = {}
      /\ leaseOf' = [c \in Call |-> NoLease]
  BY DEF Close
<1>2. slots' \subseteq slots
  BY DEF Close
<1>3. Busy' = {}
  BY <1>1, WorkFields DEF Busy, Free
<1>4. TypeOK'
  BY <1>1, <1>2 DEF Inv, TypeOK
<1>5. Places'
  <2>1. \A w \in Worker : worker'[w].at = "free" /\ worker'[w] = Free
    BY <1>1, WorkFields DEF Free
  <2>2. \A u, w \in Busy' : u # w => worker'[u].call # worker'[w].call
    BY <1>3
  <2>3. /\ \A c \in Call : entry'[c] = "queued" => c \in queue'
        /\ \A c \in Call : phase'[c] \in {"idle", "asleep", "woken"} =>
              c \notin queue' /\ leaseOf'[c] = NoLease
        /\ \A c \in queue' : leaseOf'[c] = NoLease
        /\ \A c \in dispatch' : leaseOf'[c] # NoLease
    BY <1>1 DEF Inv, TypeOK, Places
  <2>4. QED
    BY <2>1, <2>2, <2>3 DEF Places
<1>6. Hands'
  BY <1>1 DEF Inv, Hands
<1>7. SlotsWithinLimit'
  <2>1. slots \subseteq Lease /\ others \in Nat
    BY LimitedCallsAssumption DEF Inv, TypeOK
  <2>2. /\ Cardinality(slots') <= Cardinality(slots)
        /\ Cardinality(slots') \in Nat /\ Cardinality(slots) \in Nat
    BY <1>2, <2>1, LeaseSets
  <2>3. QED
    BY <1>1, <2>1, <2>2, LimitedCallsAssumption DEF Inv, SlotsWithinLimit
<1>8. NoOrphanLease'
  BY <1>1 DEF NoOrphanLease
<1>9. Closing' /\ AdmissionToldOfRoom'
  BY <1>1 DEF Inv, Closing, Open, AdmissionToldOfRoom
<1>10. Counted' /\ ReservationsExact'
  <2>1. Queued = {}
    BY <1>1 DEF Inv, Places, Closing, Open, Queued
  <2>2. Queued' = {} /\ liveQueued \in Nat
    BY <1>1, <2>1 DEF Queued, Inv, TypeOK
  <2>3. QED
    BY <1>1, <2>2, FS_EmptySet DEF Counted, ReservationsExact, Open
<1>11. QED
  BY <1>4, <1>5, <1>6, <1>7, <1>8, <1>9, <1>10 DEF Inv

-----------------------------------------------------------------------------
(* The other processes, and the theorems                                   *)

LEMMA OthersStep == ASSUME Inv, OthersTake \/ OthersGive PROVE Inv'
<1>1. UNCHANGED <<callers, dispatch, leaseOf, worker, pump, held, pending, slots, stop>>
  BY DEF OthersTake, OthersGive
<1>2. Cardinality(slots) \in Nat /\ others \in 0 .. Limit
  BY LeaseSets DEF Inv, TypeOK
<1>3. others' \in 0 .. Limit /\ SlotsWithinLimit'
  BY <1>1, <1>2, LimitedCallsAssumption
     DEF OthersTake, OthersGive, Inv, SlotsWithinLimit
<1>4. TypeOK'
  BY <1>1, <1>3 DEF Inv, TypeOK, callers
<1>5. Places' /\ Hands' /\ NoOrphanLease'
  BY <1>1 DEF Inv, Places, Hands, Busy, NoOrphanLease, callers
<1>6. Closing' /\ AdmissionToldOfRoom'
  BY <1>1 DEF Inv, Closing, AdmissionToldOfRoom, callers
<1>7. Counted' /\ ReservationsExact'
  BY <1>1, SameReservations DEF callers
<1>8. QED
  BY <1>3, <1>4, <1>5, <1>6, <1>7 DEF Inv

LEMMA NextInv == Inv /\ [Next]_vars => Inv'
<1> SUFFICES ASSUME Inv, [Next]_vars PROVE Inv'
  OBVIOUS
<1>1. ASSUME NEW c \in Call, Caller(c)
      PROVE  Inv'
  BY <1>1, EnterStep, LeaveAdmissionStep, NotifyStep, AnswerStep, UserTimeoutStep
     DEF Caller
<1>2. CASE PumpAcquire \/ PumpStep
  BY <1>2, PumpAcquireStep, PumpTakeStep, PumpNotifyStep, PumpReleaseStep DEF PumpStep
<1>3. ASSUME NEW w \in Worker, Execute(w)
      PROVE  Inv'
  BY <1>3, PickStep, RunEndsStep, ReturnSlotStep DEF Execute
<1>4. CASE Maintenance
  BY <1>4, CompactStep, StuckStep, RetryReleaseStep DEF Maintenance
<1>5. CASE Shutdown
  BY <1>5, BeginShutdownStep, JoinedStep, CancelAllStep, ClosePumpStep, CloseStep
     DEF Shutdown
<1>6. CASE Gate
  BY <1>6, ExpireStep, OthersStep DEF Gate
<1>7. CASE UNCHANGED vars
  <2>1. Places' /\ Closing' /\ AdmissionToldOfRoom' /\ TypeOK'
    BY <1>7 DEF vars, callers, gate, Inv, TypeOK, Places, Busy, Closing, AdmissionToldOfRoom
  <2>2. Hands' /\ SlotsWithinLimit' /\ NoOrphanLease'
    BY <1>7, SameHands DEF vars
  <2>3. Counted' /\ ReservationsExact'
    BY <1>7, SameReservations DEF vars, callers
  <2>4. QED
    BY <2>1, <2>2, <2>3 DEF Inv
<1>8. QED
  BY <1>1, <1>2, <1>3, <1>4, <1>5, <1>6, <1>7 DEF Next

LEMMA Invariance == Spec => []Inv
<1>1. QED
  BY InitInv, NextInv, PTL DEF Spec

\* Every variable keeps its type: the renewed and the parked leases are slots
\* in the gate's table, and live_queued is never negative.
THEOREM TypesHold == Spec => []TypeOK
<1>1. Inv => TypeOK
  BY DEF Inv
<1>2. QED
  BY <1>1, Invariance, PTL

\* A reservation is given back exactly once: until shutdown throws the rest
\* away, live_queued counts the registered calls that have not started
\* (utils.py:2110-2112).
THEOREM ReservationsAreExact == Spec => []ReservationsExact
<1>1. Inv => ReservationsExact
  BY DEF Inv
<1>2. QED
  BY <1>1, Invariance, PTL

\* Nobody sleeps before a queue with room unless a notification is on its way,
\* though the decrement and the notify_all are separate steps
\* (utils.py:2241-2245).
THEOREM SleepersAreToldOfRoom == Spec => []AdmissionToldOfRoom
<1>1. Inv => AdmissionToldOfRoom
  BY DEF Inv
<1>2. QED
  BY <1>1, Invariance, PTL

\* A lease that is renewed is in the hands of somebody who will release it
\* (utils.py:1241-1266, 1635-1637).
THEOREM LeasesHaveOwners == Spec => []NoOrphanLease
<1>1. Inv => NoOrphanLease
  BY DEF Inv
<1>2. QED
  BY <1>1, Invariance, PTL

\* The calls being executed here and the slots of the other processes never
\* exceed the group's limit, shutdown included: each of those calls has a slot
\* in the table that no other call has.
THEOREM LimitIsGlobal == Spec => []GlobalLimit
<1>1. ASSUME Inv PROVE GlobalLimit
  <2> DEFINE f == [w \in Running |-> leaseOf[worker[w].call]]
  <2>1. \A w \in Running : w \in Busy /\ worker[w].call \in Call
                           /\ leaseOf[worker[w].call] # NoLease
    BY <1>1 DEF Inv, Places, Running, Busy
  <2>2. \A w \in Running : leaseOf[worker[w].call] \in slots
    BY <1>1, <2>1 DEF Inv, TypeOK, Hands
  <2>3. \A v, w \in Running : v # w => leaseOf[worker[v].call] # leaseOf[worker[w].call]
    BY <1>1, <2>1 DEF Inv, Places, Hands
  <2>4. f \in Injection(Running, slots)
    BY <2>2, <2>3 DEF Injection, IsInjective
  <2>5. slots \subseteq Lease /\ others \in Nat
    BY <1>1, LimitedCallsAssumption DEF Inv, TypeOK
  <2>6. IsFiniteSet(slots) /\ Cardinality(slots) \in Nat
    BY <2>5, LeaseSets
  <2> HIDE DEF f
  <2>7. IsFiniteSet(Running) /\ Cardinality(Running) <= Cardinality(slots)
    BY <2>4, <2>6, FS_Injection
  <2>8. Cardinality(Running) \in Nat
    BY <2>7, FS_CardinalityType
  <2>9. QED
    BY <1>1, <2>5, <2>6, <2>7, <2>8, LimitedCallsAssumption
       DEF Inv, SlotsWithinLimit, GlobalLimit
<1>2. QED
  BY <1>1, Invariance, PTL

===============================================================================
