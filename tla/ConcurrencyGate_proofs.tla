------------------------ MODULE ConcurrencyGate_proofs ------------------------
(***************************************************************************)
(* Proofs about the cross-process concurrency gate, for every number of    *)
(* processes, leases and slots and every TTL and grace.                    *)
(*                                                                         *)
(* TableWithinLimit needs only that reaping and renewing add no lease.     *)
(* CapIsExact needs the ages: a lease that is reaped from a living holder  *)
(* has been a suspect for the grace, so it is as old as an age can be; a   *)
(* held lease is never older than its holder's silence; and a holder that  *)
(* silent would have set lapsed.                                           *)
(***************************************************************************)
EXTENDS ConcurrencyGate, FiniteSetTheorems, TLAPS

-----------------------------------------------------------------------------
(* The inductive invariant                                                 *)

\* A dead process executes nothing and renews nothing.
DeadHoldNothing == \A p \in Proc : ~alive[p] => held[p] = {} /\ renewing[p] = {}

\* A lease id is in the books of one process only.
Exclusive ==
    \A p, q \in Proc : p # q => held[p] \cap (held[q] \cup renewing[q]) = {}

\* The mark was set when the lease was beyond its TTL, and both have aged since.
SuspectIsOld ==
    \A l \in DOMAIN leases :
        leases[l].suspect # Trusted =>
            leases[l].age >= TTL + leases[l].suspect \/ leases[l].age = Longest

\* Until somebody lapses, every lease of a call being executed is in the table,
\* under its holder's PID, and no older than that holder's last renewal.
HeldIsFresh ==
    ~lapsed => \A p \in Proc : \A l \in held[p] :
        /\ l \in DOMAIN leases /\ leases[l].pid = p
        /\ leases[l].age <= TTL + Grace /\ leases[l].age <= silence[p]
        /\ renewing[p] # {} /\ l \notin renewing[p] => leases[l].age <= started[p]

Inv == /\ TypeOK /\ DeadHoldNothing /\ Exclusive /\ SuspectIsOld /\ HeldIsFresh
       /\ TableWithinLimit

\* What a step may never do: list again a lease that was reclaimed while its
\* call is still being executed.
NoResurrection ==
    [][\A p \in Proc : \A l \in held[p] \ DOMAIN leases : l \notin DOMAIN leases']_vars

-----------------------------------------------------------------------------
(* What the helpers promise                                                *)

LEMMA AgeFacts ==
    /\ Longest \in Nat /\ Longest > TTL + Grace /\ Limit \in Nat
    /\ TTL \in Nat /\ Grace \in Nat /\ TTL > 0 /\ Grace > 0 /\ TTL + Grace \in Nat
    /\ \A n \in 0 .. Longest : Older(n) \in 0 .. Longest
    /\ \A n \in 0 .. Longest : Older(n) # 0
    /\ \A n \in 0 .. Longest : Older(n) = n + 1 \/ (n = Longest /\ Older(n) = n)
    /\ \A m, n \in 0 .. Longest : m <= n => Older(m) <= Older(n)
BY GateAssumption DEF Longest, Older

LEMMA LimitedSet ==
    ASSUME NEW S, NEW T, S \subseteq T, T \subseteq Lease
    PROVE  /\ IsFiniteSet(S) /\ Cardinality(S) \in Nat
           /\ Cardinality(S) <= Cardinality(T)
<1>1. IsFiniteSet(T)
  BY FS_Subset, GateAssumption
<1>2. QED
  BY <1>1, FS_Subset, FS_CardinalityType

\* Reaping adds nothing and keeps the PID and the age of what it leaves; what
\* it marks is beyond its TTL.
LEMMA ReapedFacts ==
    ASSUME TypeOK
    PROVE  /\ DOMAIN Reaped(leases) \subseteq DOMAIN leases
           /\ Reaped(leases) \in [DOMAIN Reaped(leases) -> Record]
           /\ \A l \in DOMAIN Reaped(leases) :
                /\ Reaped(leases)[l].pid = leases[l].pid
                /\ Reaped(leases)[l].age = leases[l].age
                /\ \/ Reaped(leases)[l].suspect = Trusted
                   \/ Reaped(leases)[l].suspect = leases[l].suspect
                   \/ Reaped(leases)[l].suspect = 1 /\ leases[l].age > TTL
<1> DEFINE t == Reaped(leases)
<1>1. DOMAIN t = DOMAIN leases \ Reclaimed(leases)
  BY DEF Reaped
<1>2. ASSUME NEW l \in DOMAIN t
      PROVE  /\ t[l] \in Record
             /\ t[l].pid = leases[l].pid /\ t[l].age = leases[l].age
             /\ \/ t[l].suspect = Trusted
                \/ t[l].suspect = leases[l].suspect
                \/ t[l].suspect = 1 /\ leases[l].age > TTL
  <2>1. t[l] = Marked(leases[l])
    BY <1>2 DEF Reaped
  <2>2. leases[l] \in Record
    BY <1>1, <1>2 DEF TypeOK
  <2>3. 1 \in 0 .. Longest /\ 0 \in 0 .. Longest
    BY AgeFacts
  <2>4. QED
    BY <2>1, <2>2, <2>3, AgeFacts DEF Marked, Record, Trusted
<1>3. t \in [DOMAIN t -> Record]
  BY <1>2 DEF Reaped
<1>4. QED
  BY <1>1, <1>2, <1>3

\* No pass takes a lease from a living holder whose age is within the TTL and
\* the grace together.
LEMMA FreshIsKept ==
    ASSUME Inv, NEW l \in DOMAIN leases,
           alive[leases[l].pid], leases[l].age <= TTL + Grace
    PROVE  l \in DOMAIN Reaped(leases)
<1>1. leases[l] \in Record
  BY DEF Inv, TypeOK
<1>2. leases[l].age \in 0 .. Longest /\ leases[l].suspect \in 0 .. Longest
  BY <1>1 DEF Record
<1>3. leases[l].suspect # Trusted => leases[l].age >= TTL + leases[l].suspect
  BY <1>2, AgeFacts DEF Inv, SuspectIsOld
<1>4. ~(leases[l].suspect # Trusted /\ leases[l].suspect - 1 > Grace)
  BY <1>2, <1>3, AgeFacts
<1>5. QED
  BY <1>4 DEF Reaped, Reclaimed

\* Reaping keeps every lease that HeldIsFresh speaks of.
LEMMA ReapedHeld ==
    ASSUME Inv, ~lapsed, NEW p \in Proc, NEW l \in held[p]
    PROVE  /\ l \in DOMAIN Reaped(leases)
           /\ Reaped(leases)[l].pid = leases[l].pid
           /\ Reaped(leases)[l].age = leases[l].age
<1>1. l \in DOMAIN leases /\ leases[l].pid = p /\ leases[l].age <= TTL + Grace
  BY DEF Inv, HeldIsFresh
<1>2. alive[p]
  BY DEF Inv, DeadHoldNothing
<1>3. QED
  BY <1>1, <1>2, FreshIsKept, ReapedFacts DEF Inv

\* The marks that a pass sets are old enough.
LEMMA ReapedSuspects ==
    ASSUME Inv
    PROVE  \A l \in DOMAIN Reaped(leases) :
              Reaped(leases)[l].suspect # Trusted =>
                \/ Reaped(leases)[l].age >= TTL + Reaped(leases)[l].suspect
                \/ Reaped(leases)[l].age = Longest
<1> TAKE l \in DOMAIN Reaped(leases)
<1>1. l \in DOMAIN leases
  BY ReapedFacts DEF Inv
<1>2. leases[l] \in Record
  BY <1>1 DEF Inv, TypeOK
<1>3. leases[l].age \in Nat /\ leases[l].suspect \in Nat
  BY <1>2 DEF Record
<1>4. leases[l].suspect # Trusted =>
        leases[l].age >= TTL + leases[l].suspect \/ leases[l].age = Longest
  BY <1>1 DEF Inv, SuspectIsOld
<1>5. /\ Reaped(leases)[l].age = leases[l].age
      /\ \/ Reaped(leases)[l].suspect = Trusted
         \/ Reaped(leases)[l].suspect = leases[l].suspect
         \/ Reaped(leases)[l].suspect = 1 /\ leases[l].age > TTL
  BY ReapedFacts DEF Inv
<1>6. QED
  BY <1>3, <1>4, <1>5, AgeFacts

-----------------------------------------------------------------------------
(* The steps                                                               *)

LEMMA InitInv == Init => Inv
<1> SUFFICES ASSUME Init PROVE Inv
  OBVIOUS
<1>1. DOMAIN leases = {}
  BY DEF Init
<1>2. TypeOK
  <2>1. leases \in [DOMAIN leases -> Record] /\ DOMAIN leases \subseteq Lease
    BY <1>1 DEF Init
  <2>2. 0 \in 0 .. Longest
    BY AgeFacts
  <2>3. QED
    BY <2>1, <2>2 DEF Init, TypeOK
<1>3. TableWithinLimit
  BY <1>1, FS_EmptySet, AgeFacts DEF TableWithinLimit
<1>4. QED
  BY <1>1, <1>2, <1>3
     DEF Init, Inv, DeadHoldNothing, Exclusive, SuspectIsOld, HeldIsFresh

LEMMA AcquireStep == ASSUME Inv, NEW p \in Proc, Acquire(p) PROVE Inv'
<1> DEFINE t == Reaped(leases)
<1> DEFINE new == [pid |-> p, age |-> 0, suspect |-> Trusted]
<1>1. UNCHANGED <<alive, stalled, renewing, started, silence, lapsed>>
  BY DEF Acquire
<1>2. CASE Cardinality(DOMAIN t) >= Limit
  <2>1. leases' = t /\ held' = held
    BY <1>2 DEF Acquire
  <2>2. QED
    <3>1. TypeOK'
      BY <1>1, <2>1, ReapedFacts DEF Inv, TypeOK
    <3>2. DeadHoldNothing' /\ Exclusive'
      BY <1>1, <2>1 DEF Inv, DeadHoldNothing, Exclusive
    <3>3. SuspectIsOld'
      BY <2>1, ReapedSuspects DEF SuspectIsOld
    <3>4. HeldIsFresh'
      BY <1>1, <2>1, ReapedHeld DEF Inv, HeldIsFresh
    <3>5. TableWithinLimit'
      BY <2>1, ReapedFacts, LimitedSet, AgeFacts DEF Inv, TypeOK, TableWithinLimit
    <3>6. QED
      BY <3>1, <3>2, <3>3, <3>4, <3>5 DEF Inv
<1>3. CASE ~(Cardinality(DOMAIN t) >= Limit)
  <2>1. PICK l \in Lease \ Used, got \in SUBSET Lease :
          /\ got \subseteq {l}
          /\ leases' = [k \in DOMAIN t \cup {l} |-> IF k = l THEN new ELSE t[k]]
          /\ held' = [held EXCEPT ![p] = @ \cup got]
    <3>1. Lease \ Used # {}
      BY <1>3 DEF Acquire, Used, Inv, TypeOK
    <3>2. (CHOOSE l \in Lease \ Used : TRUE) \in Lease \ Used
      BY <3>1
    <3>3. QED
      BY <1>3, <3>2 DEF Acquire
  <2>2. /\ l \notin DOMAIN leases
        /\ \A q \in Proc : l \notin held[q] /\ l \notin renewing[q]
    BY <2>1 DEF Used
  <2>3. /\ \A q \in Proc \ {p} : held'[q] = held[q]
        /\ held'[p] = held[p] \cup got /\ held' \in [Proc -> SUBSET Lease]
    BY <2>1 DEF Inv, TypeOK
  <2>4. DOMAIN t \subseteq DOMAIN leases /\ t \in [DOMAIN t -> Record]
    BY ReapedFacts DEF Inv
  <2>5. DOMAIN leases' = DOMAIN t \cup {l}
    BY <2>1
  <2>6. leases'[l] = new /\ \A k \in DOMAIN t : leases'[k] = t[k]
    BY <2>1, <2>2, <2>4
  <2>7. TypeOK'
    <3>1. new \in Record
      BY AgeFacts DEF Record, Trusted
    <3>2. leases' \in [DOMAIN leases' -> Record]
      BY <2>1, <2>4, <3>1
    <3>3. DOMAIN leases' \subseteq Lease
      BY <2>1, <2>4, <2>5 DEF Inv, TypeOK
    <3>4. QED
      BY <1>1, <2>3, <3>2, <3>3 DEF Inv, TypeOK
  <2>8. DeadHoldNothing'
    BY <1>1, <2>3 DEF Inv, DeadHoldNothing, Acquire, Up
  <2>9. Exclusive'
    BY <1>1, <2>1, <2>2, <2>3 DEF Inv, Exclusive
  <2>10. SuspectIsOld'
    BY <2>5, <2>6, ReapedSuspects DEF SuspectIsOld
  <2>11. HeldIsFresh'
    <3> SUFFICES ASSUME ~lapsed, NEW q \in Proc, NEW k \in held'[q]
                 PROVE  /\ k \in DOMAIN leases' /\ leases'[k].pid = q
                        /\ leases'[k].age <= TTL + Grace /\ leases'[k].age <= silence[q]
                        /\ renewing[q] # {} /\ k \notin renewing[q]
                             => leases'[k].age <= started[q]
      BY <1>1 DEF HeldIsFresh
    <3>1. CASE k \in held[q]
      <4>1. k # l
        BY <2>2, <3>1
      <4>2. k \in DOMAIN t /\ t[k].pid = leases[k].pid /\ t[k].age = leases[k].age
        BY <3>1, ReapedHeld
      <4>3. leases'[k] = t[k] /\ k \in DOMAIN leases'
        BY <2>5, <2>6, <4>2
      <4>4. QED
        BY <3>1, <4>2, <4>3 DEF Inv, HeldIsFresh
    <3>2. CASE k \notin held[q]
      <4>1. q = p /\ k = l
        BY <2>1, <2>3, <3>2
      <4>2. leases'[k].pid = p /\ leases'[k].age = 0 /\ k \in DOMAIN leases'
        BY <2>5, <2>6, <4>1
      <4>3. silence[q] \in Nat /\ started[q] \in Nat
        BY DEF Inv, TypeOK
      <4>4. QED
        BY <4>1, <4>2, <4>3, AgeFacts
    <3>3. QED
      BY <3>1, <3>2
  <2>12. TableWithinLimit'
    <3>1. IsFiniteSet(DOMAIN t) /\ Cardinality(DOMAIN t) \in Nat
      BY <2>4, LimitedSet DEF Inv, TypeOK
    <3>2. l \notin DOMAIN t
      BY <2>2, <2>4
    <3> HIDE DEF t
    <3>3. Cardinality(DOMAIN t \cup {l}) = Cardinality(DOMAIN t) + 1
      BY <3>1, <3>2, FS_AddElement
    <3>4. QED
      BY <1>3, <2>5, <3>1, <3>3, AgeFacts DEF TableWithinLimit
  <2>13. QED
    BY <2>7, <2>8, <2>9, <2>10, <2>11, <2>12 DEF Inv
<1>4. QED
  BY <1>2, <1>3

LEMMA ReleaseStep ==
    ASSUME Inv, NEW p \in Proc, NEW l \in Lease, Release(p, l) \/ ReleaseFails(p, l)
    PROVE  Inv'
<1>1. /\ UNCHANGED <<alive, stalled, renewing, started, silence, lapsed>>
      /\ l \in held[p] /\ held' = [held EXCEPT ![p] = @ \ {l}]
  BY DEF Release, ReleaseFails
<1>2. /\ DOMAIN leases \ {l} \subseteq DOMAIN leases'
      /\ DOMAIN leases' \subseteq DOMAIN leases
      /\ \A k \in DOMAIN leases' : leases'[k] = leases[k]
      /\ leases' \in [DOMAIN leases' -> Record]
  BY DEF Release, ReleaseFails, Restrict, Inv, TypeOK
<1>3. /\ held' \in [Proc -> SUBSET Lease]
      /\ \A q \in Proc : held'[q] \subseteq held[q]
      /\ \A q \in Proc : l \notin held'[q]
  BY <1>1 DEF Inv, TypeOK, Exclusive
<1>4. TypeOK'
  BY <1>1, <1>2, <1>3 DEF Inv, TypeOK
<1>5. DeadHoldNothing' /\ Exclusive'
  BY <1>1, <1>3 DEF Inv, DeadHoldNothing, Exclusive
<1>6. SuspectIsOld'
  BY <1>2 DEF Inv, SuspectIsOld
<1>7. HeldIsFresh'
  BY <1>1, <1>2, <1>3 DEF Inv, HeldIsFresh
<1>8. TableWithinLimit'
  BY <1>2, LimitedSet, AgeFacts DEF Inv, TypeOK, TableWithinLimit
<1>9. QED
  BY <1>4, <1>5, <1>6, <1>7, <1>8 DEF Inv

LEMMA StartRenewalStep == ASSUME Inv, NEW p \in Proc, StartRenewal(p) PROVE Inv'
<1>1. /\ UNCHANGED <<leases, alive, stalled, held, silence, lapsed>>
      /\ alive[p] /\ renewing[p] = {}
      /\ renewing' = [renewing EXCEPT ![p] = held[p]]
      /\ started' = [started EXCEPT ![p] = 0]
  BY DEF StartRenewal, Up
<1>2. 0 \in 0 .. Longest
  BY AgeFacts
<1>3. TypeOK'
  BY <1>1, <1>2 DEF Inv, TypeOK
<1>4. DeadHoldNothing' /\ Exclusive'
  BY <1>1 DEF Inv, TypeOK, DeadHoldNothing, Exclusive
<1>5. HeldIsFresh'
  BY <1>1 DEF Inv, TypeOK, HeldIsFresh
<1>6. QED
  BY <1>1, <1>3, <1>4, <1>5 DEF Inv, SuspectIsOld, TableWithinLimit

\* A renewal rewrites leases of p only, and makes p as silent as the leases it
\* did not read are old at most.
LEMMA RenewStep == ASSUME Inv, NEW p \in Proc, Renew(p) PROVE Inv'
<1> DEFINE new == [pid |-> p, age |-> 0, suspect |-> Trusted]
<1>1. /\ UNCHANGED <<alive, stalled, held, lapsed>>
      /\ alive[p] /\ renewing[p] # {}
      /\ leases' = [l \in DOMAIN leases |-> IF l \in renewing[p] THEN new ELSE leases[l]]
      /\ renewing' = [renewing EXCEPT ![p] = {}]
      /\ silence' = [silence EXCEPT ![p] = started[p]]
      /\ started' = [started EXCEPT ![p] = 0]
  BY DEF Renew, Renewed, Up
<1>2. 0 \in 0 .. Longest
  BY AgeFacts
<1>3. new \in Record /\ new.age = 0 /\ new.suspect = Trusted /\ new.pid = p
  BY <1>2 DEF Record, Trusted
<1>4. DOMAIN leases' = DOMAIN leases
  BY <1>1
<1> HIDE DEF new
<1>5. TypeOK'
  <2>1. leases' \in [DOMAIN leases -> Record]
    BY <1>1, <1>3 DEF Inv, TypeOK
  <2>2. QED
    BY <1>1, <1>2, <1>4, <2>1 DEF Inv, TypeOK
<1>6. DeadHoldNothing' /\ Exclusive'
  BY <1>1 DEF Inv, TypeOK, DeadHoldNothing, Exclusive
<1>7. SuspectIsOld'
  BY <1>1, <1>3, <1>4 DEF Inv, SuspectIsOld
<1>8. HeldIsFresh'
  <2> SUFFICES ASSUME ~lapsed, NEW q \in Proc, NEW k \in held[q]
               PROVE  /\ k \in DOMAIN leases' /\ leases'[k].pid = q
                      /\ leases'[k].age <= TTL + Grace
                      /\ leases'[k].age <= silence'[q]
                      /\ renewing'[q] # {} /\ k \notin renewing'[q]
                           => leases'[k].age <= started'[q]
    BY <1>1 DEF HeldIsFresh
  <2>1. /\ k \in DOMAIN leases /\ leases[k].pid = q
        /\ leases[k].age <= TTL + Grace /\ leases[k].age <= silence[q]
        /\ renewing[q] # {} /\ k \notin renewing[q] => leases[k].age <= started[q]
    BY DEF Inv, HeldIsFresh
  <2>2. started[p] \in Nat /\ silence[q] \in Nat
    BY DEF Inv, TypeOK
  <2>3. CASE q = p
    <3>1. silence'[q] = started[p] /\ renewing'[q] = {}
      BY <1>1, <2>3 DEF Inv, TypeOK
    <3>2. k \in renewing[p] => leases'[k].pid = q /\ leases'[k].age = 0
      BY <1>1, <1>3, <2>1, <2>3
    <3>3. k \notin renewing[p] => leases'[k] = leases[k]
      BY <1>1, <2>1
    <3>4. QED
      BY <1>1, <1>4, <2>1, <2>2, <2>3, <3>1, <3>2, <3>3, AgeFacts
  <2>4. CASE q # p
    <3>1. k \notin renewing[p]
      BY <2>4 DEF Inv, Exclusive
    <3>2. leases'[k] = leases[k]
      BY <1>1, <2>1, <3>1
    <3>3. silence'[q] = silence[q] /\ renewing'[q] = renewing[q] /\ started'[q] = started[q]
      BY <1>1, <2>4 DEF Inv, TypeOK
    <3>4. QED
      BY <1>4, <2>1, <3>2, <3>3
  <2>5. QED
    BY <2>3, <2>4
<1>9. QED
  BY <1>4, <1>5, <1>6, <1>7, <1>8 DEF Inv, TableWithinLimit

LEMMA ReconcileStep == ASSUME Inv, NEW p \in Proc, Reconcile(p) PROVE Inv'
<1>1. /\ leases' = Reaped(leases)
      /\ UNCHANGED <<alive, stalled, held, renewing, started, silence, lapsed>>
  BY DEF Reconcile
<1>2. TypeOK'
  BY <1>1, ReapedFacts DEF Inv, TypeOK
<1>3. SuspectIsOld'
  BY <1>1, ReapedSuspects DEF SuspectIsOld
<1>4. HeldIsFresh'
  BY <1>1, ReapedHeld DEF Inv, HeldIsFresh
<1>5. TableWithinLimit'
  BY <1>1, ReapedFacts, LimitedSet, AgeFacts DEF Inv, TypeOK, TableWithinLimit
<1>6. QED
  BY <1>1, <1>2, <1>3, <1>4, <1>5 DEF Inv, DeadHoldNothing, Exclusive

\* A lease ages with its holder, and a holder beyond TTL and grace lapses.
LEMMA TickStep == ASSUME Inv, Tick PROVE Inv'
<1> DEFINE Aged(r) == [r EXCEPT !.age = Older(@),
                               !.suspect = IF @ = Trusted THEN @ ELSE Older(@)]
<1>1. /\ UNCHANGED <<alive, stalled, held, renewing>>
      /\ leases' = [l \in DOMAIN leases |-> Aged(leases[l])]
      /\ silence' = [p \in Proc |-> IF held[p] = {} THEN 0 ELSE Older(silence[p])]
      /\ started' = [p \in Proc |-> IF renewing[p] = {} THEN 0 ELSE Older(started[p])]
      /\ lapsed' = (lapsed \/ \E p \in Proc : alive[p] /\ silence'[p] > TTL + Grace)
  BY DEF Tick
<1>2. \A r \in Record :
        /\ Aged(r) \in Record /\ Aged(r).pid = r.pid /\ Aged(r).age = Older(r.age)
        /\ Aged(r).suspect = IF r.suspect = Trusted THEN Trusted ELSE Older(r.suspect)
  BY AgeFacts DEF Record
<1> HIDE DEF Aged
<1>3. /\ DOMAIN leases' = DOMAIN leases
      /\ \A l \in DOMAIN leases : leases[l] \in Record /\ leases'[l] = Aged(leases[l])
  BY <1>1 DEF Inv, TypeOK
<1>4. TypeOK'
  <2>1. leases' \in [DOMAIN leases' -> Record]
    BY <1>1, <1>2, <1>3
  <2>2. silence' \in [Proc -> 0 .. Longest] /\ started' \in [Proc -> 0 .. Longest]
    BY <1>1, AgeFacts DEF Inv, TypeOK
  <2>3. lapsed' \in BOOLEAN
    BY <1>1 DEF Inv, TypeOK
  <2>4. QED
    BY <1>1, <1>3, <2>1, <2>2, <2>3 DEF Inv, TypeOK
<1>5. SuspectIsOld'
  <2> SUFFICES ASSUME NEW l \in DOMAIN leases, leases'[l].suspect # Trusted
               PROVE  \/ leases'[l].age >= TTL + leases'[l].suspect
                      \/ leases'[l].age = Longest
    BY <1>3 DEF SuspectIsOld
  <2>1. /\ leases'[l].age = Older(leases[l].age) /\ leases[l].suspect # Trusted
        /\ leases'[l].suspect = Older(leases[l].suspect)
    BY <1>2, <1>3
  <2>2. leases[l].age \in 0 .. Longest /\ leases[l].suspect \in 0 .. Longest
    BY <1>3 DEF Record
  <2>3. leases[l].age >= TTL + leases[l].suspect \/ leases[l].age = Longest
    BY <2>1 DEF Inv, SuspectIsOld
  <2>4. QED
    BY <2>1, <2>2, <2>3, AgeFacts DEF Older
<1>6. HeldIsFresh'
  <2> SUFFICES ASSUME ~lapsed', NEW p \in Proc, NEW l \in held[p]
               PROVE  /\ l \in DOMAIN leases' /\ leases'[l].pid = p
                      /\ leases'[l].age <= TTL + Grace
                      /\ leases'[l].age <= silence'[p]
                      /\ renewing[p] # {} /\ l \notin renewing[p]
                           => leases'[l].age <= started'[p]
    BY <1>1 DEF HeldIsFresh
  <2>1. ~lapsed /\ alive[p] /\ silence'[p] <= TTL + Grace
    <3>1. alive[p]
      BY DEF Inv, DeadHoldNothing
    <3>2. silence'[p] \in Nat /\ ~(silence'[p] > TTL + Grace) /\ ~lapsed
      BY <1>1, <1>4, <3>1 DEF TypeOK
    <3>3. QED
      BY <3>1, <3>2, AgeFacts
  <2>2. /\ l \in DOMAIN leases /\ leases[l].pid = p /\ leases[l].age <= silence[p]
        /\ renewing[p] # {} /\ l \notin renewing[p] => leases[l].age <= started[p]
    BY <2>1 DEF Inv, HeldIsFresh
  <2>3. leases'[l].pid = p /\ leases'[l].age = Older(leases[l].age)
    BY <1>2, <1>3, <2>2
  <2>4. /\ leases[l].age \in 0 .. Longest /\ silence[p] \in 0 .. Longest
        /\ started[p] \in 0 .. Longest
    BY <1>3, <2>2 DEF Inv, TypeOK, Record
  <2>5. /\ silence'[p] = Older(silence[p])
        /\ renewing[p] # {} => started'[p] = Older(started[p])
    BY <1>1
  <2>6. /\ leases'[l].age <= silence'[p]
        /\ renewing[p] # {} /\ l \notin renewing[p] => leases'[l].age <= started'[p]
    BY <2>2, <2>3, <2>4, <2>5, AgeFacts
  <2>7. leases'[l].age \in Nat /\ silence'[p] \in Nat
    BY <2>3, <2>4, <2>5, AgeFacts
  <2>8. QED
    BY <1>3, <2>1, <2>2, <2>3, <2>6, <2>7, AgeFacts
<1>7. QED
  BY <1>1, <1>3, <1>4, <1>5, <1>6 DEF Inv, DeadHoldNothing, Exclusive, TableWithinLimit

LEMMA StallStep ==
    ASSUME Inv, NEW p \in Proc, Stall(p) \/ Resume(p)
    PROVE  Inv'
<1>1. /\ UNCHANGED <<leases, alive, held, renewing, started, silence, lapsed>>
      /\ stalled' \in [Proc -> BOOLEAN]
  BY DEF Stall, Resume, Inv, TypeOK
<1>2. QED
  BY <1>1 DEF Inv, TypeOK, DeadHoldNothing, Exclusive, SuspectIsOld, HeldIsFresh,
              TableWithinLimit

LEMMA KillStep == ASSUME Inv, NEW p \in Proc, Kill(p) PROVE Inv'
<1>1. /\ UNCHANGED <<leases, lapsed>>
      /\ held' = [held EXCEPT ![p] = {}] /\ renewing' = [renewing EXCEPT ![p] = {}]
      /\ started' = [started EXCEPT ![p] = 0] /\ silence' = [silence EXCEPT ![p] = 0]
      /\ alive' = [alive EXCEPT ![p] = FALSE] /\ stalled' = [stalled EXCEPT ![p] = FALSE]
  BY DEF Kill
<1>2. 0 \in 0 .. Longest
  BY AgeFacts
<1>3. TypeOK'
  BY <1>1, <1>2 DEF Inv, TypeOK
<1>4. DeadHoldNothing' /\ Exclusive'
  BY <1>1 DEF Inv, TypeOK, DeadHoldNothing, Exclusive
<1>5. HeldIsFresh'
  BY <1>1 DEF Inv, TypeOK, HeldIsFresh
<1>6. QED
  BY <1>1, <1>3, <1>4, <1>5 DEF Inv, SuspectIsOld, TableWithinLimit

LEMMA RespawnStep == ASSUME Inv, NEW p \in Proc, Respawn(p) PROVE Inv'
<1>1. /\ UNCHANGED <<leases, stalled, held, renewing, started, silence, lapsed>>
      /\ alive' = [alive EXCEPT ![p] = TRUE]
  BY DEF Respawn
<1>2. QED
  BY <1>1 DEF Inv, TypeOK, DeadHoldNothing, Exclusive, SuspectIsOld, HeldIsFresh,
              TableWithinLimit

LEMMA NextInv == Inv /\ [Next]_vars => Inv'
<1> SUFFICES ASSUME Inv, [Next]_vars PROVE Inv'
  OBVIOUS
<1>1. CASE Tick
  BY <1>1, TickStep
<1>2. ASSUME NEW p \in Proc, Acquire(p) \/ StartRenewal(p) \/ Renew(p) \/ Reconcile(p)
      PROVE  Inv'
  BY <1>2, AcquireStep, StartRenewalStep, RenewStep, ReconcileStep
<1>3. ASSUME NEW p \in Proc, Stall(p) \/ Resume(p) \/ Kill(p) \/ Respawn(p)
      PROVE  Inv'
  BY <1>3, StallStep, KillStep, RespawnStep
<1>4. ASSUME NEW p \in Proc, NEW l \in Lease, Release(p, l) \/ ReleaseFails(p, l)
      PROVE  Inv'
  BY <1>4, ReleaseStep
<1>5. CASE UNCHANGED vars
  BY <1>5 DEF vars, Inv, TypeOK, DeadHoldNothing, Exclusive, SuspectIsOld, HeldIsFresh,
              TableWithinLimit
<1>6. QED
  BY <1>1, <1>2, <1>3, <1>4, <1>5 DEF Next

-----------------------------------------------------------------------------
(* The theorems                                                            *)

LEMMA Invariance == Spec => []Inv
<1>1. QED
  BY InitInv, NextInv, PTL DEF Spec

\* Every variable keeps its type: ages stay within their bound, and the table
\* has leases with a process and two ages only.
THEOREM TypesHold == Spec => []TypeOK
<1>1. Inv => TypeOK
  BY DEF Inv
<1>2. QED
  BY <1>1, Invariance, PTL

\* The table never has more leases than the limit, whatever stalls, dies or
\* comes back late: no renewal resurrects a lease that was reclaimed
\* (shared_storage.py:4020-4022, 4352-4354).
THEOREM TableIsWithinLimit == Spec => []TableWithinLimit
<1>1. Inv => TableWithinLimit
  BY DEF Inv
<1>2. QED
  BY <1>1, Invariance, PTL

\* A lease that reaping takes is not in the hands of a living process unless
\* somebody lapsed: suspicion alone, a late renewal or a PID used again never
\* cost a holder its lease (shared_storage.py:4011-4015).
THEOREM HoldersKeepTheirLeases == Spec => []HeldIsFresh
<1>1. Inv => HeldIsFresh
  BY DEF Inv
<1>2. QED
  BY <1>1, Invariance, PTL

\* As long as no living process is silent beyond the TTL and the grace, the
\* calls being executed, of all processes, are within the limit: every one of
\* them has a lease in the table, which is within it.
THEOREM CapIsExactAlways == Spec => []CapIsExact
<1>1. Inv => CapIsExact
  <2> SUFFICES ASSUME Inv, ~lapsed
               PROVE  Cardinality({l \in Lease : \E p \in Proc : l \in held[p]}) <= Limit
    BY DEF CapIsExact
  <2> DEFINE H == {l \in Lease : \E p \in Proc : l \in held[p]}
  <2>1. H \subseteq DOMAIN leases /\ DOMAIN leases \subseteq Lease
    BY DEF Inv, TypeOK, HeldIsFresh
  <2>2. /\ Cardinality(H) \in Nat /\ Cardinality(H) <= Cardinality(DOMAIN leases)
        /\ Cardinality(DOMAIN leases) \in Nat
    BY <2>1, LimitedSet
  <2>3. Cardinality(DOMAIN leases) <= Limit
    BY DEF Inv, TableWithinLimit
  <2>4. QED
    BY <2>2, <2>3, AgeFacts
<1>2. QED
  BY <1>1, Invariance, PTL

\* A lease that was reclaimed under a stalled holder stays out of the table
\* for as long as that holder keeps it: a late renewal rewrites only what is
\* still listed, and a grant takes an id that is in nobody's books.
THEOREM ReclaimedIsNotResurrected == Spec => NoResurrection
<1>1. Inv /\ [Next]_vars =>
        \A p \in Proc : \A l \in held[p] \ DOMAIN leases : l \notin DOMAIN leases'
  <2> SUFFICES ASSUME Inv, [Next]_vars, NEW p \in Proc, NEW l \in held[p] \ DOMAIN leases
               PROVE  l \notin DOMAIN leases'
    OBVIOUS
  <2>1. DOMAIN Reaped(leases) \subseteq DOMAIN leases
    BY DEF Reaped
  <2>2. ASSUME NEW q \in Proc, Acquire(q)
        PROVE  l \notin DOMAIN leases'
    <3>1. l \in Used
      BY DEF Used
    <3>2. CASE Cardinality(DOMAIN Reaped(leases)) >= Limit
      BY <2>1, <2>2, <3>2 DEF Acquire
    <3>3. CASE ~(Cardinality(DOMAIN Reaped(leases)) >= Limit)
      <4>1. Lease \ Used # {}
        BY <2>2, <3>3 DEF Acquire, Used, Inv, TypeOK
      <4>2. (CHOOSE k \in Lease \ Used : TRUE) \in Lease \ Used
        BY <4>1
      <4>3. DOMAIN leases' = DOMAIN Reaped(leases) \cup {CHOOSE k \in Lease \ Used : TRUE}
        BY <2>2, <3>3 DEF Acquire
      <4>4. QED
        BY <2>1, <3>1, <4>2, <4>3
    <3>4. QED
      BY <3>2, <3>3
  <2>3. ASSUME NEW q \in Proc, Reconcile(q) \/ Renew(q)
        PROVE  l \notin DOMAIN leases'
    BY <2>1, <2>3 DEF Reconcile, Renew, Renewed
  <2>4. ASSUME NEW q \in Proc, NEW k \in Lease, Release(q, k) \/ ReleaseFails(q, k)
        PROVE  l \notin DOMAIN leases'
    BY <2>4 DEF Release, ReleaseFails, Restrict
  <2>5. ASSUME NEW q \in Proc, StartRenewal(q) \/ Stall(q) \/ Resume(q) \/ Kill(q) \/ Respawn(q)
        PROVE  l \notin DOMAIN leases'
    BY <2>5 DEF StartRenewal, Stall, Resume, Kill, Respawn
  <2>6. CASE Tick
    BY <2>6 DEF Tick
  <2>7. CASE UNCHANGED vars
    BY <2>7 DEF vars
  <2>8. QED
    BY <2>2, <2>3, <2>4, <2>5, <2>6, <2>7 DEF Next
<1>2. QED
  BY <1>1, Invariance, PTL DEF Spec, NoResurrection

===============================================================================
