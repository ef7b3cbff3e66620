--------------------------- MODULE KeyedLocks_proofs ---------------------------
(***************************************************************************)
(* Proofs about the keyed locks: KeyedLocks, for every set of tasks,       *)
(* processes and keys, and then KeyedHolderTable, for any set of PIDs, any *)
(* number of acquisitions and any number of processes per PID.  They are   *)
(* two models without a common variable.                                   *)
(*                                                                         *)
(* Inv is inductive for KeyedLocks.  Beside the two invariants it implies  *)
(* (Exclusive and CountIsExact) it says how far a task's entries are       *)
(* entered in each phase (Shape), that a task owns the gates of its        *)
(* entered entries and no gate twice (GatesOwned), and that it is in the   *)
(* slots of their keys (SlotsOwned).                                       *)
(*                                                                         *)
(* TableInv is inductive for KeyedHolderTable.  HolderIsRecorded alone is  *)
(* not: the compare-and-set at the end of a reclaim relies on a probe made *)
(* earlier.  The strengthening says that the verdict "dead" cannot have    *)
(* become wrong in between (SnapIsDead), and that the verdict is right     *)
(* when it is made, because an identity stamped late can only be that of a *)
(* later process (StampSound).                                             *)
(***************************************************************************)
EXTENDS KeyedLocks, KeyedHolderTable, FiniteSetTheorems, TLAPS

\* The entries whose gate the task has locked.
Locked(t) == IF phase[t] = "lease" THEN Len(gates[t]) ELSE entered[t]

ShapeOf(t) ==
    /\ Len(keys[t]) \in 1..2
    /\ Len(gates[t]) <= Len(keys[t])
    /\ phase[t] = "next" => /\ entered[t] = Len(gates[t])
                            /\ Len(gates[t]) < Len(keys[t])
    /\ phase[t] \in {"gate", "lease"} => entered[t] + 1 = Len(gates[t])
    /\ phase[t] \in {"in", "release"} => /\ entered[t] = Len(gates[t])
                                         /\ Len(gates[t]) > 0
    /\ phase[t] = "rollback" => /\ Len(gates[t]) > 0
                                /\ \/ entered[t] = Len(gates[t])
                                   \/ entered[t] + 1 = Len(gates[t])
    /\ phase[t] = "done" => entered[t] = 0 /\ Len(gates[t]) = 0

Shape == \A t \in Task : ShapeOf(t)

GatesOwned ==
    \A t \in Task : Live(t) =>
        /\ \A i \in 1..Locked(t) : owner[gates[t][i]] = t
        /\ \A i, j \in 1..Locked(t) : i # j => gates[t][i] # gates[t][j]

SlotsOwned ==
    \A t \in Task : multi /\ Live(t) =>
        \A i \in 1..entered[t] : slot[keys[t][i]] = t

OneProcess == multi \/ \A t, u \in Task : proc[t] = proc[u]

Inv == /\ TypeOK /\ Shape /\ OneGate /\ CountIsExact
       /\ GatesOwned /\ SlotsOwned /\ OneProcess

-----------------------------------------------------------------------------
\* Sorting a request of one or two keys gives a list of the same length
\* (_KeyedLockContext.__init__).
LEMMA SortedKeys ==
    ASSUME NEW request \in Requests
    PROVE  /\ Sorted(request) \in Seq(Key)
           /\ Len(Sorted(request)) \in 1..2
  <1>1. request \in Seq(Key) /\ Len(request) \in 1..2
    BY LocksAssumption
  <1>2. CASE Len(request) = 2 /\ request[1] > request[2]
    <2>1. request[1] \in Key /\ request[2] \in Key
      <3>1. \A i \in 1..Len(request) : request[i] \in Key
        BY <1>1
      <3> QED BY <1>2, <3>1
    <2>2. <<request[2], request[1]>> \in Seq(Key) /\ Len(<<request[2], request[1]>>) = 2
      BY <2>1
    <2> QED BY <1>2, <2>2 DEF Sorted
  <1>3. CASE ~(Len(request) = 2 /\ request[1] > request[2])
    BY <1>1, <1>3 DEF Sorted
  <1> QED BY <1>2, <1>3

\* The references to a key are a finite set.
LEMMA FiniteReferences ==
    ASSUME NEW p, NEW k
    PROVE  IsFiniteSet(References(p, k))
  <1>1. IsFiniteSet(Position)
    <2>1. IsFiniteSet(1..2)
      BY 1 \in Int, 2 \in Int, FS_Interval
    <2> QED BY <2>1 DEF Position
  <1>2. IsFiniteSet(Task \X Position)
    BY <1>1, FS_Product, LocksAssumption
  <1>3. References(p, k) \subseteq Task \X Position
    BY DEF References
  <1> QED BY <1>2, <1>3, FS_Subset

\* A finite set with two different members has at least two.
LEMMA TwoMembers ==
    ASSUME NEW S, IsFiniteSet(S), NEW a \in S, NEW b \in S, a # b
    PROVE  Cardinality(S) # 1
  <1>1. Cardinality(S \ {a}) = Cardinality(S) - 1 /\ IsFiniteSet(S \ {a})
    BY FS_RemoveElement
  <1>2. Cardinality(S \ {a}) # 0
    BY <1>1, FS_EmptySet
  <1> QED BY <1>1, <1>2, FS_CardinalityType

LEMMA GateIsNoGate == NoGate \notin Gate
  BY DEF NoGate, Gate, Position

LEMMA ShapeAtStart ==
    ASSUME NEW t, Len(keys[t]) \in 1..2, Len(gates[t]) = 0, entered[t] = 0,
           phase[t] = "next"
    PROVE  ShapeOf(t)
  BY DEF ShapeOf

LEMMA InitInv == Init => Inv
  <1> SUFFICES ASSUME Init PROVE Inv
    OBVIOUS
  <1> USE DEF Init
  <1>1. PICK request \in [Task -> Requests] : keys = [t \in Task |-> Sorted(request[t])]
    OBVIOUS
  <1>2. \A t \in Task : keys[t] \in Seq(Key) /\ Len(keys[t]) \in 1..2
    BY <1>1, SortedKeys
  <1>3. keys \in [Task -> Seq(Key)]
    BY <1>1, <1>2
  <1>4. TypeOK
    BY <1>3, LocksAssumption DEF TypeOK, Phase
  <1>5. Shape
    <2>1. ASSUME NEW t \in Task
          PROVE  gates[t] = <<>> /\ Len(gates[t]) = 0 /\ entered[t] = 0 /\ phase[t] = "next"
      OBVIOUS
    <2>2. ASSUME NEW t \in Task PROVE ShapeOf(t)
      <3>1. Len(keys[t]) \in 1..2
        BY <1>2
      <3>2. Len(gates[t]) = 0 /\ entered[t] = 0 /\ phase[t] = "next"
        BY <2>1
      <3> QED BY ONLY <3>1, <3>2, ShapeAtStart
    <2> QED BY <2>2 DEF Shape
  <1>6. OneGate /\ GatesOwned /\ SlotsOwned /\ OneProcess
    BY DEF OneGate, GatesOwned, SlotsOwned, OneProcess, Locked
  <1>7. CountIsExact
    <2>1. ASSUME NEW p \in Process, NEW k \in Key
          PROVE  References(p, k) = {}
      BY DEF References, Position
    <2> QED BY <2>1, FS_EmptySet DEF CountIsExact
  <1> QED BY <1>4, <1>5, <1>6, <1>7 DEF Inv

-----------------------------------------------------------------------------
(* One lemma per action.                                                   *)

LEMMA StepReference ==
    ASSUME Inv, NEW t \in Task, Reference(t)
    PROVE  Inv'
  <1> DEFINE p == proc[t]
             i == Len(gates[t]) + 1
             k == keys[t][i]
             g == IF table[p][k] = NoGate THEN <<t, i>> ELSE table[p][k]
  <1>0. UNCHANGED <<multi, proc, keys, alive, entered, owner, slot>>
    BY DEF Reference, fixed
  <1>1. /\ phase[t] = "next" /\ Live(t)
        /\ phase' = [phase EXCEPT ![t] = "gate"]
        /\ table' = [table EXCEPT ![p][k] = g]
        /\ count' = [count EXCEPT ![p][k] = @ + 1]
        /\ gates' = [gates EXCEPT ![t] = Append(@, g)]
    BY DEF Reference, Go
  <1>2. /\ gates[t] \in Seq(Gate) /\ keys[t] \in Seq(Key)
        /\ p \in Process /\ i \in 1..Len(keys[t]) /\ i \in Position
        /\ Len(gates[t]) \in Nat
    <2>1. gates[t] \in Seq(Gate) /\ keys[t] \in Seq(Key) /\ p \in Process
      BY DEF Inv, TypeOK
    <2>2. Len(gates[t]) \in Nat /\ Len(keys[t]) \in 1..2 /\ Len(gates[t]) < Len(keys[t])
      BY <1>1, <2>1 DEF Inv, Shape, ShapeOf
    <2> QED BY <2>1, <2>2 DEF Position
  <1>3. k \in Key
    BY <1>2
  <1>4. table[p][k] \in Gate \cup {NoGate} /\ count[p][k] \in Nat
    BY <1>2, <1>3 DEF Inv, TypeOK
  <1>5. g \in Gate /\ g # NoGate
    BY <1>2, <1>4, GateIsNoGate DEF Gate
  <1> HIDE DEF g
  <1>6. /\ gates'[t] \in Seq(Gate) /\ Len(gates'[t]) = i /\ gates'[t][i] = g
        /\ \A j \in 1..Len(gates[t]) : gates'[t][j] = gates[t][j]
    <2>1. gates'[t] = Append(gates[t], g)
      BY <1>1 DEF Inv, TypeOK
    <2> QED BY <1>2, <1>5, <2>1
  <1>7. \A u \in Task \ {t} : gates'[u] = gates[u] /\ phase'[u] = phase[u]
    BY <1>1 DEF Inv, TypeOK
  <1>8. phase'[t] = "gate"
    BY <1>1 DEF Inv, TypeOK
  <1>9. \A q \in Process, l \in Key :
           /\ table'[q][l] = IF q = p /\ l = k THEN g ELSE table[q][l]
           /\ count'[q][l] = IF q = p /\ l = k THEN count[q][l] + 1 ELSE count[q][l]
    BY <1>1, <1>2, <1>3 DEF Inv, TypeOK
  <1>10. TypeOK'
    <2>1. gates' \in [Task -> Seq(Gate)]
      BY <1>1, <1>2, <1>5 DEF Inv, TypeOK
    <2>2. phase' \in [Task -> Phase]
      BY <1>1 DEF Inv, TypeOK, Phase
    <2>3. table' \in [Process -> [Key -> Gate \cup {NoGate}]]
      BY <1>1, <1>5 DEF Inv, TypeOK
    <2>4. count' \in [Process -> [Key -> Nat]]
      BY <1>1, <1>2, <1>3, <1>4 DEF Inv, TypeOK
    <2> QED BY <1>0, <2>1, <2>2, <2>3, <2>4 DEF Inv, TypeOK
  <1>11. Shape'
    <2>1. ASSUME NEW u \in Task PROVE ShapeOf(u)'
      <3>0. ShapeOf(u)
        BY DEF Inv, Shape
      <3>1. CASE u = t
        BY <1>0, <1>1, <1>2, <1>6, <1>8, <3>0, <3>1 DEF ShapeOf
      <3>2. CASE u # t
        BY <1>0, <1>7, <3>0, <3>2 DEF ShapeOf
      <3> QED BY <3>1, <3>2
    <2> QED BY <2>1 DEF Shape
  <1>12. OneGate'
    <2> SUFFICES ASSUME NEW u \in Task, Live(u), NEW j \in 1..Len(gates'[u])
                 PROVE  table'[proc[u]][keys[u][j]] = gates'[u][j]
      BY <1>0 DEF OneGate, Live
    <2>1. CASE u = t /\ j = i
      BY <1>2, <1>3, <1>6, <1>9, <2>1
    <2>2. CASE ~(u = t /\ j = i)
      <3>1. j \in 1..Len(gates[u]) /\ gates'[u][j] = gates[u][j]
        BY <1>2, <1>6, <1>7, <2>2
      <3>2. table[proc[u]][keys[u][j]] = gates[u][j]
        BY <3>1 DEF Inv, OneGate
      <3>3. gates[u] \in Seq(Gate) /\ gates[u][j] # NoGate
        BY <3>1, GateIsNoGate DEF Inv, TypeOK
      <3>4. proc[u] \in Process /\ keys[u][j] \in Key
        <4>1. keys[u] \in Seq(Key) /\ j \in 1..Len(keys[u])
          BY <3>1, <3>3 DEF Inv, TypeOK, Shape, ShapeOf
        <4> QED BY <4>1 DEF Inv, TypeOK
      <3> QED BY <1>9, <3>1, <3>2, <3>3, <3>4 DEF g
    <2> QED BY <2>1, <2>2
  <1>13. CountIsExact'
    <2> SUFFICES ASSUME NEW q \in Process, NEW l \in Key, alive[q]
                 PROVE  /\ count'[q][l] = Cardinality(References(q, l)')
                        /\ table'[q][l] = NoGate <=> count'[q][l] = 0
      BY <1>0 DEF CountIsExact
    <2>0. /\ count[q][l] = Cardinality(References(q, l))
          /\ table[q][l] = NoGate <=> count[q][l] = 0
          /\ count[q][l] \in Nat
      BY DEF Inv, CountIsExact, TypeOK
    <2>1. CASE q = p /\ l = k
      <3>1. <<t, i>> \notin References(q, l)
        BY <1>2 DEF References
      <3>2. References(q, l)' = References(q, l) \cup {<<t, i>>}
        <4>1. ASSUME NEW r \in Task \X Position
              PROVE  r \in References(q, l)' <=> r \in References(q, l) \/ r = <<t, i>>
          <5>1. PICK u \in Task, j \in Position : r = <<u, j>>
            OBVIOUS
          <5> QED BY <1>0, <1>2, <1>6, <1>7, <2>1, <5>1 DEF References, Position
        <4> QED BY <1>2, <4>1 DEF References
      <3>3. Cardinality(References(q, l)') = Cardinality(References(q, l)) + 1
        BY <3>1, <3>2, FiniteReferences, FS_AddElement
      <3> QED BY <1>5, <1>9, <2>0, <2>1, <3>3
    <2>2. CASE ~(q = p /\ l = k)
      <3>1. References(q, l)' = References(q, l)
        <4>1. ASSUME NEW r \in Task \X Position
              PROVE  r \in References(q, l)' <=> r \in References(q, l)
          <5>1. PICK u \in Task, j \in Position : r = <<u, j>>
            OBVIOUS
          <5> QED BY <1>0, <1>2, <1>6, <1>7, <2>2, <5>1 DEF References, Position
        <4> QED BY <4>1 DEF References
      <3> QED BY <1>9, <2>0, <2>2, <3>1
    <2> QED BY <2>1, <2>2
  <1>14. \A u \in Task : Locked(u)' = Locked(u) /\ entered'[u] = entered[u]
    BY <1>0, <1>1, <1>7, <1>8 DEF Locked
  <1>15. ASSUME NEW u \in Task, NEW j \in 1..Locked(u)
         PROVE  gates'[u][j] = gates[u][j]
    <2>1. Locked(t) = Len(gates[t])
      BY <1>1 DEF Locked, Inv, Shape, ShapeOf
    <2> QED BY <1>6, <1>7, <1>15, <2>1
  <1>16. GatesOwned'
    BY <1>0, <1>14, <1>15 DEF Inv, GatesOwned, Live
  <1>17. SlotsOwned' /\ OneProcess'
    BY <1>0, <1>14 DEF Inv, SlotsOwned, OneProcess, Live
  <1> QED BY <1>10, <1>11, <1>12, <1>13, <1>16, <1>17 DEF Inv

\* What the steps that leave gates, table and counts alone have in common.
LEMMA EntriesUnchanged ==
    ASSUME Inv, TypeOK', UNCHANGED <<multi, proc, keys, gates, table, count>>,
           \A p \in Process : alive'[p] => alive[p]
    PROVE  OneGate' /\ CountIsExact' /\ OneProcess'
  <1>1. ASSUME NEW p, NEW k PROVE References(p, k)' = References(p, k)
    BY DEF References
  <1>2. CountIsExact'
    BY <1>1 DEF Inv, CountIsExact
  <1>3. \A t \in Task : Live(t)' => Live(t)
    BY DEF Inv, TypeOK, Live
  <1> QED BY <1>2, <1>3 DEF Inv, OneGate, OneProcess

\* A gate that is free is none of the gates a live task has locked.
LEMMA FreeGate ==
    ASSUME Inv, NEW g \in Gate, owner[g] = NoTask,
           NEW u \in Task, Live(u), NEW i \in 1..Locked(u)
    PROVE  gates[u][i] # g
  BY LocksAssumption DEF Inv, GatesOwned

\* The entries up to Locked(t) exist, and the entered ones are among them.
LEMMA LockedEntries ==
    ASSUME Inv, NEW t \in Task
    PROVE  /\ Locked(t) \in 0..Len(gates[t])
           /\ entered[t] \in 0..Locked(t)
           /\ Len(gates[t]) \in 0..Len(keys[t])
           /\ Len(keys[t]) \in 1..2
           /\ gates[t] \in Seq(Gate) /\ keys[t] \in Seq(Key)
           /\ \A i \in 1..Len(gates[t]) :
                 gates[t][i] \in Gate /\ keys[t][i] \in Key
           /\ proc[t] \in Process
  <1>1. gates[t] \in Seq(Gate) /\ keys[t] \in Seq(Key) /\ entered[t] \in Nat
        /\ proc[t] \in Process /\ phase[t] \in Phase
    BY DEF Inv, TypeOK
  <1>2. ShapeOf(t)
    BY DEF Inv, Shape
  <1>3. /\ Locked(t) \in 0..Len(gates[t]) /\ entered[t] \in 0..Locked(t)
        /\ Len(gates[t]) \in 0..Len(keys[t]) /\ Len(keys[t]) \in 1..2
    BY <1>1, <1>2 DEF ShapeOf, Locked, Phase
  <1>4. ASSUME NEW i \in 1..Len(gates[t])
        PROVE  gates[t][i] \in Gate /\ keys[t][i] \in Key
    <2>1. i \in 1..Len(keys[t])
      BY <1>3
    <2> QED BY <1>1, <2>1
  <1> QED BY <1>1, <1>3, <1>4

LEMMA StepLockGate ==
    ASSUME Inv, NEW t \in Task, LockGate(t)
    PROVE  Inv'
  <1> DEFINE n == Len(gates[t])
             g == gates[t][n]
  <1>0. /\ UNCHANGED <<multi, proc, keys, alive, gates, table, count, slot>>
        /\ phase[t] = "gate" /\ Live(t)
        /\ owner[g] = NoTask /\ owner' = [owner EXCEPT ![g] = t]
    BY DEF LockGate, fixed, Go, Entered, Last
  <1>1. ShapeOf(t)
    BY DEF Inv, Shape
  <1>2. n \in 1..Len(keys[t]) /\ g \in Gate /\ Locked(t) = n - 1 /\ entered[t] = n - 1
    BY <1>0, <1>1, LockedEntries DEF ShapeOf, Locked
  <1>3. /\ \A u \in Task \ {t} : phase'[u] = phase[u] /\ entered'[u] = entered[u]
        /\ \/ multi /\ phase'[t] = "lease" /\ entered'[t] = n - 1
           \/ /\ ~multi /\ entered'[t] = n
              /\ phase'[t] = IF n = Len(keys[t]) THEN "in" ELSE "next"
    BY <1>2 DEF LockGate, Go, Entered, Inv, TypeOK
  <1>4. TypeOK'
    <2>1. phase' \in [Task -> Phase]
      BY DEF LockGate, Go, Entered, Inv, TypeOK, Phase
    <2>2. entered' \in [Task -> Nat]
      BY DEF LockGate, Go, Entered, Inv, TypeOK
    <2>3. owner' \in [Gate -> Task \cup {NoTask}]
      BY <1>0 DEF Inv, TypeOK
    <2> QED BY <1>0, <2>1, <2>2, <2>3 DEF Inv, TypeOK
  <1>5. Shape'
    <2>1. ASSUME NEW u \in Task PROVE ShapeOf(u)'
      <3>0. ShapeOf(u)
        BY DEF Inv, Shape
      <3>1. CASE u = t
        BY <1>0, <1>2, <1>3, <3>0, <3>1 DEF ShapeOf
      <3>2. CASE u # t
        BY <1>0, <1>3, <3>0, <3>2 DEF ShapeOf
      <3> QED BY <3>1, <3>2
    <2> QED BY <2>1 DEF Shape
  <1>6. OneGate' /\ CountIsExact' /\ OneProcess'
    BY <1>0, <1>4, EntriesUnchanged
  <1>7. Locked(t)' = n /\ \A u \in Task \ {t} : Locked(u)' = Locked(u)
    BY <1>0, <1>2, <1>3 DEF Locked
  <1>8. GatesOwned'
    <2> SUFFICES ASSUME NEW u \in Task, Live(u)
                 PROVE  /\ \A i \in 1..Locked(u)' : owner'[gates[u][i]] = u
                        /\ \A i, j \in 1..Locked(u)' :
                              i # j => gates[u][i] # gates[u][j]
      BY <1>0 DEF GatesOwned, Live
    <2>1. /\ \A i \in 1..Locked(u) : /\ owner[gates[u][i]] = u
                                     /\ gates[u][i] \in Gate
                                     /\ gates[u][i] # g
          /\ \A i, j \in 1..Locked(u) : i # j => gates[u][i] # gates[u][j]
      <3>1. \A i \in 1..Locked(u) : gates[u][i] \in Gate
        BY LockedEntries
      <3> QED BY <1>0, <1>2, <3>1, FreeGate DEF Inv, GatesOwned
    <2>2. owner'[g] = t /\ \A h \in Gate \ {g} : owner'[h] = owner[h]
      BY <1>0, <1>2 DEF Inv, TypeOK
    <2>3. CASE u = t
      <3>1. \A i \in 1..n : i \in 1..Locked(t) \/ gates[t][i] = g
        BY <1>2
      <3>2. \A i \in 1..n : i \in 1..Locked(t) \/ i = n
        BY <1>2
      <3> QED BY <1>7, <2>1, <2>2, <2>3, <3>1, <3>2
    <2>4. CASE u # t
      BY <1>7, <2>1, <2>2, <2>4
    <2> QED BY <2>3, <2>4
  <1>9. SlotsOwned'
    BY <1>0, <1>2, <1>3 DEF Inv, SlotsOwned, Live
  <1> QED BY <1>4, <1>5, <1>6, <1>8, <1>9 DEF Inv

LEMMA StepLeaseKey ==
    ASSUME Inv, NEW t \in Task, LeaseKey(t)
    PROVE  Inv'
  <1> DEFINE n == Len(gates[t])
             k == keys[t][n]
  <1>0. /\ UNCHANGED <<multi, proc, keys, alive, gates, table, count, owner>>
        /\ phase[t] = "lease" /\ Live(t)
        /\ slot[k] \in {NoTask} \cup {u \in Task : ~Live(u)}
        /\ slot' = [slot EXCEPT ![k] = t]
    BY DEF LeaseKey, fixed, Go, Entered
  <1>1. ShapeOf(t)
    BY DEF Inv, Shape
  <1>2. n \in 1..Len(keys[t]) /\ k \in Key /\ Locked(t) = n /\ entered[t] = n - 1
    BY <1>0, <1>1, LockedEntries DEF ShapeOf, Locked
  <1>3. /\ \A u \in Task \ {t} : phase'[u] = phase[u] /\ entered'[u] = entered[u]
        /\ entered'[t] = n
        /\ phase'[t] = IF n = Len(keys[t]) THEN "in" ELSE "next"
    BY <1>2 DEF LeaseKey, Go, Entered, Inv, TypeOK
  <1>4. TypeOK'
    <2>1. phase' \in [Task -> Phase]
      BY DEF LeaseKey, Go, Entered, Inv, TypeOK, Phase
    <2>2. entered' \in [Task -> Nat]
      BY DEF LeaseKey, Go, Entered, Inv, TypeOK
    <2>3. slot' \in [Key -> Task \cup {NoTask}]
      BY <1>0 DEF Inv, TypeOK
    <2> QED BY <1>0, <2>1, <2>2, <2>3 DEF Inv, TypeOK
  <1>5. Shape'
    <2>1. ASSUME NEW u \in Task PROVE ShapeOf(u)'
      <3>0. ShapeOf(u)
        BY DEF Inv, Shape
      <3>1. CASE u = t
        BY <1>0, <1>2, <1>3, <3>0, <3>1 DEF ShapeOf
      <3>2. CASE u # t
        BY <1>0, <1>3, <3>0, <3>2 DEF ShapeOf
      <3> QED BY <3>1, <3>2
    <2> QED BY <2>1 DEF Shape
  <1>6. OneGate' /\ CountIsExact' /\ OneProcess'
    BY <1>0, <1>4, EntriesUnchanged
  <1>7. \A u \in Task : Locked(u)' = Locked(u)
    BY <1>0, <1>2, <1>3 DEF Locked
  <1>8. GatesOwned'
    BY <1>0, <1>7 DEF Inv, GatesOwned, Live
  <1>9. SlotsOwned'
    <2> SUFFICES ASSUME NEW u \in Task, multi, Live(u), NEW i \in 1..entered'[u]
                 PROVE  slot'[keys[u][i]] = u
      BY <1>0 DEF SlotsOwned, Live
    <2>1. slot'[k] = t /\ \A l \in Key \ {k} : slot'[l] = slot[l]
      BY <1>0, <1>2 DEF Inv, TypeOK
    <2>2. CASE u = t /\ i = n
      BY <2>1, <2>2
    <2>3. CASE ~(u = t /\ i = n)
      <3>1. i \in 1..entered[u]
        BY <1>2, <1>3, <2>3
      <3>2. slot[keys[u][i]] = u /\ keys[u][i] \in Key
        BY <3>1, LockedEntries DEF Inv, SlotsOwned
      <3>3. keys[u][i] = k => u = t
        BY <1>0, <3>2, LocksAssumption
      <3> QED BY <2>1, <3>2, <3>3
    <2> QED BY <2>2, <2>3
  <1> QED BY <1>4, <1>5, <1>6, <1>8, <1>9 DEF Inv

\* Only its owner gives a gate back: nobody else has it locked.
LEMMA OthersKeepGates ==
    ASSUME Inv, NEW t \in Task, Live(t), NEW n \in 1..Locked(t),
           NEW u \in Task, Live(u), NEW i \in 1..Locked(u), u # t \/ i # n
    PROVE  gates[u][i] # gates[t][n]
  BY DEF Inv, GatesOwned

LEMMA StepCancel ==
    ASSUME Inv, NEW t \in Task, Cancel(t)
    PROVE  Inv'
  <1> DEFINE n == Len(gates[t])
             g == gates[t][n]
  <1>0. /\ UNCHANGED <<multi, proc, keys, alive, gates, entered, table, count, slot>>
        /\ phase[t] \in {"gate", "lease"} /\ Live(t)
        /\ phase' = [phase EXCEPT ![t] = "rollback"]
        /\ owner' = IF phase[t] = "lease" THEN [owner EXCEPT ![g] = NoTask] ELSE owner
    BY DEF Cancel, fixed, Go, Last
  <1>1. ShapeOf(t)
    BY DEF Inv, Shape
  <1>2. n \in 1..Len(keys[t]) /\ g \in Gate /\ entered[t] = n - 1
        /\ (phase[t] = "lease" => Locked(t) = n)
        /\ (phase[t] # "lease" => Locked(t) = n - 1)
    BY <1>0, <1>1, LockedEntries DEF ShapeOf, Locked
  <1>3. phase'[t] = "rollback" /\ \A u \in Task \ {t} : phase'[u] = phase[u]
    BY <1>0 DEF Inv, TypeOK
  <1>4. TypeOK'
    <2>1. phase' \in [Task -> Phase]
      BY <1>0 DEF Inv, TypeOK, Phase
    <2>2. owner' \in [Gate -> Task \cup {NoTask}]
      BY <1>0 DEF Inv, TypeOK
    <2> QED BY <1>0, <2>1, <2>2 DEF Inv, TypeOK
  <1>5. Shape'
    <2>1. ASSUME NEW u \in Task PROVE ShapeOf(u)'
      <3>0. ShapeOf(u)
        BY DEF Inv, Shape
      <3>1. CASE u = t
        BY <1>0, <1>2, <1>3, <3>0, <3>1 DEF ShapeOf
      <3>2. CASE u # t
        BY <1>0, <1>3, <3>0, <3>2 DEF ShapeOf
      <3> QED BY <3>1, <3>2
    <2> QED BY <2>1 DEF Shape
  <1>6. OneGate' /\ CountIsExact' /\ OneProcess'
    BY <1>0, <1>4, EntriesUnchanged
  <1>7. Locked(t)' = n - 1 /\ \A u \in Task \ {t} : Locked(u)' = Locked(u)
    BY <1>0, <1>2, <1>3 DEF Locked
  <1>8. GatesOwned'
    <2> SUFFICES ASSUME NEW u \in Task, Live(u)
                 PROVE  /\ \A i \in 1..Locked(u)' : owner'[gates[u][i]] = u
                        /\ \A i, j \in 1..Locked(u)' :
                              i # j => gates[u][i] # gates[u][j]
      BY <1>0 DEF GatesOwned, Live
    <2>1. /\ \A i \in 1..Locked(u) : /\ owner[gates[u][i]] = u
                                     /\ gates[u][i] \in Gate
          /\ \A i, j \in 1..Locked(u) : i # j => gates[u][i] # gates[u][j]
      <3>1. \A i \in 1..Locked(u) : gates[u][i] \in Gate
        BY LockedEntries
      <3> QED BY <3>1 DEF Inv, GatesOwned
    <2>2. Locked(u)' <= Locked(u) /\ Locked(u) \in Nat /\ Locked(u)' \in Nat
      BY <1>2, <1>7, LockedEntries
    <2>3. ASSUME NEW i \in 1..Locked(u)', phase[t] = "lease"
          PROVE  gates[u][i] # g
      <3>1. i \in 1..Locked(u) /\ (u # t \/ i # n)
        BY <1>2, <1>7, <2>2
      <3> QED BY <1>0, <1>2, <2>3, <3>1, OthersKeepGates
    <2>4. ASSUME NEW i \in 1..Locked(u)' PROVE i \in 1..Locked(u)
      BY <2>2
    <2>5. ASSUME NEW i \in 1..Locked(u)' PROVE owner'[gates[u][i]] = u
      <3>1. owner[gates[u][i]] = u /\ gates[u][i] \in Gate
        BY <2>1, <2>4
      <3>2. CASE phase[t] = "lease"
        BY <1>0, <2>3, <3>1, <3>2 DEF Inv, TypeOK
      <3>3. CASE phase[t] # "lease"
        BY <1>0, <3>1, <3>3
      <3> QED BY <3>2, <3>3
    <2> QED BY <2>1, <2>4, <2>5
  <1>9. SlotsOwned'
    BY <1>0 DEF Inv, SlotsOwned, Live
  <1> QED BY <1>4, <1>5, <1>6, <1>8, <1>9 DEF Inv

LEMMA StepKill ==
    ASSUME Inv, NEW p \in Process, Kill(p)
    PROVE  Inv'
  <1>1. /\ UNCHANGED <<multi, proc, keys, phase, gates, entered, table, count, owner, slot>>
        /\ \A q \in Process : alive'[q] => alive[q]
        /\ alive' \in [Process -> BOOLEAN]
    BY DEF Kill, fixed, Inv, TypeOK
  <1>2. TypeOK'
    BY <1>1 DEF Inv, TypeOK
  <1>3. OneGate' /\ CountIsExact' /\ OneProcess'
    BY <1>1, <1>2, EntriesUnchanged
  <1>4. \A t \in Task : Live(t)' => Live(t)
    BY <1>1 DEF Inv, TypeOK, Live
  <1>5. Shape'
    BY <1>1 DEF Inv, Shape, ShapeOf
  <1>6. GatesOwned' /\ SlotsOwned'
    BY <1>1, <1>4 DEF Inv, GatesOwned, SlotsOwned, Locked
  <1> QED BY <1>2, <1>3, <1>5, <1>6 DEF Inv

\* A last entry is one of two.
LEMMA LastPosition ==
    ASSUME NEW n, NEW m, n > 0, n \in 0..m, m \in 1..2
    PROVE  n \in 1..m /\ n \in 1..n /\ n \in Position /\ n \in Nat /\ m \in Nat
           /\ n <= m
  BY DEF Position

\* What the release of the last of n entries leaves has the right shape.
LEMMA ShapeAfterRelease ==
    ASSUME NEW t, NEW n \in Nat, n > 0,
           Len(keys'[t]) \in 1..2, n <= Len(keys'[t]),
           Len(gates'[t]) = n - 1, entered'[t] = n - 1,
           \/ n = 1 /\ phase'[t] = "done"
           \/ n # 1 /\ phase'[t] \in {"release", "rollback"}
    PROVE  ShapeOf(t)'
  BY DEF ShapeOf

LEMMA StepReleaseEntry ==
    ASSUME Inv, NEW t \in Task, ReleaseEntry(t)
    PROVE  Inv'
  <1> DEFINE n == Len(gates[t])
             p == proc[t]
             k == keys[t][n]
             g == gates[t][n]
  <1>0. /\ UNCHANGED <<multi, proc, keys, alive>>
        /\ phase[t] \in {"in", "release", "rollback"} /\ Live(t)
        /\ phase' = [phase EXCEPT ![t] = IF n = 1 THEN "done"
                        ELSE IF phase[t] = "rollback" THEN "rollback" ELSE "release"]
        /\ gates' = [gates EXCEPT ![t] = SubSeq(@, 1, n - 1)]
        /\ entered' = [entered EXCEPT ![t] = IF entered[t] = n THEN n - 1 ELSE @]
        /\ owner' = IF entered[t] = n THEN [owner EXCEPT ![g] = NoTask] ELSE owner
        /\ slot' = IF entered[t] = n /\ slot[k] = t
                   THEN [slot EXCEPT ![k] = NoTask] ELSE slot
        /\ table' = [table EXCEPT ![p][k] = TableAfter(p, k)]
        /\ count' = [count EXCEPT ![p][k] = @ - 1]
    BY DEF ReleaseEntry, fixed, Go
  <1>1. ShapeOf(t)
    BY DEF Inv, Shape
  <1>2. /\ n \in 1..Len(keys[t]) /\ n \in Position /\ p \in Process
        /\ k \in Key /\ g \in Gate /\ gates[t] \in Seq(Gate)
        /\ n \in Nat /\ n > 0 /\ n <= Len(keys[t]) /\ Len(keys[t]) \in 1..2
    <2>1. n > 0
      BY <1>0, <1>1 DEF ShapeOf
    <2>2. n \in 0..Len(keys[t]) /\ Len(keys[t]) \in 1..2 /\ gates[t] \in Seq(Gate)
          /\ p \in Process
      BY LockedEntries
    <2>3. n \in 1..Len(keys[t]) /\ n \in 1..n /\ n \in Position /\ n \in Nat
          /\ n <= Len(keys[t])
      BY <2>1, <2>2, LastPosition
    <2>4. g \in Gate /\ k \in Key
      BY <2>3, LockedEntries
    <2> QED BY <2>1, <2>2, <2>3, <2>4
  <1>3. entered[t] \in {n - 1, n} /\ Locked(t) = entered[t] /\ entered'[t] = n - 1
    BY <1>0, <1>1, <1>2 DEF ShapeOf, Locked, Inv, TypeOK
  <1>4. /\ gates'[t] \in Seq(Gate) /\ Len(gates'[t]) = n - 1
        /\ \A j \in 1..(n - 1) : gates'[t][j] = gates[t][j]
    <2>1. gates'[t] = SubSeq(gates[t], 1, n - 1)
      BY <1>0 DEF Inv, TypeOK
    <2> QED BY <1>2, <2>1
  <1>5. \A u \in Task \ {t} : /\ gates'[u] = gates[u] /\ phase'[u] = phase[u]
                              /\ entered'[u] = entered[u]
    BY <1>0 DEF Inv, TypeOK
  <1>6. phase'[t] = IF n = 1 THEN "done"
                        ELSE IF phase[t] = "rollback" THEN "rollback" ELSE "release"
    BY <1>0 DEF Inv, TypeOK
  <1>7. \A q \in Process, l \in Key :
           /\ table'[q][l] = IF q = p /\ l = k
                             THEN IF count[p][k] = 1 THEN NoGate ELSE table[p][k]
                             ELSE table[q][l]
           /\ count'[q][l] = IF q = p /\ l = k THEN count[p][k] - 1 ELSE count[q][l]
    BY <1>0, <1>2 DEF Inv, TypeOK, TableAfter
  <1>8. /\ <<t, n>> \in References(p, k) /\ alive[p]
        /\ count[p][k] = Cardinality(References(p, k)) /\ count[p][k] \in Nat
    <2>1. <<t, n>> \in References(p, k)
      BY <1>2 DEF References
    <2> QED BY <1>0, <1>2, <2>1 DEF Inv, CountIsExact, TypeOK, Live
  <1>9. /\ IsFiniteSet(References(p, k))
        /\ Cardinality(References(p, k) \ {<<t, n>>}) = count[p][k] - 1
        /\ count[p][k] > 0
    <2>1. IsFiniteSet(References(p, k))
      BY FiniteReferences
    <2>2. Cardinality(References(p, k) \ {<<t, n>>}) = Cardinality(References(p, k)) - 1
      BY <1>8, <2>1, FS_RemoveElement
    <2>3. Cardinality(References(p, k) \ {<<t, n>>}) \in Nat
      BY <2>1, FS_RemoveElement, FS_CardinalityType, <1>8
    <2> QED BY <1>8, <2>1, <2>2, <2>3
  <1>10. TypeOK'
    <2>1. phase' \in [Task -> Phase]
      BY <1>0 DEF Inv, TypeOK, Phase
    <2>2. owner' \in [Gate -> Task \cup {NoTask}]
      BY <1>0 DEF Inv, TypeOK
    <2>3. slot' \in [Key -> Task \cup {NoTask}]
      BY <1>0 DEF Inv, TypeOK
    <2>4. gates' \in [Task -> Seq(Gate)]
      BY <1>0, <1>4, <1>5 DEF Inv, TypeOK
    <2>5. entered' \in [Task -> Nat]
      <3>1. n - 1 \in Nat
        BY <1>2
      <3> QED BY <1>0, <3>1 DEF Inv, TypeOK
    <2>6. table' \in [Process -> [Key -> Gate \cup {NoGate}]]
      <3>1. TableAfter(p, k) \in Gate \cup {NoGate}
        BY <1>2 DEF TableAfter, Inv, TypeOK
      <3> QED BY <1>0, <3>1 DEF Inv, TypeOK
    <2>7. count' \in [Process -> [Key -> Nat]]
      <3>1. count[p][k] - 1 \in Nat
        BY <1>8, <1>9
      <3> QED BY <1>0, <1>2, <3>1 DEF Inv, TypeOK
    <2> QED BY <1>0, <2>1, <2>2, <2>3, <2>4, <2>5, <2>6, <2>7 DEF Inv, TypeOK
  <1>11. Shape'
    <2>1. ASSUME NEW u \in Task PROVE ShapeOf(u)'
      <3>0. ShapeOf(u)
        BY DEF Inv, Shape
      <3>1. CASE u = t
        <4>1. n \in Nat /\ n > 0 /\ Len(keys[t]) \in 1..2 /\ n <= Len(keys[t])
          BY <1>2
        <4>2. Len(gates'[t]) = n - 1 /\ entered'[t] = n - 1 /\ keys' = keys
          BY <1>0, <1>3, <1>4
        <4>3. \/ n = 1 /\ phase'[t] = "done"
              \/ n # 1 /\ phase'[t] \in {"release", "rollback"}
          BY <1>6
        <4> QED BY <3>1, <4>1, <4>2, <4>3, ShapeAfterRelease
      <3>2. CASE u # t
        BY <1>0, <1>5, <3>0, <3>2 DEF ShapeOf
      <3> QED BY <3>1, <3>2
    <2> QED BY <2>1 DEF Shape
  <1>12. ASSUME NEW u \in Task, NEW j \in 1..Len(gates'[u])
         PROVE  /\ j \in 1..Len(gates[u]) /\ gates'[u][j] = gates[u][j]
                /\ <<u, j>> # <<t, n>> /\ j \in Position
                /\ proc[u] \in Process /\ keys[u][j] \in Key
    <2>1. j \in 1..Len(gates[u]) /\ gates'[u][j] = gates[u][j] /\ <<u, j>> # <<t, n>>
      BY <1>2, <1>4, <1>5, <1>12
    <2> QED BY <2>1, LockedEntries DEF Position
  <1>13. OneGate'
    <2> SUFFICES ASSUME NEW u \in Task, Live(u), NEW j \in 1..Len(gates'[u])
                 PROVE  table'[proc[u]][keys[u][j]] = gates'[u][j]
      BY <1>0 DEF OneGate, Live
    <2>1. table[proc[u]][keys[u][j]] = gates[u][j]
      BY <1>12 DEF Inv, OneGate
    <2>2. ASSUME proc[u] = p, keys[u][j] = k PROVE count[p][k] # 1
      <3>1. <<u, j>> \in References(p, k)
        BY <1>12, <2>2 DEF References
      <3> QED BY <1>8, <1>9, <1>12, <3>1, TwoMembers
    <2> QED BY <1>7, <1>12, <2>1, <2>2
  <1>14. CountIsExact'
    <2> SUFFICES ASSUME NEW q \in Process, NEW l \in Key, alive[q]
                 PROVE  /\ count'[q][l] = Cardinality(References(q, l)')
                        /\ table'[q][l] = NoGate <=> count'[q][l] = 0
      BY <1>0 DEF CountIsExact
    <2>0. /\ count[q][l] = Cardinality(References(q, l))
          /\ table[q][l] = NoGate <=> count[q][l] = 0
      BY DEF Inv, CountIsExact
    <2>1. ASSUME NEW r \in Task \X Position
          PROVE  r \in References(q, l)' <=> r \in References(q, l) /\ r # <<t, n>>
      <3>1. PICK u \in Task, j \in Position : r = <<u, j>>
        OBVIOUS
      <3> QED BY <1>0, <1>2, <1>4, <1>5, <3>1 DEF References, Position
    <2>2. References(q, l)' = References(q, l) \ {<<t, n>>}
      BY <2>1 DEF References
    <2>3. CASE q = p /\ l = k
      <3>1. Cardinality(References(q, l)') = count[p][k] - 1
        BY <1>9, <2>2, <2>3
      <3>2. count'[q][l] = count[p][k] - 1
        BY <1>7, <2>3
      <3>3. table'[q][l] = IF count[p][k] = 1 THEN NoGate ELSE table[p][k]
        BY <1>7, <2>3
      <3>4. table[p][k] # NoGate
        BY <1>9, <2>0, <2>3
      <3>5. count[p][k] - 1 = 0 <=> count[p][k] = 1
        BY <1>8
      <3>6. table'[q][l] = NoGate <=> count[p][k] = 1
        BY <3>3, <3>4
      <3>7. table'[q][l] = NoGate <=> count'[q][l] = 0
        BY <3>2, <3>5, <3>6
      <3> QED BY <3>1, <3>2, <3>7
    <2>4. CASE ~(q = p /\ l = k)
      <3>1. <<t, n>> \notin References(q, l)
        BY <1>2, <2>4 DEF References
      <3>2. References(q, l)' = References(q, l)
        BY <2>2, <3>1
      <3>3. count'[q][l] = count[q][l] /\ table'[q][l] = table[q][l]
        BY <1>7, <2>4
      <3> QED BY <2>0, <3>2, <3>3
    <2> QED BY <2>3, <2>4
  <1>15. /\ Locked(t)' = n - 1 /\ Locked(t)' <= Locked(t)
         /\ \A u \in Task \ {t} : Locked(u)' = Locked(u)
    BY <1>2, <1>3, <1>4, <1>5, <1>6 DEF Locked
  <1>16. ASSUME NEW u \in Task, NEW i \in 1..Locked(u)'
         PROVE  /\ i \in 1..Locked(u) /\ gates'[u][i] = gates[u][i]
                /\ gates[u][i] \in Gate /\ (u # t \/ i # n)
    <2>1. i \in 1..Locked(u) /\ (u # t \/ i # n)
      BY <1>2, <1>3, <1>15
    <2>2. i \in 1..Len(gates[u]) /\ gates[u][i] \in Gate
      BY <2>1, LockedEntries
    <2> QED BY <1>4, <1>5, <1>15, <2>1, <2>2
  <1>17. GatesOwned'
    <2> SUFFICES ASSUME NEW u \in Task, Live(u)
                 PROVE  /\ \A i \in 1..Locked(u)' : owner'[gates'[u][i]] = u
                        /\ \A i, j \in 1..Locked(u)' :
                              i # j => gates'[u][i] # gates'[u][j]
      BY <1>0 DEF GatesOwned, Live
    <2>1. \A i, j \in 1..Locked(u)' : i # j => gates'[u][i] # gates'[u][j]
      BY <1>16 DEF Inv, GatesOwned
    <2>2. ASSUME NEW i \in 1..Locked(u)' PROVE owner'[gates'[u][i]] = u
      <3>1. owner[gates[u][i]] = u
        BY <1>16 DEF Inv, GatesOwned
      <3>2. CASE entered[t] = n
        <4>1. gates[u][i] # g
          BY <1>0, <1>2, <1>3, <1>16, <3>2, OthersKeepGates
        <4> QED BY <1>0, <1>16, <3>1, <4>1 DEF Inv, TypeOK
      <3>3. CASE entered[t] # n
        BY <1>0, <1>16, <3>1, <3>3
      <3> QED BY <3>2, <3>3
    <2> QED BY <2>1, <2>2
  <1>18. SlotsOwned'
    <2> SUFFICES ASSUME NEW u \in Task, multi, Live(u), NEW i \in 1..entered'[u]
                 PROVE  slot'[keys[u][i]] = u
      BY <1>0 DEF SlotsOwned, Live
    <2>1. i \in 1..entered[u] /\ (u # t \/ i # n)
      BY <1>2, <1>3, <1>5
    <2>2. slot[keys[u][i]] = u
      BY <2>1 DEF Inv, SlotsOwned
    <2>3. i \in 1..Locked(u) /\ i \in 1..Len(gates[u]) /\ keys[u][i] \in Key
      BY <2>1, LockedEntries
    <2>4. ASSUME u = t, entered[t] = n PROVE keys[u][i] # k
      <3>1. gates[u][i] # g
        BY <1>0, <1>2, <1>3, <2>1, <2>3, <2>4, OthersKeepGates
      <3> QED BY <1>2, <2>3, <2>4, <3>1 DEF Inv, OneGate
    <2> QED BY <1>0, <2>2, <2>3, <2>4 DEF Inv, TypeOK
  <1>19. OneProcess'
    BY <1>0 DEF Inv, OneProcess
  <1> QED BY <1>10, <1>11, <1>13, <1>14, <1>17, <1>18, <1>19 DEF Inv

-----------------------------------------------------------------------------
\* Through every step of an acquisition, a release, a roll-back, a cancellation
\* or a kill, the gates and slots agree with what the tasks hold.
THEOREM Invariance == Spec => []Inv
  <1>1. Inv /\ [Next]_vars => Inv'
    <2> SUFFICES ASSUME Inv, [Next]_vars PROVE Inv'
      OBVIOUS
    <2>1. ASSUME NEW t \in Task, Step(t) \/ Cancel(t) PROVE Inv'
      BY <2>1, StepReference, StepLockGate, StepLeaseKey, StepReleaseEntry,
         StepCancel DEF Step
    <2>2. CASE UNCHANGED vars
      <3>1. UNCHANGED <<multi, alive, proc, keys, phase, gates, entered, table,
                        count, owner, slot>>
        BY <2>2 DEF vars
      <3>2. TypeOK'
        BY <3>1 DEF Inv, TypeOK
      <3>3. OneGate' /\ CountIsExact' /\ OneProcess'
        BY <3>1, <3>2, EntriesUnchanged
      <3>4. Shape' /\ GatesOwned' /\ SlotsOwned'
        BY <3>1 DEF Inv, Shape, ShapeOf, GatesOwned, SlotsOwned, Locked, Live
      <3> QED BY <3>2, <3>3, <3>4 DEF Inv
    <2> QED BY <2>1, <2>2, StepKill DEF Next
  <1> QED BY <1>1, InitInv, PTL DEF Spec

\* No two live tasks have the same key entered, for any number of tasks,
\* processes and keys (KeyedUnifiedLock, shared_storage.py).
THEOREM Exclusion == Spec => []Exclusive
  <1>1. Inv => Exclusive
    <2> SUFFICES ASSUME Inv, NEW t \in Task, NEW u \in Task, t # u, Live(t), Live(u),
                        NEW i \in 1..entered[t], NEW j \in 1..entered[u]
                 PROVE  keys[t][i] # keys[u][j]
      BY DEF Exclusive
    <2>1. CASE multi
      BY <2>1 DEF Inv, SlotsOwned
    <2>2. CASE ~multi
      <3>1. /\ i \in 1..Len(gates[t]) /\ j \in 1..Len(gates[u])
            /\ i \in 1..Locked(t) /\ j \in 1..Locked(u)
        BY LockedEntries
      <3>2. gates[t][i] # gates[u][j]
        BY <3>1 DEF Inv, GatesOwned
      <3>3. proc[t] = proc[u]
        BY <2>2 DEF Inv, OneProcess
      <3> QED BY <3>1, <3>2, <3>3 DEF Inv, OneGate
    <2> QED BY <2>1, <2>2
  <1> QED BY <1>1, Invariance, PTL

\* The reference count of a key is the number of tasks that hold or await it,
\* and the entry exists as long as there is one ("entry exists iff its
\* refcount >= 1", KeyedUnifiedLock).
THEOREM ExactCounts == Spec => []CountIsExact
  <1>1. Inv => CountIsExact
    BY DEF Inv
  <1> QED BY <1>1, Invariance, PTL

\* All tasks of a process that hold or await a key share one gate object.
THEOREM SharedGate == Spec => []OneGate
  <1>1. Inv => OneGate
    BY DEF Inv
  <1> QED BY <1>1, Invariance, PTL

\* The variables keep their types.
THEOREM Typing == Spec => []TypeOK
  <1>1. Inv => TypeOK
    BY DEF Inv
  <1> QED BY <1>1, Invariance, PTL

-----------------------------------------------------------------------------
(* The holder table                                                        *)

\* No process is younger than its start time says.
BornInTime == \A l \in Lease : born[l] <= start[ownerPid[l]]

\* A stamped identity is that of the caller, or of a later process with its
\* PID when the caller died before the server took the sample.
StampSound == \A l \in Lease : stamp[l] # NoStamp =>
                 born[l] <= stamp[l] /\ stamp[l] <= start[ownerPid[l]]

\* Records come from callers.
RecordsHaveCallers ==
    /\ holder # NoLease => place[holder] # "idle"
    /\ \A l \in Lease : place[l] \in {"probe", "sampleDead", "cas"} =>
          snap[l] \in Lease /\ place[snap[l]] # "idle"

\* A reclaim under way is that of a dead owner.
SnapIsDead == \A l \in Lease : place[l] \in {"sampleDead", "cas"} =>
                 ~Lives(snap[l])

Fresh == \A l \in Lease : place[l] = "idle" => stamp[l] = NoStamp

TableInv ==
    /\ TableTypeOK /\ HolderIsRecorded
    /\ BornInTime /\ StampSound
    /\ RecordsHaveCallers /\ SnapIsDead /\ Fresh

-----------------------------------------------------------------------------
\* The deadness check never condemns a running owner, whichever sample it
\* draws (_holder_dead: "Returns True ONLY for a confirmed dead owner").
LEMMA DeadIsDead ==
    ASSUME TableTypeOK, StampSound, NEW l \in Lease,
           NEW d \in StartDelta(ownerPid[l]), HolderDead(l, d)
    PROVE  ~Lives(l)
BY DEF TableTypeOK, StampSound, StartDelta, HolderDead, Lives, NoStamp

\* Being dead is stable: a PID's start time only grows.
LEMMA DeadStaysDead ==
    ASSUME TableTypeOK, BornInTime, [TableNext]_tableVars,
           NEW l \in Lease, place[l] # "idle", ~Lives(l)
    PROVE  ~Lives(l)'
<1>1. CASE System
  BY <1>1, TableAssumption
  DEF System, KillProcess, ReusePid, TableTypeOK, BornInTime, Lives
<1>2. ASSUME NEW m \in Lease, Client(m) PROVE ~Lives(l)'
  BY <1>2 DEF Client, Begin, CancelWait, Enter, Release, Move, Lives, TableTypeOK
<1>3. ASSUME NEW m \in Lease, Server(m) PROVE ~Lives(l)'
  BY <1>3 DEF Server, Snapshot, Sample, SetIfEmpty, Probe, CompareAndSet, Lives
<1>4. CASE UNCHANGED tableVars
  BY <1>4 DEF tableVars, Lives
<1> QED BY <1>1, <1>2, <1>3, <1>4 DEF TableNext

-----------------------------------------------------------------------------
\* The initial states satisfy the table's invariant.
LEMMA InitTableInv == TableInit => TableInv
BY TableAssumption DEF TableInit, TableInv, TableTypeOK, HolderIsRecorded, BornInTime,
   StampSound, RecordsHaveCallers, SnapIsDead, Fresh, Lives, Place, NoStamp

\* A kill or a reuse of a PID preserves it.
LEMMA SystemTableInv == TableInv /\ System => TableInv'
<1> SUFFICES ASSUME TableInv, NEW p \in Pid, KillProcess(p) \/ ReusePid(p)
             PROVE  TableInv'
  BY DEF System
<1> USE TableAssumption
<1>1. TableTypeOK'
  <2>1. start' \in [Pid -> 1..MaxStart]
    BY DEF TableInv, TableTypeOK, KillProcess, ReusePid
  <2>2. running' \in [Pid -> BOOLEAN]
    BY Zenon DEF TableInv, TableTypeOK, KillProcess, ReusePid
  <2> QED BY <2>1, <2>2 DEF TableInv, TableTypeOK, KillProcess, ReusePid
<1>2. \A l \in Lease : Lives(l)' => Lives(l)
  BY DEF TableInv, TableTypeOK, KillProcess, ReusePid, Lives, BornInTime
<1>3. HolderIsRecorded'
  BY <1>2 DEF TableInv, HolderIsRecorded, KillProcess, ReusePid
<1>4. \A q \in Pid : start[q] <= start'[q]
  BY DEF TableInv, TableTypeOK, KillProcess, ReusePid
<1>5. BornInTime' /\ StampSound'
  BY <1>1, <1>4
  DEF TableInv, BornInTime, StampSound, TableTypeOK, KillProcess, ReusePid, NoStamp
<1>6. RecordsHaveCallers' /\ Fresh'
  BY DEF TableInv, RecordsHaveCallers, Fresh, KillProcess, ReusePid
<1>7. SnapIsDead'
  BY <1>2 DEF TableInv, SnapIsDead, RecordsHaveCallers, KillProcess, ReusePid
<1> QED BY <1>1, <1>3, <1>5, <1>6, <1>7 DEF TableInv

\* A step of a client (_KeyedLeaseLock) preserves it.
LEMMA ClientTableInv == ASSUME NEW l \in Lease PROVE TableInv /\ Client(l) => TableInv'
<1> SUFFICES ASSUME TableInv, Client(l) PROVE TableInv'
  OBVIOUS
<1> USE DEF TableInv
<1>1. CASE Begin(l)
  <2>1. TableTypeOK' /\ BornInTime' /\ StampSound' /\ Fresh'
    BY <1>1 DEF Begin, Move, TableTypeOK, BornInTime, StampSound, Fresh, Place, NoStamp
  <2>2. \A m \in Lease \ {l} : Lives(m)' = Lives(m)
    BY <1>1 DEF Begin, Move, Lives, TableTypeOK
  <2>3. HolderIsRecorded' /\ RecordsHaveCallers' /\ SnapIsDead'
    BY <1>1, <2>2 DEF Begin, Move, TableTypeOK, HolderIsRecorded, RecordsHaveCallers,
       SnapIsDead
  <2> QED BY <2>1, <2>3
<1>2. CASE CancelWait(l) \/ Enter(l)
  BY <1>2 DEF CancelWait, Enter, Move, TableTypeOK, Place, HolderIsRecorded, BornInTime,
     StampSound, RecordsHaveCallers, SnapIsDead, Fresh, Lives
<1>3. CASE Release(l)
  <2>1. holder = l
    BY <1>3 DEF Release, Move, HolderIsRecorded
  <2>2. TableTypeOK' /\ BornInTime' /\ StampSound' /\ Fresh'
    BY <1>3 DEF Release, Move, TableTypeOK, BornInTime, StampSound, Fresh, Place
  <2>3. HolderIsRecorded'
    BY <1>3, <2>1 DEF Release, Move, TableTypeOK, HolderIsRecorded, Lives
  <2>4. RecordsHaveCallers' /\ SnapIsDead'
    BY <1>3, <2>1 DEF Release, Move, TableTypeOK, RecordsHaveCallers, SnapIsDead, Lives
  <2> QED BY <2>2, <2>3, <2>4
<1> QED BY <1>1, <1>2, <1>3 DEF Client

\* A step of try_acquire in the server preserves it.
LEMMA ServerTableInv == ASSUME NEW l \in Lease PROVE TableInv /\ Server(l) => TableInv'
<1> SUFFICES ASSUME TableInv, Server(l) PROVE TableInv'
  OBVIOUS
<1> USE DEF TableInv
<1>1. CASE Snapshot(l)
  BY <1>1 DEF Snapshot, Move, TableTypeOK, Place, HolderIsRecorded, BornInTime,
     StampSound, RecordsHaveCallers, SnapIsDead, Fresh, Lives
<1>2. CASE Sample(l)
  <2>1. PICK d \in StartDelta(ownerPid[l]) : stamp' = [stamp EXCEPT ![l] = d]
    BY <1>2 DEF Sample
  <2>2. TableTypeOK' /\ StampSound'
    BY <1>2, <2>1, TableAssumption
    DEF Sample, Move, TableTypeOK, Place, StartDelta, StampSound, BornInTime, NoStamp
  <2>3. HolderIsRecorded' /\ BornInTime' /\ RecordsHaveCallers' /\ SnapIsDead'
    BY <1>2 DEF Sample, Move, TableTypeOK, HolderIsRecorded, BornInTime,
       RecordsHaveCallers, SnapIsDead, Lives
  <2>4. Fresh'
    BY <1>2, <2>1 DEF Sample, Move, TableTypeOK, Fresh
  <2> QED BY <2>2, <2>3, <2>4
<1>3. CASE SetIfEmpty(l)
  BY <1>3, TableAssumption DEF SetIfEmpty, Move, TableTypeOK, Place,
     HolderIsRecorded, BornInTime, StampSound, RecordsHaveCallers, SnapIsDead,
     Fresh, Lives
<1>4. CASE Probe(l)
  <2>1. PICK d \in StartDelta(ownerPid[snap[l]]) :
           IF HolderDead(snap[l], d) THEN Move(l, "probe", "sampleDead")
                                     ELSE Move(l, "probe", "poll")
    BY <1>4 DEF Probe
  <2>2. snap[l] \in Lease
    BY <1>4 DEF Probe, RecordsHaveCallers
  <2>3. place'[l] = "sampleDead" => ~Lives(snap[l])
    BY <2>1, <2>2, DeadIsDead DEF Move, TableTypeOK
  <2>4. UNCHANGED <<running, start, ownerPid, born, snap, stamp, holder>>
    BY <1>4 DEF Probe
  <2>5. place' \in [Lease -> Place] /\ place'[l] \in {"poll", "sampleDead"}
        /\ \A m \in Lease \ {l} : place'[m] = place[m]
    BY <2>1 DEF Move, TableTypeOK, Place
  <2> QED BY <1>4, <2>2, <2>3, <2>4, <2>5 DEF Probe, TableTypeOK, HolderIsRecorded,
          BornInTime, StampSound, RecordsHaveCallers, SnapIsDead, Fresh, Lives
<1>5. CASE CompareAndSet(l)
  <2>1. ~Lives(snap[l]) /\ snap[l] \in Lease
    BY <1>5 DEF CompareAndSet, Move, SnapIsDead, RecordsHaveCallers
  <2> QED BY <1>5, <2>1 DEF CompareAndSet, Move, TableTypeOK, Place, HolderIsRecorded,
          BornInTime, StampSound, RecordsHaveCallers, SnapIsDead, Fresh, Lives
<1> QED BY <1>1, <1>2, <1>3, <1>4, <1>5 DEF Server

\* The inductive invariant of the holder table.
THEOREM TableInvariance == TableSpec => []TableInv
<1>1. TableInv /\ UNCHANGED tableVars => TableInv'
  BY DEF tableVars, TableInv, TableTypeOK, HolderIsRecorded, BornInTime, StampSound,
     RecordsHaveCallers, SnapIsDead, Fresh, Lives
<1>2. TableInv /\ [TableNext]_tableVars => TableInv'
  BY <1>1, SystemTableInv, ClientTableInv, ServerTableInv DEF TableNext
<1> QED BY InitTableInv, <1>2, PTL DEF TableSpec

-----------------------------------------------------------------------------
\* Type correctness of the keyed lock's state.
THEOREM TableTypes == TableSpec => []TableTypeOK
<1>1. TableInv => TableTypeOK
  BY DEF TableInv
<1> QED BY <1>1, TableInvariance, PTL

\* A running client that was granted the lock is recorded as its holder
\* until it releases it: it is never preempted.
THEOREM NeverPreempted == TableSpec => []HolderIsRecorded
<1>1. TableInv => HolderIsRecorded
  BY DEF TableInv
<1> QED BY <1>1, TableInvariance, PTL

\* Two running clients are never in the critical section together.
THEOREM TableExclusion == TableSpec => []MutualExclusion
<1>1. TableInv => MutualExclusion
  BY DEF TableInv, HolderIsRecorded, MutualExclusion
<1> QED BY <1>1, TableInvariance, PTL

\* The slot passes from one record to another only when the first one's owner
\* is dead at that very moment, not merely when it was probed.
THEOREM ReclaimSound == TableSpec => ReclaimOnlyTheDead
<1>1. TableInv /\ [TableNext]_tableVars =>
        [(holder # NoLease /\ holder' \notin {holder, NoLease})
            => ~Lives(holder)]_tableVars
  BY DEF TableInv, SnapIsDead, TableNext, tableVars, System, KillProcess,
     ReusePid, Client, Begin, CancelWait, Enter, Release, Server, Snapshot,
     Sample, SetIfEmpty, Probe, CompareAndSet, Move
<1> QED BY <1>1, TableInvariance, PTL DEF TableSpec, ReclaimOnlyTheDead

-----------------------------------------------------------------------------
DeadLeases == {l \in Lease : place[l] # "idle" /\ ~Lives(l)}

\* A step leaves the dead dead and starts no acquisition of a dead client.
LEMMA DeadLeasesGrow ==
    TableInv /\ [TableNext]_tableVars => DeadLeases \subseteq DeadLeases'
<1> SUFFICES ASSUME TableInv, [TableNext]_tableVars, NEW l \in DeadLeases
             PROVE  l \in DeadLeases'
  OBVIOUS
<1>1. ~Lives(l)'
  BY DeadStaysDead DEF DeadLeases, TableInv
<1>2. place'[l] # "idle"
  BY DEF DeadLeases, TableNext, tableVars, System, KillProcess, ReusePid,
     Client, Begin, CancelWait, Enter, Release, Server, Snapshot, Sample,
     SetIfEmpty, Probe, CompareAndSet, Move, TableInv, TableTypeOK
<1> QED BY <1>1, <1>2 DEF DeadLeases

\* A step of a client or of the server kills nobody.
LEMMA DeadLeasesSame ==
    ASSUME TableInv, NEW l \in Lease, Client(l) \/ Server(l)
    PROVE  DeadLeases' = DeadLeases
<1>1. CASE Begin(l)
  <2>1. Lives(l)' /\ \A m \in Lease \ {l} : Lives(m)' = Lives(m)
    BY <1>1 DEF Begin, Move, Lives, TableInv, TableTypeOK
  <2>2. place[l] = "idle" /\ \A m \in Lease \ {l} : place'[m] = place[m]
    BY <1>1 DEF Begin, Move, TableInv, TableTypeOK
  <2> QED BY <2>1, <2>2 DEF DeadLeases
<1>2. CASE CancelWait(l) \/ Enter(l) \/ Release(l) \/ Server(l)
  <2>1. \A m \in Lease : Lives(m)' = Lives(m)
    BY <1>2 DEF CancelWait, Enter, Release, Server, Snapshot, Sample, SetIfEmpty,
       Probe, CompareAndSet, Lives
  <2>2. \A m \in Lease : place'[m] = "idle" <=> place[m] = "idle"
    BY <1>2 DEF CancelWait, Enter, Release, Server, Snapshot, Sample, SetIfEmpty,
       Probe, CompareAndSet, Move, TableInv, TableTypeOK
  <2> QED BY <2>1, <2>2 DEF DeadLeases
<1> QED BY <1>1, <1>2 DEF Client

\* The multi-step try_acquire implements the one-step lock of CrashSafeMutex.
THEOREM Refinement == TableSpec => MutexSpec
<1>1. TableInit => Mutex!MutexInit
  BY DEF TableInit, Mutex!MutexInit
<1>2. TableInv /\ [TableNext]_tableVars => [Mutex!MutexNext]_Mutex!mutexVars
  <2> SUFFICES ASSUME TableInv, [TableNext]_tableVars
               PROVE  [Mutex!MutexNext]_Mutex!mutexVars
    OBVIOUS
  <2>1. CASE UNCHANGED tableVars
    BY <2>1 DEF tableVars, Mutex!mutexVars, Lives
  <2>2. CASE System
    <3>1. UNCHANGED holder
      BY <2>2 DEF System, KillProcess, ReusePid
    <3>2. DeadLeases \subseteq DeadLeases' /\ DeadLeases' \in SUBSET Lease
      BY DeadLeasesGrow DEF DeadLeases
    <3> QED BY <3>1, <3>2 DEF DeadLeases, Mutex!MutexNext, Mutex!Die
  <2>3. ASSUME NEW l \in Lease, Client(l) \/ Server(l)
        PROVE  [Mutex!MutexNext]_Mutex!mutexVars
    <3>1. DeadLeases' = DeadLeases
      BY <2>3, DeadLeasesSame
    <3>2. CASE UNCHANGED holder
      BY <3>1, <3>2 DEF DeadLeases, Mutex!mutexVars
    <3>3. CASE holder' # holder /\ Release(l)
      <4>1. holder = l /\ l \notin DeadLeases /\ holder' = NoLease
        BY <3>3 DEF Release, TableInv, HolderIsRecorded, Move, DeadLeases
      <4> QED BY <4>1, <3>1 DEF DeadLeases, Mutex!MutexNext, Mutex!GiveBack
    <3>4. CASE holder' # holder /\ SetIfEmpty(l)
      <4>1. holder = NoLease /\ holder' = l
        BY <3>4 DEF SetIfEmpty
      <4> QED BY <4>1, <3>1 DEF DeadLeases, Mutex!MutexNext, Mutex!Grant
    <3>5. CASE holder' # holder /\ CompareAndSet(l)
      <4>1. holder = snap[l] /\ holder' = l /\ place[l] = "cas"
        BY <3>5 DEF CompareAndSet, Move
      <4>2. holder \in DeadLeases
        BY <4>1 DEF TableInv, SnapIsDead, RecordsHaveCallers, DeadLeases
      <4> QED BY <4>1, <4>2, <3>1 DEF DeadLeases, Mutex!MutexNext, Mutex!Reclaim
    <3> QED BY <2>3, <3>2, <3>3, <3>4, <3>5 DEF Client, Begin, CancelWait, Enter,
            Server, Snapshot, Sample, Probe
  <2> QED BY <2>1, <2>2, <2>3 DEF TableNext
<1> QED BY <1>1, <1>2, TableInvariance, PTL DEF TableSpec, MutexSpec, Mutex!MutexSpec
=============================================================================
