-------------------------- MODULE VectorStorage_proofs --------------------------
(***************************************************************************)
(* The invariants of VectorStorage and what a commit keeps, for any number *)
(* of processes, rows, writes and restarts, with every fault.              *)
(*                                                                         *)
(* Both invariants speak of one copy at a time, and Sound joins them: each *)
(* method of the storage object keeps it while the file stays.  What is    *)
(* not about one copy is the commit, which replaces the file in one step   *)
(* and sets the flags in a later one: AsSaved says that the writer's copy  *)
(* is the file until then, so that it may drop its dirty mark.             *)
(***************************************************************************)
EXTENDS VectorStorage, TLAPS

Fresh(c) == c.phase # "down" /\ ~ c.flag /\ ~ c.missed
              => \A k \in Key \ c.touched : c.client[k] = file[k]
Remembered(c) == c.phase # "down" /\ c.touched # {} => c.dirty
Sound(c) == c \in Storage /\ Fresh(c) /\ Remembered(c)

Copies == \A p \in Proc : Sound(copy[p])
AsSaved == holder # None => copy[holder.by].touched = {} /\ copy[holder.by].client = file

EditHeld == holder # None /\ holder.job = "edit" =>
              edit[holder.by] # None /\ edit[holder.by].stage = "written"

\* Who holds the busy slot or edits an entity is up.
Alive == /\ busy # None => Up(busy.by)
         /\ \A p \in Proc : edit[p] # None => Up(p)

\* The inductive invariant.
IInv == TypeOK /\ Copies /\ AsSaved /\ EditHeld /\ Alive

--------------------------------------------------------------------------------
(* The methods of the storage object.                                      *)

LEMMA NoRows == Empty \in Rows
  BY BoundAssumption DEF Empty, Rows, Version

\* A copy that was just loaded is sound.
LEMMA SoundWhenLoaded ==
  ASSUME file \in Rows, NEW phase \in {"down", "loaded", "up"}
  PROVE  Sound(Loaded(phase)) /\ Loaded(phase).touched = {} /\ Loaded(phase).client = file
  BY NoRows DEF Sound, Fresh, Remembered, Storage, Loaded

\* A reload keeps a copy sound, and what it does not load was the file's but
\* for the changes of the process.
LEMMA SoundWhenReloaded ==
  ASSUME file \in Rows, NEW c, Sound(c)
  PROVE  Sound(Reloaded(c)) /\ Reloaded(c).pending = c.pending
         /\ Reloaded(c).touched \subseteq c.touched
         /\ ~ Reloaded(c).flag /\ Reloaded(c).phase = c.phase
         /\ (~ c.missed => ~ Reloaded(c).missed)
  BY DEF Sound, Fresh, Remembered, Storage, Reloaded, Rows

LEMMA SoundWhenUpserted ==
  ASSUME NEW c, Sound(c), NEW k \in Key, NEW v \in Version
  PROVE  Sound(Upserted(c, k, v)) /\ Upserted(c, k, v).phase = c.phase
  BY DEF Sound, Fresh, Remembered, Storage, Upserted, Rows

LEMMA SoundWhenDropped ==
  ASSUME NEW c, Sound(c)
  PROVE  LET d == [c EXCEPT !.pending = Empty] IN Sound(d) /\ d.phase = c.phase
  BY NoRows DEF Sound, Fresh, Remembered, Storage

LEMMA SoundWhenDeleted ==
  ASSUME file \in Rows, NEW c, Sound(c), NEW k \in Key
  PROVE  Sound(Deleted(c, k)) /\ Deleted(c, k).phase = c.phase
<1> DEFINE r == Reloaded(c)
           d == IF r.client[k] = 0 THEN r
                ELSE [r EXCEPT !.client[k] = 0, !.dirty = TRUE, !.touched = @ \cup {k}]
<1>1. Sound(r) /\ r.phase = c.phase
  BY SoundWhenReloaded
<1> HIDE DEF r
<1>2. 0 \in Version
  BY BoundAssumption DEF Version
<1>3. Sound(d) /\ d.phase = c.phase
  BY <1>1, <1>2 DEF Sound, Fresh, Remembered, Storage, Rows
<1>4. Deleted(c, k) = [d EXCEPT !.pending[k] = 0]
  BY DEF Deleted, r
<1> HIDE DEF d
<1> QED
  BY <1>2, <1>3, <1>4 DEF Sound, Fresh, Remembered, Storage, Rows

\* A flush keeps a copy sound and touches the buffered rows only.
LEMMA SoundWhenFlushed ==
  ASSUME NEW c, Sound(c)
  PROVE  /\ Sound(Flushed(c)) /\ Flushed(c).phase = c.phase
         /\ \A k \in Key \ Buffered(c) : Flushed(c).client[k] = c.client[k]
<1> DEFINE rows == [k \in Key |-> IF c.pending[k] = 0 THEN c.client[k] ELSE c.pending[k]]
<1>1. c \in Storage /\ rows \in Rows
  BY DEF Sound, Storage, Rows
<1>2. CASE Buffered(c) = {}
  BY <1>2 DEF Flushed
<1>3. CASE Buffered(c) # {}
  <2>1. Flushed(c) = [c EXCEPT !.client = rows, !.pending = Empty, !.dirty = TRUE,
                               !.touched = @ \cup Buffered(c)]
    BY <1>1, <1>3 DEF Flushed, Storage
  <2>2. \A k \in Key \ Buffered(c) : rows[k] = c.client[k]
    BY DEF Buffered
  <2>3. Buffered(c) \subseteq Key
    BY DEF Buffered
  <2> HIDE DEF rows
  <2>4. Flushed(c) \in Storage
    BY <1>1, <2>1, <2>3, NoRows DEF Storage
  <2>5. /\ Flushed(c).client = rows /\ Flushed(c).dirty = TRUE
        /\ Flushed(c).touched = c.touched \cup Buffered(c)
        /\ Flushed(c).phase = c.phase /\ Flushed(c).flag = c.flag
        /\ Flushed(c).missed = c.missed
    BY <1>1, <2>1 DEF Storage
  <2> QED
    BY <2>2, <2>4, <2>5 DEF Sound, Fresh, Remembered
<1> QED
  BY <1>2, <1>3

LEMMA SoundBase ==
  ASSUME file \in Rows, NEW p \in Proc, Sound(copy[p]), NEW job
  PROVE  Sound(Base(p, job)) /\ Base(p, job).phase = copy[p].phase
  BY SoundWhenReloaded DEF Base

--------------------------------------------------------------------------------
\* A step that changes one copy and not the file.
LEMMA OneCopy ==
  ASSUME IInv, NEW p \in Proc, NEW c, Sound(c),
         holder # None /\ holder.by = p => c.touched = {} /\ c.client = file,
         copy' = [copy EXCEPT ![p] = c], file' = file, holder' = holder
  PROVE  /\ copy' \in [Proc -> Storage] /\ Copies' /\ AsSaved'
         /\ \A q \in Proc : copy'[q].phase = IF q = p THEN c.phase ELSE copy[q].phase
<1>1. copy \in [Proc -> Storage] /\ \A q \in Proc : Sound(copy[q])
  BY DEF IInv, TypeOK, Copies
<1>2. \A q \in Proc : copy'[q] = IF q = p THEN c ELSE copy[q]
  BY <1>1
<1>3. copy' \in [Proc -> Storage]
  BY <1>1 DEF Sound
<1>4. \A q \in Proc : Sound(copy[q])'
  BY <1>1, <1>2 DEF Sound, Fresh, Remembered
<1>5. AsSaved'
  BY <1>2 DEF IInv, TypeOK, AsSaved
<1> QED
  BY <1>2, <1>3, <1>4, <1>5 DEF Copies

\* A step that leaves the file and the copies.
LEMMA NoCopy ==
  ASSUME IInv, copy' = copy, file' = file, holder' = holder
  PROVE  copy' \in [Proc -> Storage] /\ Copies' /\ AsSaved'
  BY DEF IInv, TypeOK, Copies, AsSaved, Sound, Fresh, Remembered

\* A commit: p replaces the file by its copy c.
LEMMA ReplacedFile ==
  ASSUME IInv, NEW p \in Proc, NEW c \in Storage, NEW job \in Job,
         file' = c.client, copy' = Replaced(p, c), holder' = [by |-> p, job |-> job]
  PROVE  /\ file' \in Rows /\ copy' \in [Proc -> Storage] /\ Copies' /\ AsSaved'
         /\ \A q \in Proc : copy'[q].phase = IF q = p THEN c.phase ELSE copy[q].phase
<1>1. copy \in [Proc -> Storage] /\ \A q \in Proc : Sound(copy[q])
  BY DEF IInv, TypeOK, Copies
<1>2. copy'[p] = [c EXCEPT !.touched = {}]
  BY DEF Replaced
<1>3. copy'[p] \in Storage /\ copy'[p].touched = {} /\ copy'[p].client = c.client
      /\ copy'[p].phase = c.phase
  BY <1>2 DEF Storage
<1>4. \A q \in Proc \ {p} : /\ copy'[q] = [copy[q] EXCEPT !.missed = @ \/ copy[q].phase # "down"]
                            /\ copy'[q] \in Storage /\ copy'[q].phase = copy[q].phase
  BY <1>1 DEF Replaced, Storage
<1>5. ASSUME NEW q \in Proc \ {p} PROVE Sound(copy[q])'
  <2> DEFINE missed == copy[q].missed \/ copy[q].phase # "down"
  <2>1. copy'[q] = [copy[q] EXCEPT !.missed = missed] /\ copy[q] \in Storage
    BY <1>1, <1>4 DEF Sound
  <2> HIDE DEF missed
  <2>2. /\ copy'[q].phase = copy[q].phase /\ copy'[q].touched = copy[q].touched
        /\ copy'[q].dirty = copy[q].dirty
    BY <2>1 DEF Storage
  <2>3. copy[q].phase # "down" => copy'[q].missed
    BY <1>1, <1>4 DEF Sound, Storage
  <2> QED
    BY <1>1, <1>4, <2>2, <2>3 DEF Sound, Fresh, Remembered
<1>6. Sound(copy[p])'
  BY <1>3 DEF Sound, Fresh, Remembered
<1>7. copy' \in [Proc -> Storage]
  BY <1>3, <1>4 DEF Replaced
<1>8. AsSaved'
  BY <1>3 DEF AsSaved
<1>9. file' \in Rows
  BY DEF Storage
<1> QED
  BY <1>3, <1>4, <1>5, <1>6, <1>7, <1>8, <1>9 DEF Copies

\* A step that takes no slot, no entity and no process down.
LEMMA SlotsKept ==
  ASSUME IInv, \A q \in Proc : Up(q) => copy'[q].phase = "up",
         holder' = holder, busy' \in {busy, None}, edit' = edit
  PROVE  EditHeld' /\ Alive'
  BY DEF IInv, TypeOK, EditHeld, Alive, Up

--------------------------------------------------------------------------------
(* One lemma per action or group of actions.                               *)

LEMMA Initially == Init => IInv
<1> SUFFICES ASSUME Init PROVE IInv
  OBVIOUS
<1>1. file \in Rows
  BY NoRows DEF Init
<1>2. \A p \in Proc : Sound(copy[p])
  BY <1>1, SoundWhenLoaded DEF Init
<1>3. copy \in [Proc -> Storage]
  BY <1>1, SoundWhenLoaded DEF Init, Sound
<1> QED
  BY <1>1, <1>2, <1>3, BoundAssumption DEF Init, IInv, TypeOK, Copies, AsSaved, EditHeld, Alive

LEMMA LoadStep == ASSUME IInv, NEW p \in Proc, Load(p) PROVE IInv'
<1>1. Sound(Loaded("loaded")) /\ Loaded("loaded").touched = {} /\ Loaded("loaded").client = file
  BY SoundWhenLoaded DEF IInv, TypeOK
<1>2. copy' \in [Proc -> Storage] /\ Copies' /\ AsSaved'
  BY <1>1, OneCopy DEF Load
<1>3. EditHeld' /\ Alive'
  BY <1>1, OneCopy, SlotsKept DEF Load, Up
<1> QED
  BY <1>3, <1>2, BoundAssumption DEF IInv, TypeOK, Load

LEMMA RegisterStep == ASSUME IInv, NEW p \in Proc, Register(p) PROVE IInv'
<1> DEFINE c == [copy[p] EXCEPT !.phase = "up"]
<1>1. /\ Sound(c)
      /\ c.touched = copy[p].touched /\ c.client = copy[p].client /\ c.phase = "up"
  BY DEF IInv, TypeOK, Copies, Sound, Fresh, Remembered, Storage, Register
<1>2. copy' = [copy EXCEPT ![p] = c]
  BY DEF IInv, TypeOK, Register
<1> HIDE DEF c
<1>3. holder # None /\ holder.by = p => c.touched = {} /\ c.client = file
  BY <1>1 DEF IInv, AsSaved
<1>4. copy' \in [Proc -> Storage] /\ Copies' /\ AsSaved'
  BY <1>1, <1>2, <1>3, OneCopy DEF Register
<1>5. EditHeld' /\ Alive'
  BY <1>1, <1>2, <1>3, OneCopy, SlotsKept DEF Register, Up
<1> QED
  BY <1>5, <1>4 DEF IInv, TypeOK, Register

LEMMA ReadStep == ASSUME IInv, NEW p \in Proc, Read(p) PROVE IInv'
<1>1. Sound(Reloaded(copy[p])) /\ Reloaded(copy[p]).phase = copy[p].phase
  BY SoundWhenReloaded DEF IInv, TypeOK, Copies
<1>2. copy' = [copy EXCEPT ![p] = Reloaded(copy[p])]
  BY DEF Read
<1>3. copy' \in [Proc -> Storage] /\ Copies' /\ AsSaved'
  BY <1>1, <1>2, OneCopy DEF Read, LockFree
<1>4. EditHeld' /\ Alive'
  BY <1>1, <1>2, OneCopy, SlotsKept DEF Read, LockFree, Up
<1> QED
  BY <1>4, <1>3 DEF IInv, TypeOK, Read

\* StartBatch, GiveUp, StartEdit, EndEdit and EditFails leave the copies and the file.
LEMMA SchedulingStep ==
  ASSUME IInv, NEW p \in Proc,
         \/ StartBatch(p) \/ GiveUp(p) \/ EndEdit(p) \/ EditFails(p)
         \/ \E k \in Key : StartEdit(p, k)
  PROVE  IInv'
<1>1. copy' = copy /\ file' = file /\ holder' = holder /\ writes' = writes /\ starts' = starts
  BY DEF StartBatch, GiveUp, EndEdit, EditFails, LeaveEdit, StartEdit
<1>2. copy' \in [Proc -> Storage] /\ Copies' /\ AsSaved'
  BY <1>1, NoCopy
<1>3. busy' \in [by : Proc, stage : {"work", "abort"}] \cup {None}
  BY DEF IInv, TypeOK, StartBatch, GiveUp, EndEdit, EditFails, LeaveEdit, StartEdit
<1>4. edit' \in [Proc -> [key : Key, version : Version, stage : Stage] \cup {None}]
  <2>1. 0 \in Version
    BY BoundAssumption DEF Version
  <2> QED
    BY <2>1 DEF IInv, TypeOK, StartBatch, GiveUp, EndEdit, EditFails, LeaveEdit, StartEdit, Stage
<1>5. EditHeld'
  BY <1>1 DEF IInv, TypeOK, EditHeld, StartBatch, GiveUp, EndEdit, EditFails, LeaveEdit, StartEdit, EditAt
<1>6. Alive'
  BY <1>1 DEF IInv, TypeOK, Alive, Up, StartBatch, GiveUp, EndEdit, EditFails, LeaveEdit, StartEdit, EditAt
<1> QED
  BY <1>5, <1>6, <1>1, <1>2, <1>3, <1>4 DEF IInv, TypeOK

LEMMA UpsertStep == ASSUME IInv, NEW p \in Proc, NEW k \in Key, Upsert(p, k) PROVE IInv'
<1>1. writes + 1 \in Version /\ writes' \in 0 .. MaxWrites
  BY BoundAssumption DEF IInv, TypeOK, Upsert, Version
<1>2. LET c == Upserted(copy[p], k, writes + 1) IN Sound(c) /\ c.phase = copy[p].phase
  BY <1>1, SoundWhenUpserted DEF IInv, Copies
<1>3. copy' \in [Proc -> Storage] /\ Copies' /\ AsSaved'
  BY <1>2, OneCopy DEF Upsert, LockFree
<1>4. EditHeld' /\ Alive'
  BY <1>2, OneCopy, SlotsKept DEF Upsert, LockFree, Up
<1> QED
  BY <1>4, <1>1, <1>3 DEF IInv, TypeOK, Upsert

LEMMA DeleteStep == ASSUME IInv, NEW p \in Proc, NEW k \in Key, Delete(p, k) PROVE IInv'
<1>1. LET c == Deleted(copy[p], k) IN Sound(c) /\ c.phase = copy[p].phase
  BY SoundWhenDeleted DEF IInv, TypeOK, Copies
<1>2. copy' = [copy EXCEPT ![p] = Deleted(copy[p], k)]
  BY DEF Delete
<1>3. copy' \in [Proc -> Storage] /\ Copies' /\ AsSaved'
  BY <1>1, <1>2, OneCopy DEF Delete, LockFree
<1>4. EditHeld' /\ Alive'
  BY <1>1, <1>2, OneCopy, SlotsKept DEF Delete, LockFree, Up
<1> QED
  BY <1>4, <1>3 DEF IInv, TypeOK, Delete

LEMMA DropPendingStep == ASSUME IInv, NEW p \in Proc, DropPending(p) PROVE IInv'
<1>1. LET c == [copy[p] EXCEPT !.pending = Empty] IN Sound(c) /\ c.phase = copy[p].phase
  BY SoundWhenDropped DEF IInv, Copies
<1>2. copy' = [copy EXCEPT ![p] = [copy[p] EXCEPT !.pending = Empty]]
  BY DEF DropPending
<1>3. copy' \in [Proc -> Storage] /\ Copies' /\ AsSaved'
  BY <1>1, <1>2, OneCopy DEF DropPending, LockFree
<1>4. EditHeld' /\ Alive'
  BY <1>1, <1>2, OneCopy, SlotsKept DEF DropPending, LockFree, Up
<1> QED
  BY <1>4, <1>3 DEF IInv, TypeOK, DropPending

LEMMA EditDeleteStep == ASSUME IInv, NEW p \in Proc, EditDelete(p) PROVE IInv'
<1>1. edit[p] \in [key : Key, version : Version, stage : Stage]
  BY DEF IInv, TypeOK, EditDelete, EditAt
<1>2. LET c == Deleted(copy[p], edit[p].key) IN Sound(c) /\ c.phase = copy[p].phase
  BY <1>1, SoundWhenDeleted DEF IInv, TypeOK, Copies
<1>3. copy' = [copy EXCEPT ![p] = Deleted(copy[p], edit[p].key)]
  BY DEF EditDelete
<1>4. copy' \in [Proc -> Storage] /\ Copies' /\ AsSaved'
  BY <1>2, <1>3, OneCopy DEF EditDelete, LockFree
<1>5. edit' \in [Proc -> [key : Key, version : Version, stage : Stage] \cup {None}]
  BY <1>1 DEF IInv, TypeOK, EditDelete, Stage
<1>6. EditHeld'
  BY <1>2, <1>3, OneCopy DEF IInv, TypeOK, EditHeld, EditDelete, EditAt, LockFree
<1>7. Alive'
  BY <1>2, <1>3, OneCopy DEF IInv, TypeOK, Alive, Up, EditDelete, EditAt, LockFree
<1> QED
  BY <1>6, <1>7, <1>4, <1>5 DEF IInv, TypeOK, EditDelete

LEMMA EditUpsertStep == ASSUME IInv, NEW p \in Proc, EditUpsert(p) PROVE IInv'
<1>1. edit[p] \in [key : Key, version : Version, stage : Stage]
  BY DEF IInv, TypeOK, EditUpsert, EditAt
<1>2. writes + 1 \in Version /\ writes' \in 0 .. MaxWrites
  BY BoundAssumption DEF IInv, TypeOK, EditUpsert, Version
<1>3. LET c == Upserted(copy[p], edit[p].key, writes + 1)
      IN Sound(c) /\ c.phase = copy[p].phase
  BY <1>1, <1>2, SoundWhenUpserted DEF IInv, Copies
<1>4. copy' \in [Proc -> Storage] /\ Copies' /\ AsSaved'
  BY <1>3, OneCopy DEF EditUpsert, LockFree
<1>5. edit' \in [Proc -> [key : Key, version : Version, stage : Stage] \cup {None}]
  BY <1>1, <1>2 DEF IInv, TypeOK, EditUpsert, Stage
<1>6. EditHeld'
  BY <1>3, OneCopy DEF IInv, TypeOK, EditHeld, EditUpsert, EditAt, LockFree
<1>7. Alive'
  BY <1>3, OneCopy DEF IInv, TypeOK, Alive, Up, EditUpsert, EditAt, LockFree
<1> QED
  BY <1>6, <1>7, <1>2, <1>4, <1>5 DEF IInv, TypeOK, EditUpsert

LEMMA DropStep == ASSUME IInv, NEW p \in Proc, Drop(p) PROVE IInv'
<1> DEFINE c == [copy[p] EXCEPT !.pending = Empty, !.client = Empty,
                                !.dirty = FALSE, !.missed = FALSE]
<1>1. c \in Storage /\ c.client = Empty /\ c.phase = copy[p].phase
  BY NoRows DEF IInv, TypeOK, Storage
<1>2. file' = c.client /\ copy' = Replaced(p, c) /\ holder' = [by |-> p, job |-> "drop"]
  BY <1>1 DEF Drop
<1> HIDE DEF c
<1>3. file' \in Rows /\ copy' \in [Proc -> Storage] /\ Copies' /\ AsSaved'
  BY <1>1, <1>2, ReplacedFile DEF Job
<1>4. EditHeld'
  BY <1>1, <1>2, ReplacedFile DEF IInv, TypeOK, EditHeld, Drop, Job
<1>5. \A q \in Proc : copy'[q].phase = copy[q].phase
  BY <1>1, <1>2, ReplacedFile DEF Job
<1>6. Alive'
  BY <1>5 DEF IInv, TypeOK, Alive, Up, Drop
<1> QED
  BY <1>4, <1>6, <1>2, <1>3 DEF IInv, TypeOK, Drop, Job

LEMMA SaveStep == ASSUME IInv, NEW p \in Proc, NEW job \in Job, Save(p, job) PROVE IInv'
<1>1. LET c == Flushed(Base(p, job)) IN c \in Storage /\ c.phase = copy[p].phase
  BY SoundBase, SoundWhenFlushed DEF IInv, TypeOK, Copies, Sound
<1>2. file' \in Rows /\ copy' \in [Proc -> Storage] /\ Copies' /\ AsSaved'
  BY <1>1, ReplacedFile DEF Save
<1>3. EditHeld'
  BY <1>1, ReplacedFile DEF IInv, TypeOK, EditHeld, Save, Commits, EditAt, Job
<1>4. \A q \in Proc : copy'[q].phase = copy[q].phase
  BY <1>1, ReplacedFile DEF Save
<1>5. Alive'
  BY <1>4 DEF IInv, TypeOK, Alive, Up, Save
<1> QED
  BY <1>3, <1>5, <1>2 DEF IInv, TypeOK, Save

\* The changes of a failed commit stay in the copy, unless the process exits.
LEMMA FailedStep ==
  ASSUME IInv, NEW p \in Proc, NEW job \in Job, LockFree, NEW c, Sound(c),
         c.phase = copy[p].phase, Commits(p, job), Failed(p, job, c)
  PROVE  IInv'
<1> DEFINE d == IF job = "exit" THEN [c EXCEPT !.phase = "down"] ELSE c
<1>1. Sound(d) /\ (job # "exit" => d.phase = copy[p].phase)
  BY DEF Sound, Fresh, Remembered, Storage
<1>2. copy' = [copy EXCEPT ![p] = d]
  BY DEF Failed
<1> HIDE DEF d
<1>3. copy' \in [Proc -> Storage] /\ Copies' /\ AsSaved'
  BY <1>1, <1>2, OneCopy DEF Failed, LockFree
<1>4. busy' \in [by : Proc, stage : {"work", "abort"}] \cup {None}
  BY DEF IInv, TypeOK, Failed
<1>5. edit' \in [Proc -> [key : Key, version : Version, stage : Stage] \cup {None}]
  BY DEF IInv, TypeOK, Failed
<1>6. EditHeld'
  BY <1>1, <1>2, OneCopy DEF IInv, TypeOK, EditHeld, Failed, LockFree, Holds, Commits, Working, EditAt
<1>7. \A q \in Proc : q # p \/ job # "exit" => copy'[q].phase = copy[q].phase
  BY <1>1, <1>2, OneCopy DEF Failed, LockFree
<1>8. job = "batch" => Up(p)
  BY NoneAssumption DEF IInv, Alive, Commits, Working
<1>9. Alive'
  BY <1>7, <1>8 DEF IInv, TypeOK, Alive, Up, Failed, Holds
<1> QED
  BY <1>6, <1>9, <1>3, <1>4, <1>5 DEF IInv, TypeOK, Failed

LEMMA CommitFailsStep ==
  ASSUME IInv, NEW p \in Proc, NEW job \in Job, EmbeddingFails(p, job) \/ SaveFails(p, job)
  PROVE  IInv'
<1>1. /\ Sound(Base(p, job)) /\ Base(p, job).phase = copy[p].phase
      /\ Sound(Flushed(Base(p, job))) /\ Flushed(Base(p, job)).phase = copy[p].phase
  BY SoundBase, SoundWhenFlushed DEF IInv, TypeOK, Copies
<1> QED
  BY <1>1, FailedStep DEF EmbeddingFails, SaveFails

\* The flags of a commit: the writer is not dirty, for its copy is the file.
LEMMA NotifyStep == ASSUME IInv, NEW p \in Proc, Notify(p) PROVE IInv'
<1> DEFINE c == [copy[p] EXCEPT !.flag = FALSE, !.dirty = FALSE]
           d == [c EXCEPT !.phase = IF holder.job = "exit" THEN "down" ELSE @]
<1>1. copy \in [Proc -> Storage] /\ \A q \in Proc : Sound(copy[q])
  BY DEF IInv, TypeOK, Copies
<1>2. copy[p].touched = {} /\ copy[p].client = file
  BY DEF IInv, AsSaved, Notify
<1>3. c \in Storage /\ c.touched = {} /\ c.client = file /\ c.phase = copy[p].phase
  BY <1>1, <1>2 DEF Storage
<1>4. /\ d \in Storage /\ d.touched = {} /\ d.client = file
      /\ holder.job # "exit" => d.phase = copy[p].phase
  BY <1>3 DEF Storage
<1>5. Announced(p)[p] = c
  BY DEF Announced
<1>6. Announced(p) \in [Proc -> Storage]
  BY <1>1, <1>3 DEF Announced, Storage
<1>7. /\ copy' \in [Proc -> Storage] /\ copy'[p] = d
      /\ \A q \in Proc \ {p} : copy'[q] = Announced(p)[q]
  BY <1>4, <1>5, <1>6 DEF Notify
<1> HIDE DEF c, d
<1>8. ASSUME NEW q \in Proc \ {p} PROVE Sound(copy[q])'
  <2>1. CASE copy[q].phase = "up"
    <3>1. copy'[q] = [copy[q] EXCEPT !.flag = TRUE, !.missed = FALSE]
      BY <1>7, <2>1 DEF Announced
    <3>2. copy'[q] \in Storage /\ copy'[q].flag /\ copy'[q].dirty = copy[q].dirty
          /\ copy'[q].touched = copy[q].touched
      BY <1>1, <1>7, <3>1 DEF Storage
    <3> QED
      BY <1>1, <2>1, <3>2 DEF Sound, Fresh, Remembered
  <2>2. CASE copy[q].phase # "up"
    <3>1. copy'[q] = copy[q]
      BY <1>7, <2>2 DEF Announced
    <3> QED
      BY <1>1, <3>1 DEF Sound, Fresh, Remembered, Notify
  <2> QED
    BY <2>1, <2>2
<1>9. \A q \in Proc \ {p} : copy'[q].phase = copy[q].phase
  BY <1>1, <1>7 DEF Announced, Storage
<1>10. Sound(copy[p])'
  BY <1>4, <1>7 DEF Sound, Fresh, Remembered, Notify
<1>11. busy' \in [by : Proc, stage : {"work", "abort"}] \cup {None}
  BY DEF IInv, TypeOK, Notify
<1>12. edit' \in [Proc -> [key : Key, version : Version, stage : Stage] \cup {None}]
  <2>1. CASE holder.job = "edit"
    <3>1. edit' = [edit EXCEPT ![p] = [edit[p] EXCEPT !.stage = "saved"]]
      BY <2>1 DEF Notify
    <3>2. edit[p] # None
      BY <2>1 DEF IInv, EditHeld, Notify
    <3> QED
      BY <3>1, <3>2 DEF IInv, TypeOK, Stage
  <2>2. CASE holder.job # "edit"
    BY <2>2 DEF Notify, IInv, TypeOK
  <2> QED
    BY <2>1, <2>2
<1>13. EditHeld'
  BY <1>4, <1>7, <1>9 DEF IInv, TypeOK, EditHeld, Notify, Holds
<1>14. \A q \in Proc : q # p \/ holder.job # "exit" => copy'[q].phase = copy[q].phase
  BY <1>4, <1>7, <1>9
<1>15. Alive'
  <2>1. \A q \in Proc : edit'[q] # None => Up(q)'
    <3>1. CASE holder.job = "edit"
      <4>1. edit[p] # None
        BY <3>1 DEF IInv, EditHeld, Notify
      <4> QED
        BY <1>14, <3>1, <4>1 DEF IInv, TypeOK, Alive, Up, Notify
    <3>2. CASE holder.job # "edit"
      BY <1>14, <3>2 DEF IInv, TypeOK, Alive, Up, Notify
    <3> QED
      BY <3>1, <3>2
  <2>2. busy' # None => Up(busy.by)'
    BY <1>14 DEF IInv, TypeOK, Alive, Up, Notify, Holds
  <2> QED
    BY <2>1, <2>2 DEF Alive, Up, Notify
<1> QED
  BY <1>13, <1>15, <1>7, <1>8, <1>10, <1>11, <1>12 DEF IInv, TypeOK, Copies, AsSaved, Notify

LEMMA ExitStep == ASSUME IInv, NEW p \in Proc, Exit(p) PROVE IInv'
<1>1. Sound(Loaded("down"))
  BY SoundWhenLoaded DEF IInv, TypeOK
<1>2. copy' \in [Proc -> Storage] /\ Copies' /\ AsSaved'
  BY <1>1, OneCopy DEF Exit, LockFree
<1>3. EditHeld'
  BY <1>1, OneCopy DEF IInv, TypeOK, EditHeld, Exit, Holds, LockFree
<1>4. Alive'
  BY <1>1, OneCopy DEF IInv, TypeOK, Alive, Up, Exit, Holds, LockFree
<1> QED
  BY <1>3, <1>4, <1>2 DEF IInv, TypeOK, Exit

\* A kill frees the storage lock: then AsSaved says nothing.
LEMMA KillStep == ASSUME IInv, NEW p \in Proc, Kill(p) PROVE IInv'
<1>1. /\ Sound(Loaded("down")) /\ copy' = [copy EXCEPT ![p] = Loaded("down")]
      /\ file' = file /\ file \in Rows
  BY SoundWhenLoaded DEF IInv, TypeOK, Kill
<1>2. copy \in [Proc -> Storage] /\ \A q \in Proc : Sound(copy[q])
  BY DEF IInv, TypeOK, Copies
<1>3. copy' \in [Proc -> Storage]
  BY <1>1, <1>2 DEF Sound
<1>4. \A q \in Proc : copy'[q] = IF q = p THEN Loaded("down") ELSE copy[q]
  BY <1>1, <1>2
<1>5. \A q \in Proc : Sound(copy[q])'
  BY <1>1, <1>2, <1>4 DEF Sound, Fresh, Remembered
<1>6. AsSaved'
  BY <1>1, <1>4 DEF IInv, TypeOK, AsSaved, Kill
<1>7. busy' \in [by : Proc, stage : {"work", "abort"}] \cup {None}
  BY DEF IInv, TypeOK, Kill
<1>8. EditHeld'
  BY <1>4 DEF IInv, TypeOK, EditHeld, Kill, Holds
<1>9. Alive'
  BY <1>4 DEF IInv, TypeOK, Alive, Up, Kill, Holds
<1> QED
  BY <1>8, <1>9, <1>1, <1>3, <1>5, <1>6, <1>7 DEF IInv, TypeOK, Copies, Kill

LEMMA Inductive == IInv /\ [Next]_vars => IInv'
<1> SUFFICES ASSUME IInv, [Next]_vars PROVE IInv'
  OBVIOUS
<1>1. ASSUME NEW p \in Proc, Step(p) PROVE IInv'
  BY <1>1, LoadStep, RegisterStep, ReadStep, SchedulingStep, DropPendingStep, DropStep,
     UpsertStep, DeleteStep, EditDeleteStep, EditUpsertStep, SaveStep, NotifyStep, ExitStep
     DEF Step
<1>2. ASSUME NEW p \in Proc, Fault(p) PROVE IInv'
  BY <1>2, SchedulingStep, KillStep, CommitFailsStep DEF Fault
<1>3. CASE UNCHANGED vars
  <2>1. copy' \in [Proc -> Storage] /\ Copies' /\ AsSaved'
    BY <1>3, NoCopy DEF vars
  <2>2. EditHeld' /\ Alive'
    BY <1>3, SlotsKept DEF vars, Up
  <2> QED
    BY <1>3, <2>1, <2>2 DEF vars, IInv, TypeOK
<1> QED
  BY <1>1, <1>2, <1>3 DEF Next

--------------------------------------------------------------------------------
\* The copies, the file and the flags agree, whatever fails and whoever is
\* killed; type correctness is part of it.
THEOREM Invariance == Spec => []IInv
  BY Initially, Inductive, PTL DEF Spec

\* A process that has missed no commit and is not flagged has what the file
\* has, but for its own changes.
THEOREM CopiesAreCurrent == Spec => []UnflaggedCopyIsCurrent
<1>1. IInv => UnflaggedCopyIsCurrent
  BY DEF IInv, Copies, Sound, Fresh, UnflaggedCopyIsCurrent
<1> QED
  BY <1>1, Invariance, PTL

\* A client with unsaved changes is marked dirty, so that finalize saves it.
THEOREM ChangesAreRemembered == Spec => []UnsavedIsRemembered
<1>1. IInv => UnsavedIsRemembered
  BY DEF IInv, Copies, Sound, Remembered, UnsavedIsRemembered
<1> QED
  BY <1>1, Invariance, PTL

\* A commit takes back nothing that another process has committed.
THEOREM OthersKept == Spec => CommitKeepsOthers
<1> DEFINE Keeps ==
      \A p \in Proc, job \in {"batch", "edit", "exit"} :
         /\ holder = None /\ holder' = [by |-> p, job |-> job]
         /\ ~copy[p].missed
         /\ job = "exit" => ~copy[p].dirty
         => \A k \in Key : file'[k] # file[k]
              => k \in copy[p].touched \cup Buffered(copy[p])
<1>1. ASSUME IInv, [Next]_vars PROVE Keeps
  <2> SUFFICES ASSUME NEW p \in Proc, NEW job \in {"batch", "edit", "exit"},
                      holder' = [by |-> p, job |-> job], ~ copy[p].missed,
                      job = "exit" => ~ copy[p].dirty,
                      NEW k \in Key, file'[k] # file[k], k \notin copy[p].touched,
                      k \notin Buffered(copy[p])
               PROVE  FALSE
    OBVIOUS
  <2>1. \E q \in Proc : Drop(q) \/ \E j \in Job : Save(q, j)
    BY <1>1 DEF Next, Step, Fault, vars, Load, Register, Read, StartBatch, Upsert, Delete,
       DropPending, GiveUp, StartEdit, EditDelete, EditUpsert, LeaveEdit, EndEdit, EditFails,
       EmbeddingFails, SaveFails, Failed, Notify, Exit, Kill
  <2>2. Save(p, job)
    BY <2>1 DEF Drop, Save
  <2>3. job = "batch" => busy # None /\ busy.by = p
    BY <2>2, NoneAssumption DEF Save, Commits, Working
  <2>4. Sound(copy[p]) /\ file \in Rows /\ copy[p].phase # "down"
    BY <1>1, <2>2, <2>3 DEF IInv, TypeOK, Copies, Save, Commits, EditAt, Alive, Up
  <2> DEFINE c == Base(p, job)
  <2>5. /\ Sound(c) /\ c.pending = copy[p].pending /\ c.touched \subseteq copy[p].touched
        /\ ~ c.missed /\ c.phase = copy[p].phase /\ ~ c.flag
    BY <2>2, <2>4, SoundWhenReloaded DEF Base, Save, Commits
  <2> HIDE DEF c
  <2>6. c.client[k] = file[k]
    BY <2>4, <2>5 DEF Sound, Fresh
  <2>7. k \notin Buffered(c)
    BY <2>5 DEF Buffered
  <2>8. Flushed(c).client[k] = c.client[k]
    BY <2>5, <2>7, SoundWhenFlushed
  <2> QED
    BY <2>2, <2>6, <2>8 DEF Save, c
<1> QED
  BY <1>1, Invariance, PTL DEF Spec, CommitKeepsOthers
================================================================================
