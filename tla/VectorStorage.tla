----------------------------- MODULE VectorStorage -----------------------------
(***************************************************************************)
(* One namespace of NanoVectorDBStorage                                    *)
(* (src/lightrag/kg/nano_vector_db_impl.py) and the update flags of        *)
(* shared_storage.py.  Every process keeps a copy of the file in memory,   *)
(* buffers upserts, and commits by writing its whole copy over the file    *)
(* and setting the flag of every registered process.  A batch writes while *)
(* it holds `busy`; an edit of the graph only looks at `busy` when it      *)
(* starts (check_pipeline_busy_or_raise) and holds the lock of its entity. *)
(*                                                                         *)
(* A row is a version number, 0 for no row.  One action is one critical    *)
(* section of _storage_lock, except a commit: the file is replaced, and    *)
(* the flags are set by a later step, with the lock held in between.       *)
(***************************************************************************)
EXTENDS Naturals, FiniteSets

CONSTANTS Proc,       \* server processes
          Key,        \* ids of rows
          None,
          MaxWrites,  \* bound on upserts
          Faults,     \* whether calls fail and processes stop
          MaxStarts   \* bound on starts of processes

ASSUME ProcAssumption == IsFiniteSet(Proc) /\ None \notin Proc
ASSUME BoundAssumption == MaxWrites \in Nat /\ MaxStarts \in Nat /\ Faults \in BOOLEAN

VARIABLES
  file,    \* rows of vdb_<namespace>.json
  copy,    \* per process: the storage object
  holder,  \* the commit that holds _storage_lock between file and flags
  busy,    \* the batch that holds the pipeline's busy slot
  edit,    \* per process: the edit of the graph it serves
  writes,  \* versions handed out
  starts   \* processes started

vars == <<file, copy, holder, busy, edit, writes, starts>>

Version == 0 .. MaxWrites
Rows == [Key -> Version]
Empty == [k \in Key |-> 0]

(* `touched` and `missed` are for the properties: the rows of the client   *)
(* that the process changed since it last loaded or saved, and whether it  *)
(* has not been told of a replacement of the file.                         *)
Storage == [phase : {"down", "loaded", "up"}, client : Rows, pending : Rows,
            dirty : BOOLEAN, flag : BOOLEAN,
            touched : SUBSET Key, missed : BOOLEAN]

Loaded(phase) == [phase |-> phase, client |-> file, pending |-> Empty,
                  dirty |-> FALSE, flag |-> FALSE,
                  touched |-> {}, missed |-> FALSE]

Job == {"batch", "edit", "drop", "exit"}
Stage == {"locked", "written", "saved"}

ASSUME NoneAssumption == None \notin [by : Proc, stage : {"work", "abort"}]

TypeOK ==
  /\ file \in Rows
  /\ copy \in [Proc -> Storage]
  /\ holder \in [by : Proc, job : Job] \cup {None}
  /\ busy \in [by : Proc, stage : {"work", "abort"}] \cup {None}
  /\ edit \in [Proc -> [key : Key, version : Version, stage : Stage] \cup {None}]
  /\ writes \in 0 .. MaxWrites
  /\ starts \in 0 .. MaxStarts

Init ==
  /\ file = Empty
  /\ copy = [p \in Proc |-> Loaded("down")]
  /\ holder = None /\ busy = None
  /\ edit = [p \in Proc |-> None]
  /\ writes = 0 /\ starts = 0

--------------------------------------------------------------------------------
(* What the methods do with the storage object c.                          *)

Buffered(c) == {k \in Key : c.pending[k] # 0}

\* _reload_client_from_disk_locked
Reloaded_FlagOnly(c) ==
  IF c.flag THEN [c EXCEPT !.flag = FALSE, !.missed = FALSE] ELSE c

Reloaded(c) ==
  IF c.flag
  THEN [c EXCEPT !.client = file, !.flag = FALSE, !.touched = {}, !.missed = FALSE]
  ELSE c

\* upsert: no reload, no embedding
Upserted(c, k, v) == [c EXCEPT !.pending[k] = v]

\* delete, delete_entity, delete_entity_relation
Deleted(c, k) ==
  LET r == Reloaded(c)
      d == IF r.client[k] = 0 THEN r
           ELSE [r EXCEPT !.client[k] = 0, !.dirty = TRUE, !.touched = @ \cup {k}]
  IN  [d EXCEPT !.pending[k] = 0]

\* _flush_pending_locked
Flushed_Forgets(c) ==
  IF Buffered(c) = {} THEN c
  ELSE [c EXCEPT !.client = [k \in Key |-> IF c.pending[k] = 0 THEN @[k] ELSE c.pending[k]],
                 !.pending = Empty, !.touched = @ \cup Buffered(c)]

Flushed(c) ==
  IF Buffered(c) = {} THEN c
  ELSE [c EXCEPT !.client = [k \in Key |-> IF c.pending[k] = 0 THEN @[k] ELSE c.pending[k]],
                 !.pending = Empty, !.dirty = TRUE,
                 !.touched = @ \cup Buffered(c)]

\* The copies once p has replaced the file by rows: c is p's own.
Replaced(p, c) ==
  [q \in Proc |-> IF q = p THEN [c EXCEPT !.touched = {}]
                  ELSE [copy[q] EXCEPT !.missed = @ \/ copy[q].phase # "down"]]

\* set_all_update_flags, then the writer's own flag and dirty mark
Announced(p) ==
  [q \in Proc |->
     IF q = p THEN [copy[q] EXCEPT !.flag = FALSE, !.dirty = FALSE]
     ELSE IF copy[q].phase = "up"
     THEN [copy[q] EXCEPT !.flag = TRUE, !.missed = FALSE]
     ELSE copy[q]]

Up(p) == copy[p].phase = "up"
LockFree == holder = None
Holds(p) == busy # None /\ busy.by = p
Locked(k) == \E q \in Proc : edit[q] # None /\ edit[q].key = k

--------------------------------------------------------------------------------
(* Start of a process: the constructor loads the file without the lock, and *)
(* initialize_storages registers the flag later.                            *)

Load(p) ==
  /\ copy[p].phase = "down" /\ starts < MaxStarts
  /\ copy' = [copy EXCEPT ![p] = Loaded("loaded")]
  /\ starts' = starts + 1
  /\ UNCHANGED <<file, holder, busy, edit, writes>>

Register(p) ==
  /\ copy[p].phase = "loaded"
  /\ copy' = [copy EXCEPT ![p].phase = "up"]
  /\ UNCHANGED <<file, holder, busy, edit, writes, starts>>

Read(p) ==
  /\ Up(p) /\ LockFree
  /\ copy[p].flag
  /\ copy' = [copy EXCEPT ![p] = Reloaded(@)]
  /\ UNCHANGED <<file, holder, busy, edit, writes, starts>>

--------------------------------------------------------------------------------
(* A batch of the pipeline, a deletion or a clear, under `busy`.            *)

StartBatch(p) ==
  /\ Up(p) /\ busy = None
  /\ busy' = [by |-> p, stage |-> "work"]
  /\ UNCHANGED <<file, copy, holder, edit, writes, starts>>

Working(p) == busy = [by |-> p, stage |-> "work"]

Upsert(p, k) ==
  /\ Working(p) /\ LockFree /\ ~Locked(k)
  /\ writes < MaxWrites
  /\ writes' = writes + 1
  /\ copy' = [copy EXCEPT ![p] = Upserted(@, k, writes + 1)]
  /\ UNCHANGED <<file, holder, busy, edit, starts>>

Delete(p, k) ==
  /\ Working(p) /\ LockFree /\ ~Locked(k)
  /\ copy' = [copy EXCEPT ![p] = Deleted(@, k)]
  /\ UNCHANGED <<file, holder, busy, edit, writes, starts>>

\* _discard_pending_index_ops of an aborting batch
DropPending(p) ==
  /\ busy = [by |-> p, stage |-> "abort"] /\ LockFree
  /\ copy' = [copy EXCEPT ![p].pending = Empty]
  /\ busy' = None
  /\ UNCHANGED <<file, holder, edit, writes, starts>>

\* a deletion that fails leaves its changes in the client
GiveUp(p) ==
  /\ Working(p)
  /\ busy' = None
  /\ UNCHANGED <<file, copy, holder, edit, writes, starts>>

Drop(p) ==
  /\ Working(p) /\ LockFree
  /\ file' = Empty
  /\ copy' = Replaced(p, [copy[p] EXCEPT !.pending = Empty, !.client = Empty,
                                         !.dirty = FALSE, !.missed = FALSE])
  /\ holder' = [by |-> p, job |-> "drop"]
  /\ UNCHANGED <<busy, edit, writes, starts>>

--------------------------------------------------------------------------------
(* An edit of one entity: it deletes or upserts the row and commits.        *)

StartEdit(p, k) ==
  /\ Up(p) /\ edit[p] = None
  /\ busy = None /\ ~Locked(k)
  /\ edit' = [edit EXCEPT ![p] = [key |-> k, version |-> 0, stage |-> "locked"]]
  /\ UNCHANGED <<file, copy, holder, busy, writes, starts>>

EditAt(p, stage) == edit[p] # None /\ edit[p].stage = stage

EditDelete(p) ==
  /\ EditAt(p, "locked") /\ LockFree
  /\ copy' = [copy EXCEPT ![p] = Deleted(@, edit[p].key)]
  /\ edit' = [edit EXCEPT ![p].stage = "written"]
  /\ UNCHANGED <<file, holder, busy, writes, starts>>

EditUpsert(p) ==
  /\ EditAt(p, "locked") /\ LockFree
  /\ writes < MaxWrites
  /\ writes' = writes + 1
  /\ copy' = [copy EXCEPT ![p] = Upserted(@, edit[p].key, writes + 1)]
  /\ edit' = [edit EXCEPT ![p].stage = "written", ![p].version = writes + 1]
  /\ UNCHANGED <<file, holder, busy, starts>>

LeaveEdit(p) ==
  /\ edit' = [edit EXCEPT ![p] = None]
  /\ UNCHANGED <<file, copy, holder, busy, writes, starts>>

EndEdit(p) == EditAt(p, "saved") /\ LeaveEdit(p)

\* it raises or is cancelled before its commit
EditFails(p) ==
  /\ EditAt(p, "locked") \/ EditAt(p, "written")
  /\ holder # [by |-> p, job |-> "edit"]
  /\ LeaveEdit(p)

--------------------------------------------------------------------------------
(* The commit of a batch or an edit (index_done_callback) and of a process  *)
(* that shuts down (finalize).                                              *)

Commits(p, job) ==
  \/ job = "batch" /\ Working(p)
  \/ job = "edit" /\ EditAt(p, "written")
  \/ job = "exit" /\ Up(p) /\ (Buffered(copy[p]) # {} \/ copy[p].dirty)

\* the object the commit starts from: finalize keeps a dirty client
Base_NoReload(p, job) == copy[p]

Base(p, job) ==
  IF job # "exit" \/ (Buffered(copy[p]) # {} /\ ~copy[p].dirty)
  THEN Reloaded(copy[p]) ELSE copy[p]

\* the caller sees an exception: a batch aborts, an edit fails, an exit exits
Failed(p, job, c) ==
  /\ copy' = [copy EXCEPT ![p] = IF job = "exit" THEN [c EXCEPT !.phase = "down"] ELSE c]
  /\ edit' = IF job \in {"edit", "exit"} THEN [edit EXCEPT ![p] = None] ELSE edit
  /\ busy' = CASE job = "batch" -> [by |-> p, stage |-> "abort"]
               [] job = "exit" /\ Holds(p) -> None
               [] OTHER -> busy
  /\ UNCHANGED <<file, holder, writes, starts>>

EmbeddingFails(p, job) ==
  /\ Commits(p, job) /\ LockFree
  /\ Buffered(copy[p]) # {}
  /\ Failed(p, job, Base(p, job))

SaveFails(p, job) ==
  /\ Commits(p, job) /\ LockFree
  /\ Failed(p, job, Flushed(Base(p, job)))

Save(p, job) ==
  /\ Commits(p, job) /\ LockFree
  /\ LET c == Flushed(Base(p, job)) IN
       /\ file' = c.client
       /\ copy' = Replaced(p, c)
  /\ holder' = [by |-> p, job |-> job]
  /\ UNCHANGED <<busy, edit, writes, starts>>

Notify(p) ==
  /\ holder # None /\ holder.by = p
  /\ copy' = [Announced(p) EXCEPT ![p].phase = IF holder.job = "exit" THEN "down" ELSE @]
  /\ busy' = IF Holds(p) /\ holder.job # "edit" THEN None ELSE busy
  /\ edit' = [edit EXCEPT ![p] = CASE holder.job = "exit" -> None
                                   [] holder.job = "edit" -> [@ EXCEPT !.stage = "saved"]
                                   [] OTHER -> @]
  /\ holder' = None
  /\ UNCHANGED <<file, writes, starts>>

\* finalize with nothing to write
Exit(p) ==
  /\ Up(p) /\ LockFree
  /\ Buffered(copy[p]) = {} /\ ~copy[p].dirty
  /\ ~Holds(p)
  /\ copy' = [copy EXCEPT ![p] = Loaded("down")]
  /\ edit' = [edit EXCEPT ![p] = None]
  /\ UNCHANGED <<file, holder, busy, writes, starts>>

\* SIGKILL; the locks and the busy slot of the dead process are reclaimed
Kill(p) ==
  /\ copy[p].phase # "down"
  /\ copy' = [copy EXCEPT ![p] = Loaded("down")]
  /\ edit' = [edit EXCEPT ![p] = None]
  /\ holder' = IF holder # None /\ holder.by = p THEN None ELSE holder
  /\ busy' = IF Holds(p) THEN None ELSE busy
  /\ UNCHANGED <<file, writes, starts>>

Step(p) ==
  \/ Load(p) \/ Register(p) \/ Read(p)
  \/ StartBatch(p) \/ DropPending(p) \/ Drop(p)
  \/ \E k \in Key : Upsert(p, k) \/ Delete(p, k) \/ StartEdit(p, k)
  \/ EditDelete(p) \/ EditUpsert(p) \/ EndEdit(p)
  \/ \E job \in Job : Save(p, job)
  \/ Notify(p) \/ Exit(p)

Fault(p) ==
  \/ GiveUp(p) \/ EditFails(p) \/ Kill(p)
  \/ \E job \in Job : EmbeddingFails(p, job) \/ SaveFails(p, job)

Next == \E p \in Proc : Step(p) \/ (Faults /\ Fault(p))

Spec == Init /\ [][Next]_vars

--------------------------------------------------------------------------------
(* A process that has not been flagged, and has not missed a commit while   *)
(* it started or when a committer was killed between the file and the       *)
(* flags, has the rows of the file, but for those it changed itself.        *)
UnflaggedCopyIsCurrent ==
  \A p \in Proc : LET c == copy[p] IN
    c.phase # "down" /\ ~c.flag /\ ~c.missed
      => \A k \in Key \ c.touched : c.client[k] = file[k]

(* A client with changes that are not in the file is marked dirty, so that  *)
(* finalize writes them.                                                    *)
UnsavedIsRemembered ==
  \A p \in Proc : copy[p].phase # "down" /\ copy[p].touched # {} => copy[p].dirty

(* The commit of a batch, an edit or a clean shutdown changes only rows the *)
(* process itself has changed or buffered: what others committed since it   *)
(* last looked at the file stays.                                           *)
CommitKeepsOthers ==
  [][\A p \in Proc, job \in {"batch", "edit", "exit"} :
       /\ holder = None /\ holder' = [by |-> p, job |-> job]
       /\ ~copy[p].missed
       /\ job = "exit" => ~copy[p].dirty
       => \A k \in Key : file'[k] # file[k]
            => k \in copy[p].touched \cup Buffered(copy[p])]_vars

(* What a comment says and the code does not do.                            *)
(* When the deletion of an entity commits, its row is gone from the file:   *)
(* the locks of the entities are "the last line of defense" against a run   *)
(* that turns busy after the check (document_routes.py:1881-1886).          *)
DeletionCommits ==
  \A p \in Proc :
    holder = [by |-> p, job |-> "edit"] /\ edit[p].version = 0
      => file[edit[p].key] = 0

================================================================================
