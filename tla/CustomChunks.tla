------------------------------ MODULE CustomChunks ------------------------------
(***************************************************************************)
(* ainsert_custom_chunks and its rollback by a scan: chunks that a caller  *)
(* adds to a document, which may or may not exist.  The operation keeps a  *)
(* journal in the document's row, from before its first write until its    *)
(* commit; a repeated call with the same chunks resumes it, a scan rolls   *)
(* it back.  Both hold the reservations of PipelineReservations, so one    *)
(* of them works at a time.                                                *)
(*                                                                         *)
(* The stores are those of DocumentRecovery: a write is in memory until    *)
(* its store is flushed, doc_status writes through.  An attempt extracts   *)
(* the names it happens to extract: a truncated answer is not cached.      *)
(***************************************************************************)
EXTENDS Naturals, FiniteSets

CONSTANTS
  Name,
  Base, Parts,   \* the chunks a document has, and those that callers add
  Ops,           \* the sets of chunks that callers pass
  NoRow, NoPatch,
  MaxJobs        \* bound on calls and rollbacks

ASSUME OpsAssumption == Ops \subseteq SUBSET Parts /\ {} \notin Ops
ASSUME BaseAssumption == Base \cap Parts = {} /\ Base # {}
ASSUME JobsAssumption == MaxJobs \in Nat

VARIABLES
  mem,    \* the stores as the process sees them
  disk,   \* the stores as a restart finds them
  pc,     \* the next step of the call or the rollback, "idle" for neither
  names,  \* what this attempt has extracted
  resume, \* it resumes an operation
  jobs

vars == <<mem, disk, pc, names, resume, jobs>>

Chunk == Base \cup Parts
Journal(op, mode, chunks, found) ==
  [op |-> op, mode |-> mode, chunks |-> chunks, names |-> found]
Patch == [op : Ops, mode : {"create", "patch"}, chunks : SUBSET Parts,
          names : SUBSET Name]
Row == [status : {"processing", "processed", "failed"}, chunks : SUBSET Chunk,
        patch : Patch \cup {NoPatch}]
ASSUME NoneAssumption == NoRow \notin Row /\ NoPatch \notin Patch
Stores == [row : Row \cup {NoRow}, body : BOOLEAN, chunks : SUBSET Chunk,
           anchors : SUBSET Name, graph : SUBSET (Name \X Chunk)]

Calling == {"stage", "extract", "apply", "anchor", "anchored", "merge",
            "union", "united"}
RollingBack == {"unmerge", "chunks", "chunks_out", "prune", "restore",
                "unanchor", "remove", "removed"}

TypeOK ==
  /\ mem \in Stores /\ disk \in Stores
  /\ pc \in Calling \cup RollingBack \cup {"idle"}
  /\ names \subseteq Name
  /\ resume \in BOOLEAN
  /\ jobs \in 0 .. MaxJobs

Absent == [row |-> NoRow, body |-> FALSE, chunks |-> {}, anchors |-> {}, graph |-> {}]
Committed(n) ==
  [row |-> [status |-> "processed", chunks |-> Base, patch |-> NoPatch],
   body |-> TRUE, chunks |-> Base, anchors |-> {n}, graph |-> {n} \X Base]

Init ==
  /\ mem \in {Absent} \cup {Committed(n) : n \in Name}
  /\ disk = mem
  /\ pc = "idle" /\ names = {} /\ resume = FALSE /\ jobs = 0

WriteRow(row) == /\ mem' = [mem EXCEPT !.row = row]
                 /\ disk' = [disk EXCEPT !.row = row]
Flushed(stores) == [s \in DOMAIN disk |-> IF s \in stores THEN mem[s] ELSE disk[s]]
Derived == {"chunks", "anchors", "graph", "body"}

Goto(step) == pc' = step /\ UNCHANGED <<names, resume, jobs>>
Exists(stores) == stores.row # NoRow
Journaled(stores) == Exists(stores) /\ stores.row.patch # NoPatch
patch == mem.row.patch

--------------------------------------------------------------------------------
(* The call: its mode, the journal, the chunks, the extraction.            *)

Begin(row, again) ==
  /\ pc = "idle" /\ jobs < MaxJobs /\ jobs' = jobs + 1
  /\ WriteRow(row)
  /\ pc' = "stage" /\ names' = {} /\ resume' = again

\* the chunks that the document does not own already
New(op) == op \ (mem.row.chunks \cap mem.chunks)

Create(op) ==
  /\ ~ Exists(mem) /\ ~ mem.body
  /\ Begin([status |-> "processing", chunks |-> {},
            patch |-> Journal(op, "create", op, {})], FALSE)

Add(op) ==
  /\ Exists(mem) /\ ~ Journaled(mem) /\ mem.row.status = "processed"
  /\ New(op) # {}
  /\ Begin([mem.row EXCEPT !.status = "processing",
                           !.patch = Journal(op, "patch", New(op), {})], FALSE)

Resume(op) ==
  /\ Journaled(mem) /\ patch.op = op
  /\ LET chunks == IF patch.mode = "patch" THEN New(op) ELSE op
     IN Begin([mem.row EXCEPT !.status = "processing",
                              !.patch = Journal(op, patch.mode, chunks, patch.names)],
              TRUE)

Stage ==
  /\ pc = "stage"
  /\ mem' = [mem EXCEPT !.chunks = @ \cup patch.chunks, !.body = TRUE]
  /\ Goto("extract")
  /\ UNCHANGED disk

Extract ==
  /\ pc = "extract"
  /\ names' \in SUBSET Name
  /\ disk' = Flushed({"chunks", "body"})
  /\ pc' = "apply"
  /\ UNCHANGED <<mem, resume, jobs>>

\* the journal names the candidates of every attempt before the graph is touched
Candidates_Latest(earlier) == names
Candidates(earlier) == earlier \cup names

Apply ==
  /\ pc = "apply"
  /\ WriteRow([mem.row EXCEPT !.patch.names = Candidates(@)])
  /\ Goto(IF patch.mode = "create" THEN "anchor" ELSE "merge")

--------------------------------------------------------------------------------
(* The merge and the commit.                                               *)

\* the merge of a created document writes anchors of its own, over the old ones
Anchor ==
  /\ pc = "anchor"
  /\ mem' = [mem EXCEPT !.anchors = names]
  /\ Goto("anchored")
  /\ UNCHANGED disk

Anchored ==
  /\ pc = "anchored"
  /\ disk' = Flushed({"anchors"})
  /\ Goto("merge")
  /\ UNCHANGED mem

Contributions == names \X patch.chunks

Merge ==
  /\ pc = "merge"
  /\ \E x \in Contributions \ mem.graph : mem' = [mem EXCEPT !.graph = @ \cup {x}]
  /\ UNCHANGED <<disk, pc, names, resume, jobs>>

InsertDone ==
  /\ pc = "merge" /\ Contributions \subseteq mem.graph
  /\ disk' = Flushed(Derived)
  /\ Goto("union")
  /\ UNCHANGED mem

Unites == patch.mode = "patch" \/ resume

Union ==
  /\ pc = "union"
  /\ mem' = [mem EXCEPT !.anchors = IF Unites THEN @ \cup patch.names ELSE @]
  /\ Goto("united")
  /\ UNCHANGED disk

Commit ==
  /\ pc = "united"
  /\ LET kept == IF patch.mode = "patch" THEN mem.row.chunks ELSE {}
         row == [status |-> "processed", chunks |-> kept \cup patch.chunks,
                 patch |-> NoPatch]
     IN /\ mem' = [mem EXCEPT !.row = row]
        /\ disk' = [Flushed({"anchors"}) EXCEPT !.row = row]
  /\ Goto("idle")

\* an error or a cancellation: FAILED with the journal, unless that write fails
\* too; the buffers are dropped, which only some stores have
CallFails ==
  /\ pc \in Calling
  /\ \E row \in {mem.row, [mem.row EXCEPT !.status = "failed"]}, drop \in {{}, Derived} :
       /\ mem' = [s \in DOMAIN mem |-> IF s = "row" THEN row
                                       ELSE IF s \in drop THEN disk[s] ELSE mem[s]]
       /\ disk' = [disk EXCEPT !.row = row]
  /\ Goto("idle")

--------------------------------------------------------------------------------
(* _rollback_one_custom_chunk_patch, at the start of a scan.               *)

StartRollback ==
  /\ pc = "idle" /\ jobs < MaxJobs /\ jobs' = jobs + 1
  /\ Journaled(mem) /\ mem.row.status \in {"failed", "processing"}
  /\ pc' = "unmerge"
  /\ UNCHANGED <<mem, disk, names, resume>>

Staged_AnyChunk == {x \in mem.graph : x[1] \in patch.names}
Staged == {x \in mem.graph : x[1] \in patch.names /\ x[2] \in patch.chunks}

Unmerge ==
  /\ pc = "unmerge"
  /\ \E x \in Staged : mem' = [mem EXCEPT !.graph = @ \ {x}]
  /\ UNCHANGED <<disk, pc, names, resume, jobs>>

Unmerged_NoFlush ==
  /\ pc = "unmerge" /\ Staged = {}
  /\ Goto("chunks")
  /\ UNCHANGED <<mem, disk>>

\* The warning rows of a degraded rebuild, which are written before the row is
\* restored, are left out: no roll-back reads them.
Unmerged ==
  /\ pc = "unmerge" /\ Staged = {}
  /\ disk' = Flushed(Derived)
  /\ Goto("chunks")
  /\ UNCHANGED mem

DropChunks ==
  /\ pc = "chunks"
  /\ mem' = [mem EXCEPT !.chunks = @ \ patch.chunks]
  /\ Goto("chunks_out")
  /\ UNCHANGED disk

ChunksDropped ==
  /\ pc = "chunks_out"
  /\ disk' = Flushed({"chunks"})
  /\ Goto(IF patch.mode = "patch" THEN "prune" ELSE "unanchor")
  /\ UNCHANGED mem

\* a candidate stays an anchor as long as the document's own chunks are in it
Owned == {n \in Name : \E c \in mem.row.chunks \ patch.chunks : <<n, c>> \in mem.graph}

Prune ==
  /\ pc = "prune"
  /\ mem' = [mem EXCEPT !.anchors = @ \ (patch.names \ Owned)]
  /\ Goto("restore")
  /\ UNCHANGED disk

Restore ==
  /\ pc = "restore"
  /\ LET row == [status |-> "processed", chunks |-> mem.row.chunks \ patch.chunks,
                 patch |-> NoPatch]
     IN /\ mem' = [mem EXCEPT !.row = row]
        /\ disk' = [Flushed({"anchors"}) EXCEPT !.row = row]
  /\ Goto("idle")

Unanchor ==
  /\ pc = "unanchor"
  /\ mem' = [mem EXCEPT !.anchors = {}]
  /\ Goto("remove")
  /\ UNCHANGED disk

Remove ==
  /\ pc = "remove"
  /\ mem' = [mem EXCEPT !.row = NoRow, !.body = FALSE]
  /\ disk' = Flushed({"anchors"})
  /\ Goto("removed")

Removed ==
  /\ pc = "removed"
  /\ disk' = Flushed({"row", "body"})
  /\ Goto("idle")
  /\ UNCHANGED mem

RollbackFails ==
  /\ pc \in RollingBack
  /\ Goto("idle")
  /\ UNCHANGED <<mem, disk>>

--------------------------------------------------------------------------------
\* a flush that fails for some other store, or that an edit of the graph asks for
PartialFlush ==
  /\ \E s \in DOMAIN disk : disk[s] # mem[s] /\ disk' = Flushed({s})
  /\ UNCHANGED <<mem, pc, names, resume, jobs>>

Kill ==
  /\ mem' = disk
  /\ Goto("idle")
  /\ UNCHANGED disk

Call == \E op \in Ops : Create(op) \/ Add(op) \/ Resume(op)
Insert == \/ Stage \/ Extract \/ Apply \/ Anchor \/ Anchored \/ Merge \/ InsertDone
          \/ Union \/ Commit \/ CallFails
Rollback == \/ StartRollback \/ Unmerge \/ Unmerged \/ DropChunks \/ ChunksDropped
            \/ Prune \/ Restore \/ Unanchor \/ Remove \/ Removed \/ RollbackFails
Next == Call \/ Insert \/ Rollback \/ PartialFlush \/ Kill

Spec == Init /\ [][Next]_vars

--------------------------------------------------------------------------------
\* What of the graph a restart finds is named where it looks: a chunk of the
\* document by the document's anchors, a staged one by the journal.
EveryContributionNamed ==
  \A x \in disk.graph :
    /\ Exists(disk)
    /\ \/ x[2] \in disk.row.chunks /\ x[1] \in disk.anchors
       \/ /\ Journaled(disk)
          /\ x[2] \in disk.row.patch.chunks /\ x[1] \in disk.row.patch.names

\* Without a journal the operation is done or undone: what is stored is what
\* the row says, and no row has nothing stored.
AllOrNothing ==
  ~ Journaled(disk) /\ pc \notin Calling =>
    LET chunks == IF Exists(disk) THEN disk.row.chunks ELSE {}
    IN /\ disk.chunks = chunks
       /\ \A x \in disk.graph : x[2] \in chunks
       /\ Exists(disk) \/ disk.anchors = {}

\* What the document had before the operation it keeps, whatever becomes of it.
BaseKept ==
  [][Exists(disk) =>
       \A x \in disk.graph : x[2] \in disk.row.chunks => x \in disk'.graph]_vars
================================================================================
