---------------------------- MODULE DocumentRecovery ----------------------------
(***************************************************************************)
(* The life of one document in the stores: the processing run of           *)
(* pipeline.py, the purge of lightrag.py with its journal, the deletion    *)
(* and the crashes and failures between their writes.                      *)
(*                                                                         *)
(* doc_status writes its rows through; the other stores keep their writes  *)
(* in memory until they are flushed, which a write of another document or  *)
(* an edit of the graph may do for them at any moment.  A run works on a   *)
(* copy of the row (status_doc) that it read when it took the document,    *)
(* and every change of status writes the whole row again from that copy.   *)
(*                                                                         *)
(* A plan is what one attempt makes of the document: its chunks and the    *)
(* names extracted from them.  The graph holds pairs <<name, chunk>>, the  *)
(* contributions of the document; those of other documents are left out.   *)
(***************************************************************************)
EXTENDS Naturals, FiniteSets

CONSTANTS Plan, NoPlan,
          ChunksOf,  \* [Plan -> sets of chunk ids]
          NamesOf,   \* [Plan -> sets of names]
          NoRow, NoAnchors,
          MaxJobs,   \* bound on runs, deletions and uploads
          Crashes    \* whether processes are killed

ASSUME PlanAssumption == NoPlan \notin Plan
\* names are extracted from chunks
ASSUME NamesAssumption == \A p \in Plan : ChunksOf[p] = {} => NamesOf[p] = {}
ASSUME BoundAssumption == MaxJobs \in Nat /\ Crashes \in BOOLEAN

VARIABLES
  mem,     \* the stores as the process sees them
  disk,    \* the stores as a restart finds them
  job,     \* what holds the pipeline: a run, a deletion or nothing
  pc,      \* its next step
  doc,     \* status_doc of the run
  plan,    \* what the last attempt made of the document
  jobs,
  refused, \* a purge refused for want of a proof
  amiss    \* history: what has happened to what a purge goes by

vars == <<mem, disk, job, pc, doc, plan, jobs, refused, amiss>>

Chunk == UNION {ChunksOf[p] : p \in Plan}
Name == UNION {NamesOf[p] : p \in Plan}
Contributions(p) == NamesOf[p] \X ChunksOf[p]

\* the phases of the purge journal
None == 0
Prepared == 1
DerivedCommitted == 2
AnchorsPending == 3
Completed == 4

Active == {"pending", "parsing", "analyzing", "processing"}
Row == [status : Active \cup {"processed", "failed"}, chunks : SUBSET Chunk,
        mark : {"pre_graph", "graph_mutation_started"},
        journal : [op : SUBSET Chunk, phase : None .. Completed]]
Stores == [row : Row \cup {NoRow}, chunks : SUBSET Chunk,
           anchors : (SUBSET Name) \cup {NoAnchors},
           graph : SUBSET (Name \X Chunk)]
ASSUME NoneAssumption ==
  NoRow \notin Row /\ \A anchors \in SUBSET Name : anchors # NoAnchors

Purging == {"resolve", "derive", "chunks", "chunks_out",
            "anchors", "anchors_out", "purged"}
Staged == {"anchor", "anchored", "merge", "commit"}

TypeOK ==
  /\ mem \in Stores /\ disk \in Stores
  /\ job \in {"idle", "run", "delete"}
  /\ pc \in Purging \cup Staged \cup {"none", "parse", "analyze", "chunk", "finish"}
  /\ doc \in Row \cup {NoRow}
  /\ plan \in Plan \cup {NoPlan}
  /\ jobs \in 0 .. MaxJobs
  /\ refused \in BOOLEAN
  /\ amiss \subseteq {"forgot", "clobbered", "carried", "bare"}

NoJournal == [op |-> {}, phase |-> None]
Fresh == [status |-> "pending", chunks |-> {}, mark |-> "pre_graph",
          journal |-> NoJournal]
Empty == [row |-> NoRow, chunks |-> {}, anchors |-> NoAnchors, graph |-> {}]

Init ==
  /\ mem = Empty /\ disk = Empty
  /\ job = "idle" /\ pc = "none"
  /\ doc = NoRow /\ plan = NoPlan
  /\ jobs = 0 /\ refused = FALSE /\ amiss = {}

\* doc_status writes through
WriteRow(row) == /\ mem' = [mem EXCEPT !.row = row]
                 /\ disk' = [disk EXCEPT !.row = row]

\* _upsert_doc_status_transition: the row of the run's copy, and no chunks
\* unless the call gives them
Transition_NoJournal(status, chunks) ==
  [doc EXCEPT !.status = status, !.chunks = chunks, !.journal = NoJournal]
Transition(status, chunks) == [doc EXCEPT !.status = status, !.chunks = chunks]

Leave == job' = "idle" /\ pc' = "none" /\ doc' = NoRow
Goto(step) == pc' = step /\ UNCHANGED <<job, doc>>

--------------------------------------------------------------------------------
(* The ways the row and the copy of it part.                               *)

Noted(what, condition) == IF condition THEN {what} ELSE {}

\* the job ends with the chunks of the document in the copy only
Forgets == job = "run" /\ mem.row.chunks = {} /\ doc.chunks # {}

\* the copy is written over the journal of a purge that deleted the anchors
Clobbers == /\ pc \in Purging
            /\ mem.row.journal.phase >= AnchorsPending /\ mem.anchors = NoAnchors
            /\ doc.journal # mem.row.journal

\* the copy brings back the journal of a purge that is over
Carries == doc.journal # NoJournal

\* a document that was in the graph once has chunks and no anchors, from here
\* until its new anchors are durable
Bare == doc.mark # "pre_graph"

--------------------------------------------------------------------------------
(* Scheduling and the stages before the chunks are made.                   *)

Start(kind) == job = "idle" /\ jobs < MaxJobs /\ jobs' = jobs + 1 /\ job' = kind

Enqueue ==
  /\ job = "idle" /\ jobs < MaxJobs /\ jobs' = jobs + 1
  /\ mem.row = NoRow
  /\ WriteRow(Fresh)
  /\ UNCHANGED <<job, pc, doc, plan, refused, amiss>>

\* the exclusive reset of a manual retry
ResetFailed ==
  /\ job = "idle" /\ mem.row # NoRow /\ mem.row.status = "failed"
  /\ WriteRow([mem.row EXCEPT !.status = "pending"])
  /\ UNCHANGED <<job, pc, doc, plan, jobs, refused, amiss>>

Sweep ==
  /\ Start("run")
  /\ mem.row # NoRow /\ mem.row.status \in Active
  /\ LET row == [mem.row EXCEPT !.status = "pending"]
     IN WriteRow(row) /\ doc' = row
  /\ pc' = "parse"
  /\ UNCHANGED <<plan, refused, amiss>>

Parse ==
  /\ pc = "parse"
  /\ WriteRow(Transition("parsing", {}))
  /\ Goto("analyze")
  /\ UNCHANGED <<plan, jobs, refused, amiss>>

Analyze ==
  /\ pc = "analyze"
  /\ WriteRow(Transition("analyzing", {}))
  /\ Goto("resolve")
  /\ UNCHANGED <<plan, jobs, refused, amiss>>

\* an error or a cancellation before the document reaches its process stage
StageFails ==
  /\ pc \in {"parse", "analyze"}
  /\ WriteRow(Transition("failed", {}))
  /\ Leave
  /\ amiss' = amiss \cup Noted("forgot", doc.chunks # {})
  /\ UNCHANGED <<plan, jobs, refused>>

Delete ==
  /\ Start("delete")
  /\ mem.row # NoRow
  /\ pc' = "resolve"
  /\ UNCHANGED <<mem, disk, doc, plan, refused, amiss>>

--------------------------------------------------------------------------------
(* _purge_kg_contributions, for a run that takes up an old document and    *)
(* for a deletion.                                                         *)

Ids == IF job = "run" THEN doc.chunks ELSE mem.row.chunks

Conflict == /\ mem.row.journal.phase \in Prepared .. AnchorsPending
            /\ mem.row.journal.op # Ids
Phase == IF mem.row.journal.op = Ids THEN mem.row.journal.phase ELSE None

\* _resolve_purge_recovery_proof: journal, anchors, pre_graph, empty_scope
Proven ==
  \/ Phase > Prepared
  \/ mem.anchors # NoAnchors /\ (Ids = {} => mem.anchors = {})
  \/ mem.anchors = NoAnchors /\ (mem.row.mark = "pre_graph" \/ Ids = {})

\* _write_kg_purge_phase, after the work that the phase names was flushed
Journaled(stores, phase) ==
  [stores EXCEPT !.row.journal = [op |-> Ids, phase |-> phase]]

Flushed(names) == [s \in DOMAIN disk |-> IF s \in names THEN mem[s] ELSE disk[s]]

\* _purge_stale_extraction_if_resuming also returns early when the content was
\* not extracted: then the row has no chunks, for full_docs is flushed before
\* any chunk is recorded.
NothingToPurge ==
  /\ pc = "resolve" /\ job = "run" /\ doc.chunks = {}
  /\ Goto("chunk")
  /\ UNCHANGED <<mem, disk, plan, jobs, refused, amiss>>

Resolve ==
  /\ pc = "resolve" /\ (job = "run" => doc.chunks # {})
  /\ ~ Conflict /\ Proven
  /\ IF Phase = None
       THEN mem' = Journaled(mem, Prepared) /\ disk' = Journaled(disk, Prepared)
       ELSE UNCHANGED <<mem, disk>>
  /\ Goto(CASE Phase <= Prepared -> "derive"
            [] Phase = DerivedCommitted -> "chunks"
            [] Phase = AnchorsPending -> "anchors"
            [] Phase = Completed -> "purged")
  /\ UNCHANGED <<plan, jobs, refused, amiss>>

\* what the anchors name of the document's chunks
Candidates == {x \in mem.graph : /\ mem.anchors # NoAnchors
                                 /\ x[1] \in mem.anchors /\ x[2] \in Ids}

PurgeContribution ==
  /\ pc = "derive"
  /\ \E x \in Candidates : mem' = [mem EXCEPT !.graph = @ \ {x}]
  /\ UNCHANGED <<disk, job, pc, doc, plan, jobs, refused, amiss>>

DerivedDone ==
  /\ pc = "derive" /\ Candidates = {}
  /\ mem' = Journaled(mem, DerivedCommitted)
  /\ disk' = Journaled(Flushed(DOMAIN disk), DerivedCommitted)
  /\ Goto("chunks")
  /\ UNCHANGED <<plan, jobs, refused, amiss>>

PurgeChunks ==
  /\ pc = "chunks"
  /\ mem' = [mem EXCEPT !.chunks = @ \ Ids]
  /\ Goto("chunks_out")
  /\ UNCHANGED <<disk, plan, jobs, refused, amiss>>

ChunksDone ==
  /\ pc = "chunks_out"
  /\ mem' = Journaled(mem, AnchorsPending)
  /\ disk' = Journaled(Flushed({"chunks"}), AnchorsPending)
  /\ Goto("anchors")
  /\ UNCHANGED <<plan, jobs, refused, amiss>>

PurgeAnchors ==
  /\ pc = "anchors"
  /\ mem' = [mem EXCEPT !.anchors = NoAnchors]
  /\ Goto("anchors_out")
  /\ UNCHANGED <<disk, plan, jobs, refused, amiss>>

AnchorsDone ==
  /\ pc = "anchors_out"
  /\ mem' = Journaled(mem, Completed)
  /\ disk' = Journaled(Flushed({"anchors"}), Completed)
  /\ Goto("purged")
  /\ UNCHANGED <<plan, jobs, refused, amiss>>

\* _clear_kg_purge_journal
RetireJournal ==
  /\ pc = "purged" /\ job = "run"
  /\ WriteRow([mem.row EXCEPT !.journal = NoJournal, !.chunks = {}])
  /\ doc' = [doc EXCEPT !.chunks = {}]
  /\ pc' = "chunk"
  /\ UNCHANGED <<job, plan, jobs, refused, amiss>>

\* doc_status.delete is committed by the flush at the end of the deletion
DeleteRow ==
  /\ pc = "purged" /\ job = "delete"
  /\ mem' = [mem EXCEPT !.row = NoRow]
  /\ Goto("finish")
  /\ UNCHANGED <<disk, plan, jobs, refused, amiss>>

FinishDelete ==
  /\ pc = "finish"
  /\ disk' \in {mem, disk}
  /\ Leave
  /\ UNCHANGED <<mem, plan, jobs, refused, amiss>>

\* an error in a step, or a refused purge; a run writes FAILED
PurgeFails ==
  /\ job = "delete" /\ pc \in Purging
  /\ Leave
  /\ refused' = (pc = "resolve" /\ (Conflict \/ ~ Proven))
  /\ UNCHANGED <<mem, disk, plan, jobs, amiss>>

--------------------------------------------------------------------------------
(* Chunks, merge and commit.                                               *)

StageChunks ==
  /\ pc = "chunk"
  /\ \E p \in Plan :
       LET row == Transition("processing", ChunksOf[p])
       IN /\ plan' = p
          /\ mem' = [mem EXCEPT !.row = row, !.chunks = @ \cup ChunksOf[p]]
          /\ disk' = [disk EXCEPT !.row = row]
  /\ Goto("anchor")
  /\ amiss' = amiss \cup Noted("carried", Carries) \cup Noted("bare", Bare)
  /\ UNCHANGED <<jobs, refused>>

\* The document is not one of those with skip_kg, which are not merged.
WriteAnchors ==
  /\ pc = "anchor"
  /\ mem' = [mem EXCEPT !.anchors = NamesOf[plan]]
  /\ Goto("anchored")
  /\ UNCHANGED <<disk, plan, jobs, refused, amiss>>

\* _mark_graph_mutation_started, once the anchors are flushed
Marked(row) == [row EXCEPT !.mark = "graph_mutation_started"]
MarkedCopy_Not(row) == row
MarkedCopy(row) == Marked(row)

MarkMutation_NoFlush ==
  /\ pc = "anchored"
  /\ WriteRow(Marked(mem.row))
  /\ doc' = MarkedCopy(doc)
  /\ pc' = "merge"
  /\ amiss' = amiss \ {"bare"}
  /\ UNCHANGED <<job, plan, jobs, refused>>

MarkMutation ==
  /\ pc = "anchored"
  /\ mem' = [mem EXCEPT !.row = Marked(@)]
  /\ disk' = [Flushed({"anchors"}) EXCEPT !.row = Marked(mem.row)]
  /\ doc' = MarkedCopy(doc)
  /\ pc' = "merge"
  /\ amiss' = amiss \ {"bare"}
  /\ UNCHANGED <<job, plan, jobs, refused>>

Merge ==
  /\ pc = "merge"
  /\ \E x \in Contributions(plan) \ mem.graph :
       mem' = [mem EXCEPT !.graph = @ \cup {x}]
  /\ UNCHANGED <<disk, job, pc, doc, plan, jobs, refused, amiss>>

InsertDone_NoFlush ==
  /\ pc = "merge" /\ Contributions(plan) \subseteq mem.graph
  /\ Goto("commit")
  /\ UNCHANGED <<mem, disk, plan, jobs, refused, amiss>>

InsertDone ==
  /\ pc = "merge" /\ Contributions(plan) \subseteq mem.graph
  /\ disk' = Flushed(DOMAIN disk)
  /\ Goto("commit")
  /\ UNCHANGED <<mem, plan, jobs, refused, amiss>>

Commit ==
  /\ pc = "commit"
  /\ WriteRow([Transition("processed", ChunksOf[plan]) EXCEPT !.journal = NoJournal])
  /\ Leave
  /\ UNCHANGED <<plan, jobs, refused, amiss>>

\* _finalize_doc_failure, of the process stage and of its purge
FinalizeFailure ==
  /\ job = "run" /\ pc \in Purging \cup Staged \cup {"chunk"}
  /\ WriteRow(Transition("failed", IF pc \in Staged THEN ChunksOf[plan] ELSE doc.chunks))
  /\ Leave
  /\ refused' = (pc = "resolve" /\ doc.chunks # {} /\ (Conflict \/ ~ Proven))
  /\ amiss' = amiss \cup Noted("clobbered", Clobbers)
                    \cup Noted("carried", pc = "chunk" /\ Carries)
  /\ UNCHANGED <<plan, jobs>>

--------------------------------------------------------------------------------
\* a flush that another document or an edit of the graph asks for
OthersFlush ==
  /\ \E s \in DOMAIN disk : disk[s] # mem[s] /\ disk' = Flushed({s})
  /\ UNCHANGED <<mem, job, pc, doc, plan, jobs, refused, amiss>>

Kill ==
  /\ Crashes
  /\ mem' = disk
  /\ Leave
  /\ amiss' = amiss \cup Noted("forgot", Forgets)
  /\ UNCHANGED <<disk, plan, jobs, refused>>

Purge == \/ NothingToPurge \/ Resolve \/ PurgeContribution \/ DerivedDone
         \/ PurgeChunks \/ ChunksDone \/ PurgeAnchors \/ AnchorsDone
         \/ RetireJournal \/ DeleteRow \/ FinishDelete \/ PurgeFails

Next == \/ Enqueue \/ ResetFailed \/ Sweep \/ Parse \/ Analyze \/ StageFails
        \/ Delete \/ Purge
        \/ StageChunks \/ WriteAnchors \/ MarkMutation \/ Merge \/ InsertDone
        \/ Commit \/ FinalizeFailure \/ OthersFlush \/ Kill

Spec == Init /\ [][Next]_vars

--------------------------------------------------------------------------------
Gone(stores) == stores.row = NoRow
Settled(row) == row.status = "processed" /\ row.journal = NoJournal

\* PROCESSED is the commit record: a restart that finds it, with no purge
\* under way, finds the chunks, the anchors and the graph of the document.
CommitIsComplete ==
  ~ Gone(disk) /\ Settled(disk.row) =>
    /\ disk.row.chunks \subseteq disk.chunks
    /\ disk.anchors = NamesOf[plan]
    /\ Contributions(plan) \subseteq disk.graph

\* neither its chunks nor its journal has the row lost or got back
Kept == amiss \subseteq {"bare"}

\* The mark that lets a purge skip the graph is never false.
MarkIsTrue ==
  Kept /\ ~ Gone(mem) /\ mem.row.mark = "pre_graph" => mem.graph \cup disk.graph = {}

\* Whatever the document has in the graph a purge can find: a restart finds
\* its name in the anchors and its chunk in the row, or in the copy of the
\* run that is about to purge it.
Discoverable ==
  Kept =>
    \A x \in disk.graph :
      /\ ~ Gone(disk)
      /\ disk.anchors # NoAnchors /\ x[1] \in disk.anchors
      /\ x[2] \in disk.row.chunks \/ (job = "run" /\ x[2] \in doc.chunks)

\* A purge is refused only after the row has lost its chunks or its journal,
\* or got an old journal back, or stands between a purge and new anchors.
RefusedOnlyAmiss == refused => amiss # {}

\* What the code does not do.

\* When the row is deleted or PROCESSED, nothing but the last attempt's
\* contributions is in the graph.
NoOrphans ==
  /\ job = "idle" /\ Gone(mem) /\ Gone(disk) => mem.graph = {}
  /\ job = "idle" /\ ~ Gone(mem) /\ Settled(mem.row) =>
       mem.graph \subseteq Contributions(plan)

\* A document whose row has lost nothing can always be purged, by a retry or
\* by a deletion.
NeverRefused == refused => ~ Kept
================================================================================
