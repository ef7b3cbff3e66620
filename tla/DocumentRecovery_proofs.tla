------------------------- MODULE DocumentRecovery_proofs -------------------------
(***************************************************************************)
(* The invariants of DocumentRecovery, for any plans, any chunks and names *)
(* and any number of runs, deletions, failures and kills.                  *)
(*                                                                         *)
(* A kill replaces mem by disk, and OthersFlush makes any part of the one  *)
(* the other's: every conjunct speaks of both.  Jobs to Committed hold     *)
(* always; the conjuncts under Kept hold until the row has lost its chunks *)
(* or its journal, or got an old one back.  Each action is one lemma with  *)
(* one step per conjunct.                                                  *)
(***************************************************************************)
EXTENDS DocumentRecovery, TLAPS

\* What runs, and what it has of the document: a deletion works on the row, a
\* run on its copy of it.
Jobs ==
  /\ mem.row # NoRow => disk.row = mem.row
  /\ (mem.row = NoRow /\ disk.row # NoRow) =>
       disk.row.journal = [op |-> disk.row.chunks, phase |-> Completed]
  /\ job = "idle" => pc = "none"
  /\ job = "delete" => \/ pc \in Purging /\ mem.row # NoRow
                       \/ pc = "finish" /\ mem.row = NoRow
  /\ job = "run" => /\ pc \in Purging \cup Staged \cup {"parse", "analyze", "chunk"}
                    /\ doc # NoRow /\ mem.row # NoRow
                    /\ mem.row.status \in Active /\ mem.row.mark = doc.mark

\* The copy and the row part in their chunks at the first transition, in their
\* journals when the purge begins.
Copies ==
  job = "run" =>
    /\ pc \in {"parse", "analyze", "resolve"} => doc.journal = mem.row.journal
    /\ pc \in {"parse", "analyze"} \cup Purging => mem.row.chunks \in {doc.chunks, {}}
    /\ pc \in {"chunk"} \cup Staged => doc.chunks = {}
    /\ pc = "chunk" => /\ mem.row.chunks = {}
                       /\ mem.row.journal \in {NoJournal, doc.journal}
    /\ pc \in Staged => /\ plan \in Plan /\ mem.row.chunks = ChunksOf[plan]
                        /\ mem.row.journal = doc.journal
    /\ pc \in {"merge", "commit"} => mem.row.mark = "graph_mutation_started"

\* The journal is one step ahead of the purge.
JournalPhase ==
  /\ pc = "derive" => mem.row.journal = [op |-> Ids, phase |-> Prepared]
  /\ pc \in {"chunks", "chunks_out"} =>
       mem.row.journal = [op |-> Ids, phase |-> DerivedCommitted]
  /\ pc \in {"anchors", "anchors_out"} =>
       mem.row.journal = [op |-> Ids, phase |-> AnchorsPending]
  /\ pc = "purged" => mem.row.journal = [op |-> Ids, phase |-> Completed]

\* How far an attempt has come, in memory and on disk.
Progress ==
  /\ pc = "anchors_out" => mem.anchors = NoAnchors
  /\ pc \in Staged => ChunksOf[plan] \subseteq mem.chunks
  /\ pc \in {"anchored", "merge", "commit"} => mem.anchors = NamesOf[plan]
  /\ pc \in {"merge", "commit"} => disk.anchors = NamesOf[plan]
  /\ pc = "commit" => /\ ChunksOf[plan] \subseteq disk.chunks
                      /\ Contributions(plan) \subseteq mem.graph \cap disk.graph

\* A committed document is complete in memory as on disk, and nothing but a
\* deletion that has not begun to purge is at work on it.
Committed ==
  (disk.row # NoRow /\ Settled(disk.row)) =>
    /\ mem.row = disk.row /\ pc \in {"none", "resolve"} /\ plan \in Plan
    /\ disk.row.chunks \subseteq mem.chunks \cap disk.chunks
    /\ mem.anchors = NamesOf[plan] /\ disk.anchors = NamesOf[plan]
    /\ Contributions(plan) \subseteq mem.graph \cap disk.graph

\* The chunks a purge would go by: the copy's until the new ones are staged.
Scope == IF job = "run" /\ pc \notin Staged THEN doc.chunks ELSE mem.row.chunks

\* Before the first merge and after the derived data is committed as purged,
\* nothing of the document is in either graph.
NothingDerived ==
  Kept =>
    ((\/ mem.row = NoRow
      \/ mem.row.mark = "pre_graph"
      \/ mem.row.journal.phase > Prepared
      \/ job = "run" /\ doc.journal.phase > Prepared
      \/ pc \in {"chunk", "anchor", "anchored"}) =>
       mem.graph = {} /\ disk.graph = {})

\* What is in either graph is named by both sets of anchors, and its chunk is
\* one a purge would go by.
Found ==
  Kept =>
    \A x \in mem.graph \cup disk.graph :
      /\ mem.anchors # NoAnchors /\ disk.anchors # NoAnchors
      /\ x[1] \in mem.anchors /\ x[1] \in disk.anchors /\ x[2] \in Scope

\* A journal is about the chunks of the document, and an attempt starts without.
JournalIsOurs ==
  Kept =>
    /\ (mem.row # NoRow /\ mem.row.journal.phase # None) =>
         mem.row.journal.op = Scope
    /\ (job = "run" /\ pc \notin {"chunk"} \cup Staged /\ doc.journal.phase # None) =>
         doc.journal.op = doc.chunks
    /\ pc \in Staged => doc.journal = NoJournal

\* Anchors go in memory first, under the journal that says so; a document that
\* a purge is over for has none.
AnchorsGone ==
  Kept =>
    /\ (mem.anchors = NoAnchors /\ disk.anchors # NoAnchors) =>
         (mem.row # NoRow /\ mem.row.journal.phase = AnchorsPending)
    /\ (\/ mem.row = NoRow
        \/ mem.row.journal.phase = Completed
        \/ job = "run" /\ pc \notin Staged /\ doc.journal.phase = Completed) =>
         (mem.anchors = NoAnchors /\ disk.anchors = NoAnchors)
    /\ (mem.row # NoRow /\ Scope = {}) =>
         (mem.anchors \in {NoAnchors, {}} /\ disk.anchors \in {NoAnchors, {}})

\* A document that was in the graph has its anchors, on disk as well, until a
\* purge deletes them, but for the time that amiss calls bare.
AnchorsKept ==
  (Kept /\ "bare" \notin amiss /\ mem.row # NoRow
        /\ mem.row.mark # "pre_graph" /\ Scope # {}) =>
    /\ mem.row.journal.phase < AnchorsPending => mem.anchors # NoAnchors
    /\ mem.anchors # NoAnchors => disk.anchors # NoAnchors

\* A document whose purge was refused without more amiss than that stays as it
\* is: every further purge is refused.
Stuck ==
  (Kept /\ refused) =>
    /\ "bare" \in amiss
    /\ pc \in {"none", "parse", "analyze", "resolve"}
    /\ mem.row # NoRow /\ mem.row.mark # "pre_graph" /\ Scope # {}
    /\ mem.row.journal.phase <= Prepared
    /\ mem.anchors = NoAnchors /\ disk.anchors = NoAnchors

\* The inductive invariant.
Inv ==
  /\ TypeOK /\ Jobs /\ Copies /\ JournalPhase /\ Progress /\ Committed
  /\ NothingDerived /\ Found /\ JournalIsOurs /\ AnchorsGone /\ AnchorsKept /\ Stuck

--------------------------------------------------------------------------------
\* What a row of the document is.
LEMMA RowTyped ==
  ASSUME NEW r \in Row
  PROVE  /\ r # NoRow /\ r.status \in Active \cup {"processed", "failed"}
         /\ r.chunks \subseteq Chunk
         /\ r.mark \in {"pre_graph", "graph_mutation_started"}
         /\ r.journal \in [op : SUBSET Chunk, phase : 0 .. 4]
         /\ r.journal.op \subseteq Chunk
         /\ r.journal.phase \in 0 .. 4
<1>1. r # NoRow
  BY NoneAssumption
<1> QED
  BY <1>1 DEF Row, None, Completed

\* What a transition writes.
LEMMA TransitionTyped ==
  ASSUME doc \in Row, NEW status \in Active \cup {"processed", "failed"},
         NEW chunks \in SUBSET Chunk
  PROVE  LET t == Transition(status, chunks)
         IN /\ t \in Row /\ t.status = status /\ t.chunks = chunks
            /\ t.mark = doc.mark /\ t.journal = doc.journal
  BY DEF Transition, Row

\* A write of the row leaves the other stores.
LEMMA RowWritten ==
  ASSUME mem \in Stores, disk \in Stores, NEW r \in Row, WriteRow(r)
  PROVE  /\ mem' \in Stores /\ mem'.row = r /\ mem'.graph = mem.graph
         /\ mem'.chunks = mem.chunks /\ mem'.anchors = mem.anchors
         /\ disk' \in Stores /\ disk'.row = r /\ disk'.graph = disk.graph
         /\ disk'.chunks = disk.chunks /\ disk'.anchors = disk.anchors
  BY DEF Stores, WriteRow

\* A flush writes the stores it names and leaves the others.
LEMMA Flushing ==
  ASSUME mem \in Stores, disk \in Stores, NEW S
  PROVE  /\ Flushed(S) \in Stores
         /\ Flushed(S).row = IF "row" \in S THEN mem.row ELSE disk.row
         /\ Flushed(S).chunks = IF "chunks" \in S THEN mem.chunks ELSE disk.chunks
         /\ Flushed(S).anchors = IF "anchors" \in S THEN mem.anchors ELSE disk.anchors
         /\ Flushed(S).graph = IF "graph" \in S THEN mem.graph ELSE disk.graph
<1>1. DOMAIN disk = {"row", "chunks", "anchors", "graph"}
  BY DEF Stores
<1> DEFINE F == [row |-> IF "row" \in S THEN mem.row ELSE disk.row,
                 chunks |-> IF "chunks" \in S THEN mem.chunks ELSE disk.chunks,
                 anchors |-> IF "anchors" \in S THEN mem.anchors ELSE disk.anchors,
                 graph |-> IF "graph" \in S THEN mem.graph ELSE disk.graph]
<1>2. Flushed(S) = F
  BY <1>1 DEF Flushed
<1>3. F \in Stores
  BY DEF Stores
<1> QED
  BY <1>2, <1>3

\* A phase of the journal is written over the earlier one.
LEMMA JournalWritten ==
  ASSUME NEW s \in Stores, s.row \in Row, Ids \subseteq Chunk, NEW phase \in 0 .. 4
  PROVE  LET t == Journaled(s, phase)
         IN /\ t \in Stores /\ t.row \in Row
            /\ t.row.journal = [op |-> Ids, phase |-> phase]
            /\ t.row.status = s.row.status /\ t.row.chunks = s.row.chunks
            /\ t.row.mark = s.row.mark
            /\ t.chunks = s.chunks /\ t.anchors = s.anchors /\ t.graph = s.graph
<1> DEFINE j == [op |-> Ids, phase |-> phase]
           r == [s.row EXCEPT !.journal = j]
<1>1. j \in [op : SUBSET Chunk, phase : None .. Completed]
  BY DEF None, Completed
<1>2. Journaled(s, phase) = [s EXCEPT !.row = r]
  BY DEF Journaled, Stores
<1> HIDE DEF j
<1>3. /\ r \in Row /\ r.journal = j /\ r.status = s.row.status
      /\ r.chunks = s.row.chunks /\ r.mark = s.row.mark
  BY <1>1 DEF Row
<1> HIDE DEF r
<1>4. /\ [s EXCEPT !.row = r] \in Stores /\ [s EXCEPT !.row = r].row = r
      /\ [s EXCEPT !.row = r].chunks = s.chunks
      /\ [s EXCEPT !.row = r].anchors = s.anchors
      /\ [s EXCEPT !.row = r].graph = s.graph
  BY <1>3 DEF Stores
<1> QED
  BY <1>2, <1>3, <1>4 DEF j

\* A purge that is refused with nothing lost is one of a document without
\* anchors.
LEMMA RefusedIsBare ==
  ASSUME Inv, Kept, pc = "resolve", Conflict \/ ~ Proven
  PROVE  /\ "bare" \in amiss /\ mem.row # NoRow /\ mem.row.journal.phase <= 1
         /\ mem.anchors = NoAnchors /\ disk.anchors = NoAnchors
         /\ mem.row.mark # "pre_graph" /\ Scope # {}
<1>1. mem.row # NoRow /\ mem.row.journal.phase \in 0 .. 4
  BY RowTyped DEF Inv, TypeOK, Stores, Jobs
<1>2. Scope = Ids
  BY DEF Inv, Jobs, Scope, Ids, Staged
<1>3. mem.row.journal.phase = 0 \/ mem.row.journal.op = Ids
  BY <1>1, <1>2 DEF Inv, JournalIsOurs, None
<1>4. ~ Proven
  BY <1>3 DEF Conflict, Prepared, AnchorsPending
<1>5. mem.row.journal.phase <= 1
  BY <1>1, <1>3, <1>4 DEF Proven, Phase, None, Prepared
<1>6. Ids = {} => mem.anchors \in {NoAnchors, {}}
  BY <1>1, <1>2 DEF Inv, AnchorsGone
<1>7. mem.anchors = NoAnchors /\ mem.row.mark # "pre_graph" /\ Ids # {}
  BY <1>4, <1>6 DEF Proven
<1>8. disk.anchors = NoAnchors
  BY <1>5, <1>7 DEF Inv, AnchorsGone, AnchorsPending
<1>9. "bare" \in amiss
  BY <1>1, <1>2, <1>5, <1>7 DEF Inv, AnchorsKept, AnchorsPending
<1> QED
  BY <1>1, <1>2, <1>5, <1>7, <1>8, <1>9

\* Enqueue: a document that does not exist is uploaded.
LEMMA EnqueueStep == ASSUME Inv, Enqueue PROVE Inv'
<1>1. /\ mem.row = NoRow /\ WriteRow(Fresh) /\ job = "idle" /\ pc = "none"
      /\ jobs < MaxJobs /\ jobs' = jobs + 1
      /\ UNCHANGED <<job, pc, doc, plan, refused, amiss>>
  BY DEF Enqueue, Inv, Jobs
<1>2. Fresh \in Row
  BY DEF Fresh, Row, NoJournal, Active, None, Completed
<1>3. /\ Fresh # NoRow /\ Fresh.status = "pending" /\ Fresh.chunks = {}
      /\ Fresh.mark = "pre_graph" /\ Fresh.journal = NoJournal
  BY <1>2, RowTyped DEF Fresh
<1>4. /\ mem' \in Stores /\ mem'.row = Fresh /\ mem'.graph = mem.graph
      /\ mem'.chunks = mem.chunks /\ mem'.anchors = mem.anchors
      /\ disk' \in Stores /\ disk'.row = Fresh /\ disk'.graph = disk.graph
      /\ disk'.chunks = disk.chunks /\ disk'.anchors = disk.anchors
  BY <1>1, <1>2, RowWritten DEF Inv, TypeOK
<1>5. Scope' = {}
  BY <1>1, <1>3, <1>4 DEF Scope
<1>6. TypeOK'
  BY <1>1, <1>4, BoundAssumption DEF Inv, TypeOK
<1>7. Jobs'
  BY <1>1, <1>2, <1>3, <1>4, <1>5 DEF Inv, Jobs
<1>8. Copies'
  BY <1>1, <1>2 DEF Inv, Copies
<1>9. JournalPhase'
  BY <1>1, <1>2 DEF Inv, JournalPhase, Ids
<1>10. Progress'
  BY <1>1, <1>2, <1>3, <1>4, <1>5 DEF Inv, Progress
<1>11. Committed'
  BY <1>3, <1>4, <1>5 DEF Inv, Committed, Settled
<1>12. NothingDerived'
  BY <1>1, <1>2, <1>3, <1>4, <1>5 DEF Inv, NothingDerived, Kept
<1>13. Found'
  BY <1>1, <1>2, <1>3, <1>4, <1>5 DEF Inv, Found, Kept, NothingDerived
<1>14. JournalIsOurs'
  BY <1>1, <1>2, <1>3, <1>4, <1>5 DEF Inv, JournalIsOurs, Kept, NoJournal
<1>15. AnchorsGone'
  BY <1>1, <1>2, <1>3, <1>4, <1>5 DEF Inv, AnchorsGone, Kept, NoJournal
<1>16. AnchorsKept'
  BY <1>3, <1>4, <1>5 DEF Inv, AnchorsKept, Kept
<1>17. Stuck'
  BY <1>1, <1>2 DEF Inv, Stuck, Kept
<1> QED
  BY <1>6, <1>7, <1>8, <1>9, <1>10, <1>11, <1>12, <1>13, <1>14, <1>15, <1>16,
     <1>17 DEF Inv

\* ResetFailed: a failed document is to be retried.
LEMMA ResetFailedStep == ASSUME Inv, ResetFailed PROVE Inv'
<1>1. /\ mem.row # NoRow /\ mem.row.status = "failed" /\ job = "idle" /\ pc = "none"
      /\ WriteRow([mem.row EXCEPT !.status = "pending"])
      /\ UNCHANGED <<job, pc, doc, plan, jobs, refused, amiss>>
  BY DEF ResetFailed, Inv, Jobs
<1>2. mem.row \in Row
  BY <1>1 DEF Inv, TypeOK, Stores
<1> DEFINE r == [mem.row EXCEPT !.status = "pending"]
<1>3. /\ r \in Row /\ r.status = "pending" /\ r.chunks = mem.row.chunks
      /\ r.mark = mem.row.mark /\ r.journal = mem.row.journal
  BY <1>2 DEF Row, Active
<1> HIDE DEF r
<1>4. r # NoRow
  BY <1>3, NoneAssumption
<1>5. /\ mem' \in Stores /\ mem'.row = r /\ mem'.graph = mem.graph
      /\ mem'.chunks = mem.chunks /\ mem'.anchors = mem.anchors
      /\ disk' \in Stores /\ disk'.row = r /\ disk'.graph = disk.graph
      /\ disk'.chunks = disk.chunks /\ disk'.anchors = disk.anchors
  BY <1>1, <1>3, RowWritten DEF Inv, TypeOK, r
<1>6. Scope' = Scope
  BY <1>1, <1>3, <1>5 DEF Scope
<1>7. TypeOK'
  BY <1>1, <1>2, <1>3, <1>4, <1>5, <1>6 DEF Inv, TypeOK
<1>8. Jobs'
  BY <1>1, <1>2, <1>3, <1>4, <1>5, <1>6 DEF Inv, Jobs
<1>9. Copies'
  BY <1>1, <1>2, <1>3 DEF Inv, Copies
<1>10. JournalPhase'
  BY <1>1, <1>2, <1>3 DEF Inv, JournalPhase, Ids
<1>11. Progress'
  BY <1>1, <1>2, <1>3, <1>4, <1>5, <1>6 DEF Inv, Progress
<1>12. Committed'
  BY <1>1, <1>2, <1>3, <1>4, <1>5, <1>6 DEF Inv, Committed, Settled
<1>13. NothingDerived'
  BY <1>1, <1>2, <1>3, <1>4, <1>5, <1>6 DEF Inv, NothingDerived, Kept
<1>14. Found'
  BY <1>1, <1>2, <1>3, <1>4, <1>5, <1>6 DEF Inv, Found, Kept
<1>15. JournalIsOurs'
  BY <1>1, <1>2, <1>3, <1>4, <1>5, <1>6 DEF Inv, JournalIsOurs, Kept, NoJournal
<1>16. AnchorsGone'
  BY <1>1, <1>2, <1>3, <1>4, <1>5, <1>6 DEF Inv, AnchorsGone, Kept
<1>17. AnchorsKept'
  BY <1>1, <1>2, <1>3, <1>4, <1>5, <1>6 DEF Inv, AnchorsKept, Kept
<1>18. Stuck'
  BY <1>1, <1>2, <1>3, <1>4, <1>5, <1>6 DEF Inv, Stuck, Kept
<1> QED
  BY <1>7, <1>8, <1>9, <1>10, <1>11, <1>12, <1>13, <1>14, <1>15, <1>16, <1>17,
     <1>18 DEF Inv

\* Sweep: a run takes up a document that is not done.
LEMMA SweepStep == ASSUME Inv, Sweep PROVE Inv'
<1>1. /\ mem.row # NoRow /\ mem.row.status \in Active /\ job = "idle" /\ pc = "none"
      /\ jobs < MaxJobs /\ jobs' = jobs + 1 /\ job' = "run" /\ pc' = "parse"
      /\ WriteRow([mem.row EXCEPT !.status = "pending"])
      /\ doc' = [mem.row EXCEPT !.status = "pending"]
      /\ UNCHANGED <<plan, refused, amiss>>
  BY DEF Sweep, Start, Inv, Jobs
<1>2. mem.row \in Row
  BY <1>1 DEF Inv, TypeOK, Stores
<1> DEFINE r == [mem.row EXCEPT !.status = "pending"]
<1>3. /\ r \in Row /\ r.status = "pending" /\ r.chunks = mem.row.chunks
      /\ r.mark = mem.row.mark /\ r.journal = mem.row.journal
  BY <1>2 DEF Row, Active
<1>4. doc' = r
  BY <1>1
<1> HIDE DEF r
<1>5. r # NoRow
  BY <1>3, NoneAssumption
<1>6. /\ mem' \in Stores /\ mem'.row = r /\ mem'.graph = mem.graph
      /\ mem'.chunks = mem.chunks /\ mem'.anchors = mem.anchors
      /\ disk' \in Stores /\ disk'.row = r /\ disk'.graph = disk.graph
      /\ disk'.chunks = disk.chunks /\ disk'.anchors = disk.anchors
  BY <1>1, <1>3, RowWritten DEF Inv, TypeOK, r
<1>7. Scope = mem.row.chunks /\ Scope' = Scope
  BY <1>1, <1>3, <1>4, <1>6 DEF Scope, Staged
<1>8. TypeOK'
  BY <1>1, <1>2, <1>3, <1>4, <1>5, <1>6, <1>7, BoundAssumption DEF Inv, TypeOK
<1>9. Jobs'
  BY <1>1, <1>2, <1>3, <1>4, <1>5, <1>6, <1>7 DEF Inv, Jobs, Purging, Staged,
     Active
<1>10. Copies'
  BY <1>1, <1>2, <1>3, <1>4, <1>5, <1>6, <1>7 DEF Inv, Copies, Purging, Staged
<1>11. JournalPhase'
  BY <1>1, <1>2, <1>3 DEF Inv, JournalPhase, Ids
<1>12. Progress'
  BY <1>1, <1>2, <1>3 DEF Inv, Progress, Staged
<1>13. Committed'
  BY <1>1, <1>2, <1>3, <1>4, <1>5, <1>6, <1>7 DEF Inv, Committed, Settled
<1>14. NothingDerived'
  BY <1>1, <1>2, <1>3, <1>4, <1>5, <1>6, <1>7 DEF Inv, NothingDerived, Kept
<1>15. Found'
  BY <1>1, <1>2, <1>3, <1>4, <1>5, <1>6, <1>7 DEF Inv, Found, Kept
<1>16. JournalIsOurs'
  BY <1>1, <1>2, <1>3, <1>4, <1>5, <1>6, <1>7 DEF Inv, JournalIsOurs, Kept,
     Purging, Staged, NoJournal
<1>17. AnchorsGone'
  BY <1>1, <1>2, <1>3, <1>4, <1>5, <1>6, <1>7 DEF Inv, AnchorsGone, Kept
<1>18. AnchorsKept'
  BY <1>1, <1>2, <1>3, <1>4, <1>5, <1>6, <1>7 DEF Inv, AnchorsKept, Kept
<1>19. Stuck'
  BY <1>1, <1>2, <1>3, <1>4, <1>5, <1>6, <1>7 DEF Inv, Stuck, Kept
<1> QED
  BY <1>8, <1>9, <1>10, <1>11, <1>12, <1>13, <1>14, <1>15, <1>16, <1>17, <1>18,
     <1>19 DEF Inv

\* Parse: the transition to PARSING.
LEMMA ParseStep == ASSUME Inv, Parse PROVE Inv'
<1>1. /\ pc = "parse" /\ pc' = "analyze" /\ job = "run"
      /\ WriteRow(Transition("parsing", {}))
      /\ UNCHANGED <<job, doc, plan, jobs, refused, amiss>>
  BY DEF Parse, Goto, Inv, TypeOK, Jobs, Purging
<1>2. doc \in Row /\ mem.row # NoRow
  BY <1>1 DEF Inv, TypeOK, Jobs
<1> DEFINE r == Transition("parsing", {})
<1>3. /\ r \in Row /\ r.status = "parsing" /\ r.chunks = {}
      /\ r.mark = doc.mark /\ r.journal = doc.journal
  BY <1>2, TransitionTyped DEF Active
<1> HIDE DEF r
<1>4. r # NoRow
  BY <1>3, NoneAssumption
<1>5. /\ mem' \in Stores /\ mem'.row = r /\ mem'.graph = mem.graph
      /\ mem'.chunks = mem.chunks /\ mem'.anchors = mem.anchors
      /\ disk' \in Stores /\ disk'.row = r /\ disk'.graph = disk.graph
      /\ disk'.chunks = disk.chunks /\ disk'.anchors = disk.anchors
  BY <1>1, <1>3, RowWritten DEF Inv, TypeOK, r
<1>6. Scope' = Scope
  BY <1>1 DEF Scope, Staged
<1>7. mem.row.mark = doc.mark /\ mem.row.journal = doc.journal
  BY <1>1 DEF Inv, Jobs, Copies
<1>8. TypeOK'
  BY <1>1, <1>2, <1>3, <1>4, <1>5, <1>6, <1>7 DEF Inv, TypeOK
<1>9. Jobs'
  BY <1>1, <1>2, <1>3, <1>4, <1>5, <1>6, <1>7 DEF Inv, Jobs, Purging, Staged,
     Active
<1>10. Copies'
  BY <1>1, <1>2, <1>3, <1>4, <1>5, <1>6, <1>7 DEF Inv, Copies, Purging, Staged
<1>11. JournalPhase'
  BY <1>1, <1>2, <1>3 DEF Inv, JournalPhase, Ids
<1>12. Progress'
  BY <1>1, <1>2, <1>3 DEF Inv, Progress, Staged
<1>13. Committed'
  BY <1>1, <1>2, <1>3, <1>4, <1>5, <1>6, <1>7 DEF Inv, Committed, Settled
<1>14. NothingDerived'
  BY <1>1, <1>2, <1>3, <1>4, <1>5, <1>6, <1>7 DEF Inv, NothingDerived, Kept
<1>15. Found'
  BY <1>1, <1>2, <1>3, <1>4, <1>5, <1>6, <1>7 DEF Inv, Found, Kept
<1>16. JournalIsOurs'
  BY <1>1, <1>2, <1>3, <1>4, <1>5, <1>6, <1>7 DEF Inv, JournalIsOurs, Kept,
     Purging, Staged, NoJournal
<1>17. AnchorsGone'
  BY <1>1, <1>2, <1>3, <1>4, <1>5, <1>6, <1>7 DEF Inv, AnchorsGone, Kept
<1>18. AnchorsKept'
  BY <1>1, <1>2, <1>3, <1>4, <1>5, <1>6, <1>7 DEF Inv, AnchorsKept, Kept
<1>19. Stuck'
  BY <1>1, <1>2, <1>3, <1>4, <1>5, <1>6, <1>7 DEF Inv, Stuck, Kept
<1> QED
  BY <1>8, <1>9, <1>10, <1>11, <1>12, <1>13, <1>14, <1>15, <1>16, <1>17, <1>18,
     <1>19 DEF Inv

\* Analyze: the transition to ANALYZING.
LEMMA AnalyzeStep == ASSUME Inv, Analyze PROVE Inv'
<1>1. /\ pc = "analyze" /\ pc' = "resolve" /\ job = "run"
      /\ WriteRow(Transition("analyzing", {}))
      /\ UNCHANGED <<job, doc, plan, jobs, refused, amiss>>
  BY DEF Analyze, Goto, Inv, TypeOK, Jobs, Purging
<1>2. doc \in Row /\ mem.row # NoRow
  BY <1>1 DEF Inv, TypeOK, Jobs
<1> DEFINE r == Transition("analyzing", {})
<1>3. /\ r \in Row /\ r.status = "analyzing" /\ r.chunks = {}
      /\ r.mark = doc.mark /\ r.journal = doc.journal
  BY <1>2, TransitionTyped DEF Active
<1> HIDE DEF r
<1>4. r # NoRow
  BY <1>3, NoneAssumption
<1>5. /\ mem' \in Stores /\ mem'.row = r /\ mem'.graph = mem.graph
      /\ mem'.chunks = mem.chunks /\ mem'.anchors = mem.anchors
      /\ disk' \in Stores /\ disk'.row = r /\ disk'.graph = disk.graph
      /\ disk'.chunks = disk.chunks /\ disk'.anchors = disk.anchors
  BY <1>1, <1>3, RowWritten DEF Inv, TypeOK, r
<1>6. Scope' = Scope
  BY <1>1 DEF Scope, Staged
<1>7. mem.row.mark = doc.mark /\ mem.row.journal = doc.journal
  BY <1>1 DEF Inv, Jobs, Copies
<1>8. TypeOK'
  BY <1>1, <1>2, <1>3, <1>4, <1>5, <1>6, <1>7 DEF Inv, TypeOK, Purging, Staged
<1>9. Jobs'
  BY <1>1, <1>2, <1>3, <1>4, <1>5, <1>6, <1>7 DEF Inv, Jobs, Purging, Staged,
     Active
<1>10. Copies'
  BY <1>1, <1>2, <1>3, <1>4, <1>5, <1>6, <1>7 DEF Inv, Copies, Purging, Staged
<1>11. JournalPhase'
  BY <1>1, <1>2, <1>3 DEF Inv, JournalPhase, Ids
<1>12. Progress'
  BY <1>1, <1>2, <1>3 DEF Inv, Progress, Staged
<1>13. Committed'
  BY <1>1, <1>2, <1>3, <1>4, <1>5, <1>6, <1>7 DEF Inv, Committed, Settled
<1>14. NothingDerived'
  BY <1>1, <1>2, <1>3, <1>4, <1>5, <1>6, <1>7 DEF Inv, NothingDerived, Kept
<1>15. Found'
  BY <1>1, <1>2, <1>3, <1>4, <1>5, <1>6, <1>7 DEF Inv, Found, Kept
<1>16. JournalIsOurs'
  BY <1>1, <1>2, <1>3, <1>4, <1>5, <1>6, <1>7 DEF Inv, JournalIsOurs, Kept,
     Purging, Staged, NoJournal
<1>17. AnchorsGone'
  BY <1>1, <1>2, <1>3, <1>4, <1>5, <1>6, <1>7 DEF Inv, AnchorsGone, Kept
<1>18. AnchorsKept'
  BY <1>1, <1>2, <1>3, <1>4, <1>5, <1>6, <1>7 DEF Inv, AnchorsKept, Kept
<1>19. Stuck'
  BY <1>1, <1>2, <1>3, <1>4, <1>5, <1>6, <1>7 DEF Inv, Stuck, Kept
<1> QED
  BY <1>8, <1>9, <1>10, <1>11, <1>12, <1>13, <1>14, <1>15, <1>16, <1>17, <1>18,
     <1>19 DEF Inv

\* StageFails: an error before the process stage.
LEMMA StageFailsStep == ASSUME Inv, StageFails PROVE Inv'
<1>1. /\ pc \in {"parse", "analyze"} /\ job = "run"
      /\ WriteRow(Transition("failed", {}))
      /\ job' = "idle" /\ pc' = "none" /\ doc' = NoRow
      /\ amiss' = amiss \cup Noted("forgot", doc.chunks # {})
      /\ UNCHANGED <<plan, jobs, refused>>
  BY DEF StageFails, Leave, Inv, TypeOK, Jobs, Purging
<1>2. doc \in Row /\ mem.row # NoRow
  BY <1>1 DEF Inv, TypeOK, Jobs
<1> DEFINE r == Transition("failed", {})
<1>3. /\ r \in Row /\ r.status = "failed" /\ r.chunks = {}
      /\ r.mark = doc.mark /\ r.journal = doc.journal
  BY <1>2, TransitionTyped DEF Active
<1> HIDE DEF r
<1>4. r # NoRow
  BY <1>3, NoneAssumption
<1>5. /\ mem' \in Stores /\ mem'.row = r /\ mem'.graph = mem.graph
      /\ mem'.chunks = mem.chunks /\ mem'.anchors = mem.anchors
      /\ disk' \in Stores /\ disk'.row = r /\ disk'.graph = disk.graph
      /\ disk'.chunks = disk.chunks /\ disk'.anchors = disk.anchors
  BY <1>1, <1>3, RowWritten DEF Inv, TypeOK, r
<1>6. mem.row.mark = doc.mark /\ mem.row.journal = doc.journal
  BY <1>1 DEF Inv, Jobs, Copies
<1>7. /\ Kept' => Kept /\ doc.chunks = {}
      /\ "bare" \in amiss' <=> "bare" \in amiss
      /\ amiss' \subseteq {"forgot", "clobbered", "carried", "bare"}
  BY <1>1 DEF Kept, Noted, Inv, TypeOK
<1>8. Kept' => Scope = {} /\ Scope' = {}
  BY <1>1, <1>3, <1>5, <1>7 DEF Scope, Staged
<1>9. TypeOK'
  BY <1>1, <1>2, <1>3, <1>4, <1>5, <1>6, <1>7, <1>8 DEF Inv, TypeOK
<1>10. Jobs'
  BY <1>1, <1>2, <1>3, <1>4, <1>5, <1>6, <1>7, <1>8 DEF Inv, Jobs
<1>11. Copies'
  BY <1>1, <1>2, <1>3, <1>4 DEF Inv, Copies
<1>12. JournalPhase'
  BY <1>1, <1>2, <1>3, <1>4 DEF Inv, JournalPhase, Ids
<1>13. Progress'
  BY <1>1, <1>2, <1>3, <1>4 DEF Inv, Progress, Staged
<1>14. Committed'
  BY <1>1, <1>2, <1>3, <1>4, <1>5, <1>6, <1>7, <1>8 DEF Inv, Committed, Settled
<1>15. NothingDerived'
  BY <1>1, <1>2, <1>3, <1>4, <1>5, <1>6, <1>7, <1>8 DEF Inv, NothingDerived,
     Kept
<1>16. Found'
  BY <1>5, <1>6, <1>7, <1>8 DEF Inv, Found, Kept
<1>17. JournalIsOurs'
  BY <1>1, <1>2, <1>3, <1>4, <1>5, <1>6, <1>7, <1>8 DEF Inv, JournalIsOurs,
     Kept, Purging, Staged, NoJournal, None, Prepared, DerivedCommitted,
     AnchorsPending, Completed
<1>18. AnchorsGone'
  BY <1>1, <1>2, <1>3, <1>4, <1>5, <1>6, <1>7, <1>8 DEF Inv, AnchorsGone, Kept
<1>19. AnchorsKept'
  BY <1>5, <1>6, <1>7, <1>8 DEF Inv, AnchorsKept, Kept
<1>20. Stuck'
  BY <1>1, <1>2, <1>3, <1>4, <1>5, <1>6, <1>7, <1>8 DEF Inv, Stuck, Kept
<1> QED
  BY <1>9, <1>10, <1>11, <1>12, <1>13, <1>14, <1>15, <1>16, <1>17, <1>18,
     <1>19, <1>20 DEF Inv

\* Delete: a deletion begins.
LEMMA DeleteStep == ASSUME Inv, Delete PROVE Inv'
<1>1. /\ mem.row # NoRow /\ job = "idle" /\ pc = "none"
      /\ jobs < MaxJobs /\ jobs' = jobs + 1 /\ job' = "delete" /\ pc' = "resolve"
      /\ UNCHANGED <<mem, disk, doc, plan, refused, amiss>>
  BY DEF Delete, Start, Inv, Jobs
<1>2. Scope' = Scope
  BY <1>1 DEF Scope
<1>3. TypeOK'
  BY <1>1, <1>2, BoundAssumption DEF Inv, TypeOK, Purging
<1>4. Jobs'
  BY <1>1, <1>2 DEF Inv, Jobs, Purging, Staged, Active
<1>5. Copies'
  BY <1>1, <1>2 DEF Inv, Copies
<1>6. JournalPhase'
  BY <1>1, <1>2 DEF Inv, JournalPhase, Ids
<1>7. Progress'
  BY <1>1, <1>2 DEF Inv, Progress, Staged
<1>8. Committed'
  BY <1>1, <1>2 DEF Inv, Committed, Settled
<1>9. NothingDerived'
  BY <1>1, <1>2 DEF Inv, NothingDerived, Kept
<1>10. Found'
  BY <1>1, <1>2 DEF Inv, Found, Kept
<1>11. JournalIsOurs'
  BY <1>1, <1>2 DEF Inv, JournalIsOurs, Kept, Purging, Staged, NoJournal
<1>12. AnchorsGone'
  BY <1>1, <1>2 DEF Inv, AnchorsGone, Kept
<1>13. AnchorsKept'
  BY <1>1, <1>2 DEF Inv, AnchorsKept, Kept
<1>14. Stuck'
  BY <1>1, <1>2 DEF Inv, Stuck, Kept
<1> QED
  BY <1>3, <1>4, <1>5, <1>6, <1>7, <1>8, <1>9, <1>10, <1>11, <1>12, <1>13,
     <1>14 DEF Inv

\* NothingToPurge: a run of a document that has no chunks.
LEMMA NothingToPurgeStep == ASSUME Inv, NothingToPurge PROVE Inv'
<1>1. /\ pc = "resolve" /\ pc' = "chunk" /\ job = "run" /\ doc.chunks = {} /\ doc \in Row
      /\ UNCHANGED <<mem, disk, job, doc, plan, jobs, refused, amiss>>
  BY DEF NothingToPurge, Goto, Inv, TypeOK, Jobs
<1>2. /\ doc.journal \in [op : SUBSET Chunk, phase : 0 .. 4]
      /\ mem.row.mark = doc.mark /\ mem.row.journal = doc.journal /\ mem.row.chunks = {}
  BY <1>1, RowTyped DEF Inv, Jobs, Copies, Purging
<1>3. Scope = {} /\ Scope' = {}
  BY <1>1 DEF Scope, Staged
<1>4. TypeOK'
  BY <1>1 DEF Inv, TypeOK
<1>5. Jobs'
  BY <1>1 DEF Inv, Jobs
<1>6. Copies'
  BY <1>1 DEF Inv, Copies, Purging, Staged
<1>7. JournalPhase'
  BY <1>1 DEF Inv, JournalPhase, Ids
<1>8. Progress'
  BY <1>1 DEF Inv, Progress, Staged
<1>9. Committed'
  BY <1>1 DEF Inv, Committed, Settled, Jobs, Active
<1>10. NothingDerived'
  BY <1>1, <1>2, <1>3 DEF Inv, NothingDerived, Kept, Found
<1>11. Found'
  BY <1>1, <1>2, <1>3 DEF Inv, Found, Kept
<1>12. JournalIsOurs'
  BY <1>1, <1>2, <1>3 DEF Inv, JournalIsOurs, Kept, Purging, Staged, NoJournal
<1>13. AnchorsGone'
  BY <1>1, <1>2, <1>3 DEF Inv, AnchorsGone, Kept
<1>14. AnchorsKept'
  BY <1>2, <1>3 DEF Inv, AnchorsKept, Kept
<1>15. Stuck'
  BY <1>1, <1>2, <1>3 DEF Inv, Stuck, Kept
<1> QED
  BY <1>4, <1>5, <1>6, <1>7, <1>8, <1>9, <1>10, <1>11, <1>12, <1>13, <1>14,
     <1>15 DEF Inv

\* Resolve: the purge begins, or goes on where its journal says.
LEMMA ResolveStep == ASSUME Inv, Resolve PROVE Inv'
<1>1. /\ pc = "resolve" /\ (job = "run" => doc.chunks # {}) /\ ~ Conflict /\ Proven
      /\ mem.row # NoRow /\ disk.row = mem.row /\ mem \in Stores /\ disk \in Stores
      /\ pc' = CASE Phase <= Prepared -> "derive"
                 [] Phase = DerivedCommitted -> "chunks"
                 [] Phase = AnchorsPending -> "anchors"
                 [] Phase = Completed -> "purged"
      /\ job \in {"run", "delete"}
      /\ UNCHANGED <<job, doc, plan, jobs, refused, amiss>>
  BY DEF Resolve, Goto, Inv, TypeOK, Jobs
<1>2. /\ mem.row \in Row /\ (job = "run" => doc \in Row) /\ Ids \subseteq Chunk
      /\ mem.row.journal \in [op : SUBSET Chunk, phase : 0 .. 4]
  BY <1>1, RowTyped DEF Inv, TypeOK, Jobs, Stores, Ids
<1>3. /\ mem' \in Stores /\ mem'.row \in Row /\ disk' \in Stores /\ disk'.row = mem'.row
      /\ mem'.row.status = mem.row.status /\ mem'.row.chunks = mem.row.chunks
      /\ mem'.row.mark = mem.row.mark
      /\ mem'.chunks = mem.chunks /\ mem'.anchors = mem.anchors /\ mem'.graph = mem.graph
      /\ disk'.chunks = disk.chunks /\ disk'.anchors = disk.anchors /\ disk'.graph = disk.graph
      /\ mem'.row.journal = [op |-> Ids, phase |-> IF Phase = None THEN Prepared ELSE Phase]
<2>1. CASE Phase = None
  <3>1. mem' = Journaled(mem, 1) /\ disk' = Journaled(disk, 1)
    BY <2>1 DEF Resolve, Prepared
  <3>2. disk.row \in Row /\ 1 \in 0 .. 4
    BY <1>1, <1>2
  <3>3. /\ mem' \in Stores /\ mem'.row \in Row
        /\ mem'.row.journal = [op |-> Ids, phase |-> 1]
        /\ mem'.row.status = mem.row.status /\ mem'.row.chunks = mem.row.chunks
        /\ mem'.row.mark = mem.row.mark
        /\ mem'.chunks = mem.chunks /\ mem'.anchors = mem.anchors
        /\ mem'.graph = mem.graph
    BY <1>1, <1>2, <3>1, <3>2, JournalWritten
  <3>4. /\ disk' \in Stores /\ disk'.chunks = disk.chunks
        /\ disk'.anchors = disk.anchors /\ disk'.graph = disk.graph
    BY <1>1, <1>2, <3>1, <3>2, JournalWritten
  <3>5. disk'.row = mem'.row
    BY <1>1, <3>1 DEF Journaled, Stores
  <3> QED
    BY <2>1, <3>3, <3>4, <3>5 DEF Prepared
<2>2. CASE Phase # None
  BY <1>1, <1>2, <2>2 DEF Resolve, Phase
<2> QED
  BY <2>1, <2>2
<1>4. /\ Phase \in 0 .. 4
      /\ pc' \in {"derive", "chunks", "anchors", "purged"}
      /\ pc' = "derive" => Phase <= 1
      /\ pc' = "chunks" => Phase = 2
      /\ pc' = "anchors" => Phase = 3
      /\ pc' = "purged" => Phase = 4
  BY <1>1, <1>2 DEF Phase, None, Prepared, DerivedCommitted, AnchorsPending,
     Completed
<1>5. /\ mem'.row # NoRow /\ mem'.row.journal # NoJournal
      /\ mem'.row.journal.phase \in 1 .. 4 /\ mem'.row.journal.op = Ids
  BY <1>3, <1>4, NoneAssumption DEF NoJournal, None, Prepared
<1>6. Scope = Ids /\ Scope' = Ids /\ Ids' = Ids
  BY <1>1, <1>3, <1>4 DEF Scope, Ids, Staged
<1>7. Kept => mem'.row.journal.phase = IF mem.row.journal.phase = 0 THEN 1 ELSE mem.row.journal.phase
  BY <1>1, <1>2, <1>3, <1>6 DEF Inv, JournalIsOurs, Phase, None, Prepared
<1>8. TypeOK'
  BY <1>1, <1>3, <1>4 DEF Inv, TypeOK, Purging
<1>9. Jobs'
  BY <1>1, <1>2, <1>3, <1>4, <1>5, <1>6, <1>7 DEF Inv, Jobs, Purging, Staged,
     Active
<1>10. Copies'
  BY <1>1, <1>2, <1>3, <1>4, <1>5, <1>6, <1>7 DEF Inv, Copies, Purging, Staged
<1>11. JournalPhase'
  BY <1>1, <1>2, <1>3, <1>4, <1>5, <1>6, <1>7 DEF Inv, JournalPhase, Ids, None,
     Prepared, DerivedCommitted, AnchorsPending, Completed
<1>12. Progress'
  BY <1>1, <1>2, <1>3, <1>4, <1>5, <1>6, <1>7 DEF Inv, Progress, Staged
<1>13. Committed'
  BY <1>1, <1>2, <1>3, <1>4, <1>5, <1>6, <1>7 DEF Inv, Committed, Settled
<1>14. NothingDerived'
  BY <1>1, <1>2, <1>3, <1>4, <1>5, <1>6, <1>7 DEF Inv, NothingDerived, Kept,
     None, Prepared, DerivedCommitted, AnchorsPending, Completed
<1>15. Found'
  BY <1>1, <1>2, <1>3, <1>4, <1>5, <1>6, <1>7 DEF Inv, Found, Kept
<1>16. JournalIsOurs'
  BY <1>1, <1>2, <1>3, <1>4, <1>5, <1>6, <1>7 DEF Inv, JournalIsOurs, Kept,
     Purging, Staged, NoJournal, None, Prepared, DerivedCommitted,
     AnchorsPending, Completed
<1>17. AnchorsGone'
  BY <1>1, <1>2, <1>3, <1>4, <1>5, <1>6, <1>7 DEF Inv, AnchorsGone, Kept,
     Staged, None, Prepared, DerivedCommitted, AnchorsPending, Completed
<1>18. AnchorsKept'
  BY <1>1, <1>2, <1>3, <1>4, <1>5, <1>6, <1>7 DEF Inv, AnchorsKept, Kept, None,
     Prepared, DerivedCommitted, AnchorsPending, Completed
<1>19. Stuck'
  BY <1>1, <1>2, <1>6 DEF Inv, Stuck, Proven, Phase, Kept, None, Prepared
<1> QED
  BY <1>8, <1>9, <1>10, <1>11, <1>12, <1>13, <1>14, <1>15, <1>16, <1>17, <1>18,
     <1>19 DEF Inv

\* PurgeContribution: a contribution that the anchors name is deleted.
LEMMA PurgeContributionStep == ASSUME Inv, PurgeContribution PROVE Inv'
<1>1. /\ pc = "derive" /\ mem.row \in Row /\ mem.row # NoRow /\ mem \in Stores
      /\ UNCHANGED <<disk, job, pc, doc, plan, jobs, refused, amiss>>
  BY DEF PurgeContribution, Inv, TypeOK, Jobs, Stores, Purging
<1>2. PICK x \in Candidates : mem' = [mem EXCEPT !.graph = @ \ {x}]
  BY DEF PurgeContribution
<1>3. /\ mem' \in Stores /\ mem'.row = mem.row /\ mem'.graph = mem.graph \ {x}
      /\ mem'.chunks = mem.chunks /\ mem'.anchors = mem.anchors
  BY <1>1, <1>2 DEF Stores
<1>4. Scope' = Scope /\ (mem.graph = {} => mem'.graph = {})
  BY <1>1, <1>3 DEF Scope
<1>5. mem.row.journal # NoJournal
  BY <1>1 DEF Inv, JournalPhase, NoJournal, None, Prepared
<1>6. TypeOK'
  BY <1>1, <1>2, <1>3, <1>4, <1>5 DEF Inv, TypeOK
<1>7. Jobs'
  BY <1>1, <1>2 DEF Inv, Jobs
<1>8. Copies'
  BY <1>1, <1>2 DEF Inv, Copies
<1>9. JournalPhase'
  BY <1>1, <1>2 DEF Inv, JournalPhase, Ids
<1>10. Progress'
  BY <1>1, <1>2 DEF Inv, Progress
<1>11. Committed'
  BY <1>1 DEF Inv, Jobs, Committed, Settled
<1>12. NothingDerived'
  BY <1>1, <1>3, <1>4 DEF Inv, NothingDerived, Kept
<1>13. Found'
  BY <1>1, <1>2, <1>3, <1>4, <1>5 DEF Inv, Found, Kept
<1>14. JournalIsOurs'
  BY <1>1, <1>2, <1>3, <1>4, <1>5 DEF Inv, JournalIsOurs, Kept, NoJournal
<1>15. AnchorsGone'
  BY <1>1, <1>2, <1>3, <1>4, <1>5 DEF Inv, AnchorsGone, Kept
<1>16. AnchorsKept'
  BY <1>1, <1>2, <1>3, <1>4, <1>5 DEF Inv, AnchorsKept, Kept
<1>17. Stuck'
  BY <1>1, <1>2 DEF Inv, Stuck, Kept
<1> QED
  BY <1>6, <1>7, <1>8, <1>9, <1>10, <1>11, <1>12, <1>13, <1>14, <1>15, <1>16,
     <1>17 DEF Inv

\* DerivedDone: the stores are flushed and the phase is written.
LEMMA DerivedDoneStep == ASSUME Inv, DerivedDone PROVE Inv'
<1>1. /\ pc = "derive" /\ pc' = "chunks" /\ mem \in Stores /\ disk \in Stores
      /\ mem.row # NoRow /\ disk.row = mem.row /\ job \in {"run", "delete"}
      /\ mem.row.journal.phase = 1 /\ mem.row.journal.op = Ids
      /\ mem' = Journaled(mem, 2) /\ disk' = Journaled(Flushed(DOMAIN disk), 2)
      /\ UNCHANGED <<job, doc, plan, jobs, refused, amiss>>
  BY DEF DerivedDone, Goto, Inv, TypeOK, Jobs, JournalPhase, Purging, Prepared,
     DerivedCommitted, AnchorsPending, Completed
<1>2. /\ mem.row \in Row /\ Ids \subseteq Chunk /\ 2 \in 0 .. 4
      /\ (job = "run" => mem.row.mark = doc.mark)
  BY <1>1, RowTyped DEF Inv, TypeOK, Jobs, Stores, Ids
<1>3. /\ mem' \in Stores /\ mem'.row \in Row
      /\ mem'.row.journal = [op |-> Ids, phase |-> 2]
      /\ mem'.row.status = mem.row.status /\ mem'.row.chunks = mem.row.chunks
      /\ mem'.row.mark = mem.row.mark
      /\ mem'.chunks = mem.chunks /\ mem'.anchors = mem.anchors /\ mem'.graph = mem.graph
  BY <1>1, <1>2, JournalWritten
<1> DEFINE f == Flushed(DOMAIN disk)
<1>4. /\ f \in Stores /\ f.row = mem.row
      /\ f.chunks = mem.chunks
      /\ f.anchors = mem.anchors
      /\ f.graph = mem.graph
  BY <1>1, Flushing DEF Stores
<1> HIDE DEF f
<1>5. /\ disk' \in Stores /\ disk'.row \in Row
      /\ disk'.chunks = f.chunks /\ disk'.anchors = f.anchors /\ disk'.graph = f.graph
  BY <1>1, <1>2, <1>4, JournalWritten DEF f
<1>6. disk'.row = mem'.row
  BY <1>1, <1>4 DEF f, Journaled, Stores
<1>7. /\ mem'.row # NoRow /\ mem'.row.journal # NoJournal /\ Ids' = Ids
      /\ mem'.row.journal.phase = 2 /\ mem'.row.journal.op = Ids
  BY <1>1, <1>3, NoneAssumption DEF NoJournal, None, Ids
<1>8. Scope = Ids /\ Scope' = Ids
  BY <1>1, <1>3 DEF Scope, Ids, Staged
<1>9. Kept => mem.graph = {}
  BY <1>1, <1>8 DEF DerivedDone, Candidates, Inv, Found, Kept
<1>10. TypeOK'
  BY <1>1, <1>2, <1>3, <1>4, <1>5, <1>6, <1>7, <1>8, <1>9 DEF Inv, TypeOK,
     Purging, Staged
<1>11. Jobs'
  BY <1>1, <1>2, <1>3, <1>4, <1>5, <1>6, <1>7, <1>8, <1>9 DEF Inv, Jobs,
     Purging, Staged, Active
<1>12. Copies'
  BY <1>1, <1>2, <1>3, <1>4 DEF Inv, Copies, Purging, Staged
<1>13. JournalPhase'
  BY <1>1, <1>2, <1>3, <1>4 DEF Inv, JournalPhase, Ids, None, Prepared,
     DerivedCommitted, AnchorsPending, Completed
<1>14. Progress'
  BY <1>1, <1>2, <1>3, <1>4 DEF Inv, Progress, Staged
<1>15. Committed'
  BY <1>5, <1>6, <1>7, <1>8, <1>9 DEF Inv, Committed, Settled
<1>16. NothingDerived'
  BY <1>1, <1>2, <1>3, <1>4, <1>5, <1>6, <1>7, <1>8, <1>9 DEF Inv,
     NothingDerived, Kept
<1>17. Found'
  BY <1>1, <1>2, <1>3, <1>4, <1>5, <1>6, <1>7, <1>8, <1>9 DEF Inv, Found, Kept
<1>18. JournalIsOurs'
  BY <1>1, <1>2, <1>3, <1>4, <1>5, <1>6, <1>7, <1>8, <1>9 DEF Inv,
     JournalIsOurs, Kept, Purging, Staged, NoJournal
<1>19. AnchorsGone'
  BY <1>1, <1>2, <1>3, <1>4, <1>5, <1>6, <1>7, <1>8, <1>9 DEF Inv, AnchorsGone,
     Kept, Staged, None, Prepared, DerivedCommitted, AnchorsPending, Completed
<1>20. AnchorsKept'
  BY <1>1, <1>2, <1>3, <1>4, <1>5, <1>6, <1>7, <1>8, <1>9 DEF Inv, AnchorsKept,
     Kept, None, Prepared, DerivedCommitted, AnchorsPending, Completed
<1>21. Stuck'
  BY <1>1, <1>2, <1>3, <1>4 DEF Inv, Stuck, Kept
<1> QED
  BY <1>10, <1>11, <1>12, <1>13, <1>14, <1>15, <1>16, <1>17, <1>18, <1>19,
     <1>20, <1>21 DEF Inv

\* PurgeChunks: the chunks go in memory.
LEMMA PurgeChunksStep == ASSUME Inv, PurgeChunks PROVE Inv'
<1>1. /\ pc = "chunks" /\ pc' = "chunks_out" /\ mem \in Stores /\ mem.row # NoRow /\ mem.row \in Row
      /\ mem' = [mem EXCEPT !.chunks = @ \ Ids]
      /\ mem.row.journal.phase = 2 /\ job \in {"run", "delete"}
      /\ UNCHANGED <<disk, job, doc, plan, jobs, refused, amiss>>
  BY DEF PurgeChunks, Goto, Inv, TypeOK, Jobs, Stores, Purging, JournalPhase,
     DerivedCommitted, AnchorsPending
<1>2. /\ mem' \in Stores /\ mem'.row = mem.row /\ mem'.graph = mem.graph
      /\ mem'.anchors = mem.anchors
  BY <1>1 DEF Stores
<1>3. Scope' = Scope /\ Ids' = Ids
  BY <1>1, <1>2 DEF Scope, Ids, Staged
<1>4. mem.row.journal # NoJournal
  BY <1>1 DEF NoJournal, None
<1>5. TypeOK'
  BY <1>1, <1>2 DEF Inv, TypeOK, Purging, Staged
<1>6. Jobs'
  BY <1>1, <1>2 DEF Inv, Jobs, Purging, Staged, Active
<1>7. Copies'
  BY <1>1, <1>2 DEF Inv, Copies, Purging, Staged
<1>8. JournalPhase'
  BY <1>1, <1>2 DEF Inv, JournalPhase, Ids
<1>9. Progress'
  BY <1>1, <1>2 DEF Inv, Progress, Staged
<1>10. Committed'
  BY <1>1, <1>2 DEF Inv, Committed, Settled
<1>11. NothingDerived'
  BY <1>1, <1>2 DEF Inv, NothingDerived, Kept
<1>12. Found'
  BY <1>1, <1>2, <1>3, <1>4 DEF Inv, Found, Kept
<1>13. JournalIsOurs'
  BY <1>1, <1>2, <1>3, <1>4 DEF Inv, JournalIsOurs, Kept, Purging, Staged,
     NoJournal
<1>14. AnchorsGone'
  BY <1>1, <1>2, <1>3, <1>4 DEF Inv, AnchorsGone, Kept, Staged
<1>15. AnchorsKept'
  BY <1>1, <1>2, <1>3, <1>4 DEF Inv, AnchorsKept, Kept
<1>16. Stuck'
  BY <1>1, <1>2 DEF Inv, Stuck, Kept
<1> QED
  BY <1>5, <1>6, <1>7, <1>8, <1>9, <1>10, <1>11, <1>12, <1>13, <1>14, <1>15,
     <1>16 DEF Inv

\* ChunksDone: the chunks are flushed and the phase is written.
LEMMA ChunksDoneStep == ASSUME Inv, ChunksDone PROVE Inv'
<1>1. /\ pc = "chunks_out" /\ pc' = "anchors" /\ mem \in Stores /\ disk \in Stores
      /\ mem.row # NoRow /\ disk.row = mem.row /\ job \in {"run", "delete"}
      /\ mem.row.journal.phase = 2 /\ mem.row.journal.op = Ids
      /\ mem' = Journaled(mem, 3) /\ disk' = Journaled(Flushed({"chunks"}), 3)
      /\ UNCHANGED <<job, doc, plan, jobs, refused, amiss>>
  BY DEF ChunksDone, Goto, Inv, TypeOK, Jobs, JournalPhase, Purging, Prepared,
     DerivedCommitted, AnchorsPending, Completed
<1>2. /\ mem.row \in Row /\ Ids \subseteq Chunk /\ 3 \in 0 .. 4
      /\ (job = "run" => mem.row.mark = doc.mark)
  BY <1>1, RowTyped DEF Inv, TypeOK, Jobs, Stores, Ids
<1>3. /\ mem' \in Stores /\ mem'.row \in Row
      /\ mem'.row.journal = [op |-> Ids, phase |-> 3]
      /\ mem'.row.status = mem.row.status /\ mem'.row.chunks = mem.row.chunks
      /\ mem'.row.mark = mem.row.mark
      /\ mem'.chunks = mem.chunks /\ mem'.anchors = mem.anchors /\ mem'.graph = mem.graph
  BY <1>1, <1>2, JournalWritten
<1> DEFINE f == Flushed({"chunks"})
<1>4. /\ f \in Stores /\ f.row = mem.row
      /\ f.chunks = mem.chunks
      /\ f.anchors = disk.anchors
      /\ f.graph = disk.graph
  BY <1>1, Flushing
<1> HIDE DEF f
<1>5. /\ disk' \in Stores /\ disk'.row \in Row
      /\ disk'.chunks = f.chunks /\ disk'.anchors = f.anchors /\ disk'.graph = f.graph
  BY <1>1, <1>2, <1>4, JournalWritten DEF f
<1>6. disk'.row = mem'.row
  BY <1>1, <1>4 DEF f, Journaled, Stores
<1>7. /\ mem'.row # NoRow /\ mem'.row.journal # NoJournal /\ Ids' = Ids
      /\ mem'.row.journal.phase = 3 /\ mem'.row.journal.op = Ids
  BY <1>1, <1>3, NoneAssumption DEF NoJournal, None, Ids
<1>8. Scope = Ids /\ Scope' = Ids
  BY <1>1, <1>3 DEF Scope, Ids, Staged
<1>9. TypeOK'
  BY <1>1, <1>2, <1>3, <1>4, <1>5, <1>6, <1>7, <1>8 DEF Inv, TypeOK, Purging,
     Staged
<1>10. Jobs'
  BY <1>1, <1>2, <1>3, <1>4, <1>5, <1>6, <1>7, <1>8 DEF Inv, Jobs, Purging,
     Staged, Active
<1>11. Copies'
  BY <1>1, <1>2, <1>3, <1>4 DEF Inv, Copies, Purging, Staged
<1>12. JournalPhase'
  BY <1>1, <1>2, <1>3, <1>4 DEF Inv, JournalPhase, Ids, None, Prepared,
     DerivedCommitted, AnchorsPending, Completed
<1>13. Progress'
  BY <1>1, <1>2, <1>3, <1>4 DEF Inv, Progress, Staged
<1>14. Committed'
  BY <1>5, <1>6, <1>7, <1>8 DEF Inv, Committed, Settled
<1>15. NothingDerived'
  BY <1>1, <1>2, <1>3, <1>4, <1>5, <1>6, <1>7, <1>8 DEF Inv, NothingDerived,
     Kept, None, Prepared, DerivedCommitted, AnchorsPending, Completed
<1>16. Found'
  BY <1>1, <1>2, <1>3, <1>4, <1>5, <1>6, <1>7, <1>8 DEF Inv, Found, Kept
<1>17. JournalIsOurs'
  BY <1>1, <1>2, <1>3, <1>4, <1>5, <1>6, <1>7, <1>8 DEF Inv, JournalIsOurs,
     Kept, Purging, Staged, NoJournal
<1>18. AnchorsGone'
  BY <1>1, <1>2, <1>3, <1>4, <1>5, <1>6, <1>7, <1>8 DEF Inv, AnchorsGone, Kept,
     Staged, None, Prepared, DerivedCommitted, AnchorsPending, Completed
<1>19. AnchorsKept'
  BY <1>1, <1>2, <1>3, <1>4, <1>5, <1>6, <1>7, <1>8 DEF Inv, AnchorsKept, Kept,
     None, Prepared, DerivedCommitted, AnchorsPending, Completed
<1>20. Stuck'
  BY <1>1, <1>2, <1>3, <1>4 DEF Inv, Stuck, Kept
<1> QED
  BY <1>9, <1>10, <1>11, <1>12, <1>13, <1>14, <1>15, <1>16, <1>17, <1>18,
     <1>19, <1>20 DEF Inv

\* PurgeAnchors: the anchors go in memory.
LEMMA PurgeAnchorsStep == ASSUME Inv, PurgeAnchors PROVE Inv'
<1>1. /\ pc = "anchors" /\ pc' = "anchors_out" /\ mem \in Stores /\ mem.row # NoRow /\ mem.row \in Row
      /\ mem' = [mem EXCEPT !.anchors = NoAnchors]
      /\ mem.row.journal.phase = 3 /\ job \in {"run", "delete"}
      /\ UNCHANGED <<disk, job, doc, plan, jobs, refused, amiss>>
  BY DEF PurgeAnchors, Goto, Inv, TypeOK, Jobs, Stores, Purging, JournalPhase,
     DerivedCommitted, AnchorsPending
<1>2. /\ mem' \in Stores /\ mem'.row = mem.row /\ mem'.graph = mem.graph
      /\ mem'.chunks = mem.chunks
      /\ mem'.anchors = NoAnchors
  BY <1>1 DEF Stores
<1>3. Scope' = Scope /\ Ids' = Ids
  BY <1>1, <1>2 DEF Scope, Ids, Staged
<1>4. mem.row.journal # NoJournal
  BY <1>1 DEF NoJournal, None
<1>5. TypeOK'
  BY <1>1, <1>2 DEF Inv, TypeOK, Purging, Staged
<1>6. Jobs'
  BY <1>1, <1>2 DEF Inv, Jobs, Purging, Staged, Active
<1>7. Copies'
  BY <1>1, <1>2 DEF Inv, Copies, Purging, Staged
<1>8. JournalPhase'
  BY <1>1, <1>2 DEF Inv, JournalPhase, Ids
<1>9. Progress'
  BY <1>1, <1>2 DEF Inv, Progress, Staged
<1>10. Committed'
  BY <1>1, <1>2 DEF Inv, Committed, Settled
<1>11. NothingDerived'
  BY <1>1, <1>2 DEF Inv, NothingDerived, Kept
<1>12. Found'
  BY <1>1, <1>2 DEF Inv, Found, Kept, NothingDerived, None, Prepared,
     DerivedCommitted, AnchorsPending, Completed
<1>13. JournalIsOurs'
  BY <1>1, <1>2, <1>3, <1>4 DEF Inv, JournalIsOurs, Kept, Purging, Staged,
     NoJournal
<1>14. AnchorsGone'
  BY <1>1, <1>2, <1>3, <1>4 DEF Inv, AnchorsGone, Kept, Staged, None, Prepared,
     DerivedCommitted, AnchorsPending, Completed
<1>15. AnchorsKept'
  BY <1>1, <1>2 DEF Inv, AnchorsKept, Kept, None, Prepared, DerivedCommitted,
     AnchorsPending, Completed
<1>16. Stuck'
  BY <1>1, <1>2 DEF Inv, Stuck, Kept
<1> QED
  BY <1>5, <1>6, <1>7, <1>8, <1>9, <1>10, <1>11, <1>12, <1>13, <1>14, <1>15,
     <1>16 DEF Inv

\* AnchorsDone: the anchors are flushed and the purge is over.
LEMMA AnchorsDoneStep == ASSUME Inv, AnchorsDone PROVE Inv'
<1>1. /\ pc = "anchors_out" /\ pc' = "purged" /\ mem \in Stores /\ disk \in Stores
      /\ mem.row # NoRow /\ disk.row = mem.row /\ job \in {"run", "delete"}
      /\ mem.row.journal.phase = 3 /\ mem.row.journal.op = Ids
      /\ mem' = Journaled(mem, 4) /\ disk' = Journaled(Flushed({"anchors"}), 4)
      /\ UNCHANGED <<job, doc, plan, jobs, refused, amiss>>
  BY DEF AnchorsDone, Goto, Inv, TypeOK, Jobs, JournalPhase, Purging, Prepared,
     DerivedCommitted, AnchorsPending, Completed
<1>2. /\ mem.row \in Row /\ Ids \subseteq Chunk /\ 4 \in 0 .. 4
      /\ (job = "run" => mem.row.mark = doc.mark)
  BY <1>1, RowTyped DEF Inv, TypeOK, Jobs, Stores, Ids
<1>3. /\ mem' \in Stores /\ mem'.row \in Row
      /\ mem'.row.journal = [op |-> Ids, phase |-> 4]
      /\ mem'.row.status = mem.row.status /\ mem'.row.chunks = mem.row.chunks
      /\ mem'.row.mark = mem.row.mark
      /\ mem'.chunks = mem.chunks /\ mem'.anchors = mem.anchors /\ mem'.graph = mem.graph
  BY <1>1, <1>2, JournalWritten
<1> DEFINE f == Flushed({"anchors"})
<1>4. /\ f \in Stores /\ f.row = mem.row
      /\ f.chunks = disk.chunks
      /\ f.anchors = mem.anchors
      /\ f.graph = disk.graph
  BY <1>1, Flushing
<1> HIDE DEF f
<1>5. /\ disk' \in Stores /\ disk'.row \in Row
      /\ disk'.chunks = f.chunks /\ disk'.anchors = f.anchors /\ disk'.graph = f.graph
  BY <1>1, <1>2, <1>4, JournalWritten DEF f
<1>6. disk'.row = mem'.row
  BY <1>1, <1>4 DEF f, Journaled, Stores
<1>7. /\ mem'.row # NoRow /\ mem'.row.journal # NoJournal /\ Ids' = Ids
      /\ mem'.row.journal.phase = 4 /\ mem'.row.journal.op = Ids
  BY <1>1, <1>3, NoneAssumption DEF NoJournal, None, Ids
<1>8. Scope = Ids /\ Scope' = Ids
  BY <1>1, <1>3 DEF Scope, Ids, Staged
<1>9. TypeOK'
  BY <1>1, <1>2, <1>3, <1>4, <1>5, <1>6, <1>7, <1>8 DEF Inv, TypeOK, Purging,
     Staged
<1>10. Jobs'
  BY <1>1, <1>2, <1>3, <1>4, <1>5, <1>6, <1>7, <1>8 DEF Inv, Jobs, Purging,
     Staged, Active
<1>11. Copies'
  BY <1>1, <1>2, <1>3, <1>4 DEF Inv, Copies, Purging, Staged
<1>12. JournalPhase'
  BY <1>1, <1>2, <1>3, <1>4 DEF Inv, JournalPhase, Ids, None, Prepared,
     DerivedCommitted, AnchorsPending, Completed
<1>13. Progress'
  BY <1>1, <1>2, <1>3, <1>4 DEF Inv, Progress, Staged
<1>14. Committed'
  BY <1>5, <1>6, <1>7, <1>8 DEF Inv, Committed, Settled
<1>15. NothingDerived'
  BY <1>1, <1>2, <1>3, <1>4, <1>5, <1>6, <1>7, <1>8 DEF Inv, NothingDerived,
     Kept, None, Prepared, DerivedCommitted, AnchorsPending, Completed
<1>16. Found'
  BY <1>1, <1>2, <1>3, <1>4, <1>5, <1>6, <1>7, <1>8 DEF Inv, Found, Kept
<1>17. JournalIsOurs'
  BY <1>1, <1>2, <1>3, <1>4, <1>5, <1>6, <1>7, <1>8 DEF Inv, JournalIsOurs,
     Kept, Purging, Staged, NoJournal
<1>18. AnchorsGone'
  BY <1>1, <1>2, <1>3, <1>4, <1>5, <1>6, <1>7, <1>8 DEF Inv, AnchorsGone, Kept,
     Progress
<1>19. AnchorsKept'
  BY <1>1, <1>2, <1>3, <1>4, <1>5, <1>6, <1>7, <1>8 DEF Inv, AnchorsKept, Kept,
     None, Prepared, DerivedCommitted, AnchorsPending, Completed
<1>20. Stuck'
  BY <1>1, <1>2, <1>3, <1>4 DEF Inv, Stuck, Kept
<1> QED
  BY <1>9, <1>10, <1>11, <1>12, <1>13, <1>14, <1>15, <1>16, <1>17, <1>18,
     <1>19, <1>20 DEF Inv

\* RetireJournal: a run retires its journal.
LEMMA RetireJournalStep == ASSUME Inv, RetireJournal PROVE Inv'
<1>1. /\ pc = "purged" /\ pc' = "chunk" /\ job = "run" /\ doc \in Row /\ mem.row \in Row
      /\ mem.row.mark = doc.mark /\ mem.row.journal.phase = 4
      /\ WriteRow([mem.row EXCEPT !.journal = NoJournal, !.chunks = {}])
      /\ doc' = [doc EXCEPT !.chunks = {}]
      /\ UNCHANGED <<job, plan, jobs, refused, amiss>>
  BY DEF RetireJournal, Inv, TypeOK, Jobs, Stores, Purging, JournalPhase,
     Completed
<1> DEFINE r == [mem.row EXCEPT !.journal = NoJournal, !.chunks = {}]
           d == [doc EXCEPT !.chunks = {}]
<1>2. NoJournal \in [op : SUBSET Chunk, phase : None .. Completed]
  BY DEF NoJournal, None, Completed
<1>3. /\ r \in Row /\ r.status = mem.row.status /\ r.chunks = {}
      /\ r.mark = mem.row.mark /\ r.journal = NoJournal
  BY <1>1, <1>2 DEF Row
<1>4. /\ d \in Row /\ d.status = doc.status /\ d.chunks = {}
      /\ d.mark = doc.mark /\ d.journal = doc.journal /\ doc' = d
  BY <1>1 DEF Row
<1> HIDE DEF r, d
<1>5. r # NoRow /\ d # NoRow
  BY <1>3, <1>4, NoneAssumption
<1>6. /\ mem' \in Stores /\ mem'.row = r /\ mem'.graph = mem.graph
      /\ mem'.chunks = mem.chunks /\ mem'.anchors = mem.anchors
      /\ disk' \in Stores /\ disk'.row = r /\ disk'.graph = disk.graph
      /\ disk'.chunks = disk.chunks /\ disk'.anchors = disk.anchors
  BY <1>1, <1>3, RowWritten DEF Inv, TypeOK, r
<1>7. Scope' = {} /\ NoJournal.phase = 0
  BY <1>1, <1>4 DEF Scope, Staged, NoJournal, None
<1>8. TypeOK'
  BY <1>1, <1>2, <1>3, <1>4, <1>5, <1>6, <1>7 DEF Inv, TypeOK, Purging, Staged
<1>9. Jobs'
  BY <1>1, <1>2, <1>3, <1>4, <1>5, <1>6, <1>7 DEF Inv, Jobs
<1>10. Copies'
  BY <1>1, <1>2, <1>3, <1>4, <1>5, <1>6, <1>7 DEF Inv, Copies, Purging, Staged
<1>11. JournalPhase'
  BY <1>1, <1>2, <1>3 DEF Inv, JournalPhase, Ids
<1>12. Progress'
  BY <1>1, <1>2, <1>3 DEF Inv, Progress, Staged
<1>13. Committed'
  BY <1>1, <1>2, <1>3, <1>4, <1>5, <1>6, <1>7 DEF Inv, Committed, Settled,
     Jobs, Active
<1>14. NothingDerived'
  BY <1>1, <1>2, <1>3, <1>4, <1>5, <1>6, <1>7 DEF Inv, NothingDerived, Kept,
     None, Prepared, DerivedCommitted, AnchorsPending, Completed
<1>15. Found'
  BY <1>1, <1>2, <1>3, <1>4, <1>5, <1>6, <1>7 DEF Inv, Found, Kept,
     NothingDerived, None, Prepared, DerivedCommitted, AnchorsPending,
     Completed
<1>16. JournalIsOurs'
  BY <1>1, <1>2, <1>3, <1>4, <1>5, <1>6, <1>7 DEF Inv, JournalIsOurs, Kept,
     Purging, Staged, NoJournal
<1>17. AnchorsGone'
  BY <1>1, <1>2, <1>3, <1>4, <1>5, <1>6, <1>7 DEF Inv, AnchorsGone, Kept, None,
     Prepared, DerivedCommitted, AnchorsPending, Completed
<1>18. AnchorsKept'
  BY <1>4, <1>5, <1>6, <1>7 DEF Inv, AnchorsKept, Kept
<1>19. Stuck'
  BY <1>1, <1>2, <1>3 DEF Inv, Stuck, Kept
<1> QED
  BY <1>8, <1>9, <1>10, <1>11, <1>12, <1>13, <1>14, <1>15, <1>16, <1>17, <1>18,
     <1>19 DEF Inv

\* DeleteRow: a deletion takes the row away, in memory.
LEMMA DeleteRowStep == ASSUME Inv, DeleteRow PROVE Inv'
<1>1. /\ pc = "purged" /\ pc' = "finish" /\ job = "delete" /\ mem \in Stores
      /\ mem.row # NoRow /\ mem.row \in Row /\ disk.row = mem.row
      /\ mem.row.journal = [op |-> mem.row.chunks, phase |-> Completed]
      /\ mem' = [mem EXCEPT !.row = NoRow]
      /\ UNCHANGED <<disk, job, doc, plan, jobs, refused, amiss>>
  BY DEF DeleteRow, Goto, Inv, TypeOK, Jobs, Stores, Purging, JournalPhase, Ids
<1>2. /\ mem' \in Stores /\ mem'.row = NoRow /\ mem'.graph = mem.graph
      /\ mem'.chunks = mem.chunks /\ mem'.anchors = mem.anchors
  BY <1>1 DEF Stores
<1>3. mem.row.journal # NoJournal /\ mem.row.journal.phase = 4
  BY <1>1 DEF NoJournal, None, Completed
<1>4. Kept => /\ mem.graph = {} /\ disk.graph = {}
              /\ mem.anchors = NoAnchors /\ disk.anchors = NoAnchors
  BY <1>1, <1>3 DEF Inv, NothingDerived, AnchorsGone, Prepared, Completed
<1>5. TypeOK'
  BY <1>1, <1>2 DEF Inv, TypeOK
<1>6. Jobs'
  BY <1>1, <1>2 DEF Inv, Jobs
<1>7. Copies'
  BY <1>1, <1>2 DEF Inv, Copies
<1>8. JournalPhase'
  BY <1>1, <1>2 DEF Inv, JournalPhase, Ids
<1>9. Progress'
  BY <1>1, <1>2 DEF Inv, Progress, Staged
<1>10. Committed'
  BY <1>1, <1>2 DEF Inv, Committed, Settled
<1>11. NothingDerived'
  BY <1>1, <1>2, <1>3, <1>4 DEF Inv, NothingDerived, Kept
<1>12. Found'
  BY <1>1, <1>2, <1>3, <1>4 DEF Inv, Found, Kept
<1>13. JournalIsOurs'
  BY <1>1, <1>2 DEF Inv, JournalIsOurs, Kept, Purging, Staged, NoJournal
<1>14. AnchorsGone'
  BY <1>1, <1>2 DEF Inv, AnchorsGone, Kept
<1>15. AnchorsKept'
  BY <1>1, <1>2 DEF Inv, AnchorsKept, Kept
<1>16. Stuck'
  BY <1>1, <1>2 DEF Inv, Stuck, Kept
<1> QED
  BY <1>5, <1>6, <1>7, <1>8, <1>9, <1>10, <1>11, <1>12, <1>13, <1>14, <1>15,
     <1>16 DEF Inv

\* FinishDelete: a deletion flushes the row, or ends without.
LEMMA FinishDeleteStep == ASSUME Inv, FinishDelete PROVE Inv'
<1>1. /\ pc = "finish" /\ pc' = "none" /\ job = "delete" /\ job' = "idle" /\ doc' = NoRow
      /\ mem.row = NoRow /\ mem \in Stores /\ disk \in Stores /\ disk' \in {mem, disk}
      /\ UNCHANGED <<mem, plan, jobs, refused, amiss>>
  BY DEF FinishDelete, Leave, Inv, TypeOK, Jobs, Purging, Staged
<1>2. Kept => /\ mem.graph = {} /\ disk.graph = {}
              /\ mem.anchors = NoAnchors /\ disk.anchors = NoAnchors
  BY <1>1 DEF Inv, NothingDerived, AnchorsGone
<1>3. disk.row # NoRow => disk.row.journal # NoJournal
  BY <1>1 DEF Inv, Jobs, NoJournal, None, Completed
<1>4. TypeOK'
  BY <1>1 DEF Inv, TypeOK
<1>5. Jobs'
  BY <1>1 DEF Inv, Jobs
<1>6. Copies'
  BY <1>1 DEF Inv, Copies
<1>7. JournalPhase'
  BY <1>1 DEF Inv, JournalPhase, Ids
<1>8. Progress'
  BY <1>1 DEF Inv, Progress, Staged
<1>9. Committed'
  BY <1>1 DEF Inv, Committed, Settled
<1>10. NothingDerived'
  BY <1>1 DEF Inv, NothingDerived, Kept
<1>11. Found'
  BY <1>1, <1>2, <1>3 DEF Inv, Found, Kept
<1>12. JournalIsOurs'
  BY <1>1 DEF Inv, JournalIsOurs, Kept, Purging, Staged, NoJournal
<1>13. AnchorsGone'
  BY <1>1 DEF Inv, AnchorsGone, Kept
<1>14. AnchorsKept'
  BY <1>1 DEF Inv, AnchorsKept, Kept
<1>15. Stuck'
  BY <1>1 DEF Inv, Stuck, Kept
<1> QED
  BY <1>4, <1>5, <1>6, <1>7, <1>8, <1>9, <1>10, <1>11, <1>12, <1>13, <1>14,
     <1>15 DEF Inv

\* PurgeFails: a deletion ends in its purge.
LEMMA PurgeFailsStep == ASSUME Inv, PurgeFails PROVE Inv'
<1>1. /\ pc \in Purging /\ pc' = "none" /\ job = "delete" /\ job' = "idle" /\ doc' = NoRow
      /\ mem.row # NoRow /\ mem.row \in Row /\ mem.row.journal.phase \in 0 .. 4
      /\ refused' = (pc = "resolve" /\ (Conflict \/ ~ Proven))
      /\ UNCHANGED <<mem, disk, plan, jobs, amiss>>
  BY RowTyped DEF PurgeFails, Leave, Inv, TypeOK, Stores, Jobs, Purging
<1>2. Scope = Ids /\ Scope' = Scope /\ Ids = mem.row.chunks
  BY <1>1 DEF Scope, Ids, Purging, Staged
<1>3. TypeOK'
  BY <1>1, <1>2 DEF Inv, TypeOK
<1>4. Jobs'
  BY <1>1, <1>2 DEF Inv, Jobs
<1>5. Copies'
  BY <1>1, <1>2 DEF Inv, Copies
<1>6. JournalPhase'
  BY <1>1, <1>2 DEF Inv, JournalPhase, Ids
<1>7. Progress'
  BY <1>1, <1>2 DEF Inv, Progress, Staged
<1>8. Committed'
  BY <1>1, <1>2 DEF Inv, Committed, Settled
<1>9. NothingDerived'
  BY <1>1, <1>2 DEF Inv, NothingDerived, Kept
<1>10. Found'
  BY <1>1, <1>2 DEF Inv, Found, Kept
<1>11. JournalIsOurs'
  BY <1>1, <1>2 DEF Inv, JournalIsOurs, Kept, Purging, Staged, NoJournal
<1>12. AnchorsGone'
  BY <1>1, <1>2 DEF Inv, AnchorsGone, Kept
<1>13. AnchorsKept'
  BY <1>1, <1>2 DEF Inv, AnchorsKept, Kept
<1>14. Stuck'
  BY <1>1, <1>2, RefusedIsBare DEF Inv, Stuck, Kept, None, Prepared
<1> QED
  BY <1>3, <1>4, <1>5, <1>6, <1>7, <1>8, <1>9, <1>10, <1>11, <1>12, <1>13,
     <1>14 DEF Inv

\* StageChunks: the chunks of an attempt are staged.
LEMMA StageChunksStep == ASSUME Inv, StageChunks PROVE Inv'
<1>1. /\ pc = "chunk" /\ pc' = "anchor" /\ job = "run" /\ doc \in Row /\ doc.chunks = {}
      /\ amiss' = amiss \cup Noted("carried", Carries) \cup Noted("bare", Bare)
      /\ mem.row.mark = doc.mark
      /\ UNCHANGED <<job, doc, jobs, refused>>
  BY DEF StageChunks, Goto, Inv, TypeOK, Jobs, Copies, Purging
<1>2. PICK p \in Plan :
        /\ plan' = p
        /\ mem' = [mem EXCEPT !.row = Transition("processing", ChunksOf[p]),
                              !.chunks = @ \cup ChunksOf[p]]
        /\ disk' = [disk EXCEPT !.row = Transition("processing", ChunksOf[p])]
  BY DEF StageChunks
<1>3. ChunksOf[p] \subseteq Chunk
  BY DEF Chunk
<1> DEFINE r == Transition("processing", ChunksOf[p])
<1>4. /\ r \in Row /\ r.status = "processing" /\ r.chunks = ChunksOf[p]
      /\ r.mark = doc.mark /\ r.journal = doc.journal
  BY <1>1, <1>3, TransitionTyped DEF Active
<1>5. mem' = [mem EXCEPT !.row = r, !.chunks = @ \cup ChunksOf[p]] /\ disk' = [disk EXCEPT !.row = r]
  BY <1>2
<1> HIDE DEF r
<1>6. r # NoRow
  BY <1>4, NoneAssumption
<1>7. /\ mem' \in Stores /\ mem'.row = r /\ mem'.graph = mem.graph
      /\ mem'.chunks = mem.chunks \cup ChunksOf[p] /\ mem'.anchors = mem.anchors
      /\ disk' \in Stores /\ disk'.row = r /\ disk'.graph = disk.graph
      /\ disk'.chunks = disk.chunks /\ disk'.anchors = disk.anchors
  BY <1>3, <1>4, <1>5 DEF Inv, TypeOK, Stores
<1>8. /\ Kept' => Kept /\ doc.journal = NoJournal
      /\ doc.mark # "pre_graph" => "bare" \in amiss'
      /\ "bare" \in amiss => "bare" \in amiss'
      /\ amiss' \subseteq {"forgot", "clobbered", "carried", "bare"}
  BY <1>1 DEF Kept, Noted, Carries, Bare, Inv, TypeOK
<1>9. Scope = {} /\ Scope' = ChunksOf[p] /\ mem.row # NoRow
  BY <1>1, <1>4, <1>7 DEF Scope, Staged, Inv, Jobs
<1>10. Kept' => r.journal.phase = 0 /\ mem.row.journal.phase = 0
  BY <1>1, <1>4, <1>8 DEF Inv, Copies, NoJournal, None
<1>11. TypeOK'
  BY <1>1, <1>2, <1>3, <1>4, <1>5, <1>6, <1>7, <1>8, <1>9, <1>10 DEF Inv,
     TypeOK, Purging, Staged
<1>12. Jobs'
  BY <1>1, <1>2, <1>3, <1>4, <1>5, <1>6, <1>7, <1>8, <1>9, <1>10 DEF Inv, Jobs,
     Purging, Staged, Active
<1>13. Copies'
  BY <1>1, <1>2, <1>3, <1>4, <1>5, <1>6, <1>7, <1>8, <1>9, <1>10 DEF Inv,
     Copies, Purging, Staged
<1>14. JournalPhase'
  BY <1>1, <1>2, <1>3, <1>4, <1>5 DEF Inv, JournalPhase, Ids
<1>15. Progress'
  BY <1>1, <1>2, <1>3, <1>4, <1>5 DEF Inv, Progress
<1>16. Committed'
  BY <1>1, <1>2, <1>3, <1>4, <1>5, <1>6, <1>7, <1>8, <1>9, <1>10 DEF Inv,
     Committed, Settled
<1>17. NothingDerived'
  BY <1>1, <1>2, <1>3, <1>4, <1>5 DEF Inv, NothingDerived, Kept
<1>18. Found'
  BY <1>6, <1>7, <1>8, <1>9, <1>10 DEF Inv, Found, Kept
<1>19. JournalIsOurs'
  BY <1>1, <1>2, <1>3, <1>4, <1>5, <1>6, <1>7, <1>8, <1>9, <1>10 DEF Inv,
     JournalIsOurs, Kept, NoJournal
<1>20. AnchorsGone'
  BY <1>1, <1>2, <1>3, <1>4, <1>5, <1>6, <1>7, <1>8, <1>9, <1>10 DEF Inv,
     AnchorsGone, Kept
<1>21. AnchorsKept'
  BY <1>1, <1>2, <1>3, <1>4, <1>5, <1>6, <1>7, <1>8, <1>9, <1>10 DEF Inv,
     AnchorsKept, Kept
<1>22. Stuck'
  BY <1>1, <1>2, <1>3, <1>4, <1>5 DEF Inv, Stuck, Kept
<1> QED
  BY <1>11, <1>12, <1>13, <1>14, <1>15, <1>16, <1>17, <1>18, <1>19, <1>20,
     <1>21, <1>22 DEF Inv

\* WriteAnchors: the anchors are written, in memory.
LEMMA WriteAnchorsStep == ASSUME Inv, WriteAnchors PROVE Inv'
<1>1. /\ pc = "anchor" /\ pc' = "anchored" /\ job = "run" /\ mem.row # NoRow /\ plan \in Plan
      /\ mem \in Stores /\ mem' = [mem EXCEPT !.anchors = NamesOf[plan]]
      /\ UNCHANGED <<disk, job, doc, plan, jobs, refused, amiss>>
  BY DEF WriteAnchors, Goto, Inv, TypeOK, Jobs, Copies, Purging, Staged
<1>2. NamesOf[plan] \subseteq Name /\ (ChunksOf[plan] = {} => NamesOf[plan] = {})
  BY <1>1, NamesAssumption DEF Name
<1>3. NamesOf[plan] # NoAnchors
  BY <1>2, NoneAssumption
<1>4. /\ mem' \in Stores /\ mem'.row = mem.row /\ mem'.graph = mem.graph
      /\ mem'.chunks = mem.chunks /\ mem'.anchors = NamesOf[plan]
  BY <1>1, <1>2 DEF Stores
<1>5. Scope = mem.row.chunks /\ Scope' = Scope /\ mem.row.chunks = ChunksOf[plan]
  BY <1>1, <1>4 DEF Scope, Staged, Inv, Copies
<1>6. Kept => mem.row.journal = NoJournal /\ mem.row.journal.phase = 0
  BY <1>1 DEF Inv, Copies, JournalIsOurs, Staged, NoJournal, None
<1>7. TypeOK'
  BY <1>1, <1>2, <1>3, <1>4, <1>5, <1>6 DEF Inv, TypeOK, Purging, Staged
<1>8. Jobs'
  BY <1>1, <1>2, <1>3 DEF Inv, Jobs, Purging, Staged, Active
<1>9. Copies'
  BY <1>1, <1>2, <1>3 DEF Inv, Copies, Purging, Staged
<1>10. JournalPhase'
  BY <1>1, <1>2, <1>3 DEF Inv, JournalPhase, Ids
<1>11. Progress'
  BY <1>1, <1>2, <1>3 DEF Inv, Progress, Staged
<1>12. Committed'
  BY <1>1, <1>2, <1>3 DEF Inv, Committed, Settled
<1>13. NothingDerived'
  BY <1>1, <1>2, <1>3 DEF Inv, NothingDerived, Kept
<1>14. Found'
  BY <1>1, <1>2, <1>3 DEF Inv, Found, Kept, NothingDerived
<1>15. JournalIsOurs'
  BY <1>1, <1>2, <1>3, <1>4, <1>5, <1>6 DEF Inv, JournalIsOurs, Kept, Purging,
     Staged, NoJournal
<1>16. AnchorsGone'
  BY <1>1, <1>2, <1>3, <1>4, <1>5, <1>6 DEF Inv, AnchorsGone, Kept, Staged,
     None, Prepared, DerivedCommitted, AnchorsPending, Completed
<1>17. AnchorsKept'
  BY <1>1, <1>2, <1>3, <1>4, <1>5, <1>6 DEF Inv, AnchorsKept, Kept, None,
     Prepared, DerivedCommitted, AnchorsPending, Completed
<1>18. Stuck'
  BY <1>1, <1>2, <1>3 DEF Inv, Stuck, Kept
<1> QED
  BY <1>7, <1>8, <1>9, <1>10, <1>11, <1>12, <1>13, <1>14, <1>15, <1>16, <1>17,
     <1>18 DEF Inv

\* MarkMutation: the anchors are flushed and the row is marked.
LEMMA MarkMutationStep == ASSUME Inv, MarkMutation PROVE Inv'
<1>1. /\ pc = "anchored" /\ pc' = "merge" /\ job = "run" /\ doc \in Row /\ plan \in Plan
      /\ mem.row # NoRow /\ mem.row \in Row /\ mem \in Stores /\ disk \in Stores /\ disk.row = mem.row
      /\ mem.row.chunks = ChunksOf[plan] /\ mem.row.journal = doc.journal /\ doc.chunks = {}
      /\ mem.anchors = NamesOf[plan]
      /\ mem' = [mem EXCEPT !.row = Marked(@)]
      /\ disk' = [Flushed({"anchors"}) EXCEPT !.row = Marked(mem.row)]
      /\ doc' = Marked(doc) /\ amiss' = amiss \ {"bare"}
      /\ UNCHANGED <<job, plan, jobs, refused>>
  BY DEF MarkMutation, MarkedCopy, Inv, TypeOK, Stores, Jobs, Copies, Progress,
     Purging, Staged
<1> DEFINE r == Marked(mem.row)
           d == Marked(doc)
           f == Flushed({"anchors"})
<1>2. /\ r \in Row /\ r.status = mem.row.status /\ r.chunks = mem.row.chunks
      /\ r.mark = "graph_mutation_started" /\ r.journal = mem.row.journal
  BY <1>1 DEF Row, Marked
<1>3. /\ d \in Row /\ d.status = doc.status /\ d.chunks = {}
      /\ d.mark = "graph_mutation_started" /\ d.journal = doc.journal /\ doc' = d
  BY <1>1 DEF Row, Marked
<1>4. /\ f \in Stores /\ f.chunks = disk.chunks /\ f.anchors = mem.anchors /\ f.graph = disk.graph
  BY <1>1, Flushing
<1>5. mem' = [mem EXCEPT !.row = r] /\ disk' = [f EXCEPT !.row = r]
  BY <1>1
<1> HIDE DEF r, d, f
<1>6. r # NoRow /\ d # NoRow
  BY <1>2, <1>3, NoneAssumption
<1>7. /\ mem' \in Stores /\ mem'.row = r /\ mem'.graph = mem.graph
      /\ mem'.chunks = mem.chunks /\ mem'.anchors = mem.anchors
      /\ disk' \in Stores /\ disk'.row = r /\ disk'.graph = disk.graph
      /\ disk'.chunks = disk.chunks /\ disk'.anchors = mem.anchors
  BY <1>1, <1>2, <1>4, <1>5 DEF Stores
<1>8. NamesOf[plan] # NoAnchors
  BY <1>1, NoneAssumption DEF Name
<1>9. /\ Scope = mem.row.chunks /\ Scope' = Scope
      /\ Kept' => Kept /\ doc.journal = NoJournal /\ doc.journal.phase = 0
      /\ amiss' \subseteq {"forgot", "clobbered", "carried", "bare"}
<2>1. Scope = mem.row.chunks /\ Scope' = Scope
  BY <1>1, <1>2, <1>7 DEF Scope, Staged
<2>2. Kept' => Kept
  BY <1>1 DEF Kept
<2>3. Kept => doc.journal = NoJournal /\ doc.journal.phase = 0
  BY <1>1 DEF Inv, JournalIsOurs, Staged, NoJournal, None
<2> QED
  BY <1>1, <2>1, <2>2, <2>3 DEF Inv, TypeOK
<1>10. TypeOK'
  BY <1>1, <1>2, <1>3, <1>4, <1>5, <1>6, <1>7, <1>8, <1>9 DEF Inv, TypeOK,
     Purging, Staged
<1>11. Jobs'
  BY <1>1, <1>2, <1>3, <1>4, <1>5, <1>6, <1>7, <1>8, <1>9 DEF Inv, Jobs,
     Purging, Staged, Active
<1>12. Copies'
  BY <1>1, <1>2, <1>3, <1>4, <1>5, <1>6, <1>7, <1>8, <1>9 DEF Inv, Copies,
     Purging, Staged
<1>13. JournalPhase'
  BY <1>1, <1>2, <1>3, <1>4 DEF Inv, JournalPhase, Ids
<1>14. Progress'
  BY <1>1, <1>2, <1>3, <1>4, <1>5, <1>6, <1>7, <1>8, <1>9 DEF Inv, Progress,
     Staged
<1>15. Committed'
  BY <1>1, <1>2, <1>3, <1>4, <1>5, <1>6, <1>7, <1>8, <1>9 DEF Inv, Committed,
     Settled
<1>16. NothingDerived'
  BY <1>1, <1>2, <1>3, <1>4, <1>5, <1>6, <1>7, <1>8, <1>9 DEF Inv,
     NothingDerived, Kept
<1>17. Found'
  BY <1>5, <1>6, <1>7, <1>8, <1>9 DEF Inv, Found, Kept, NothingDerived
<1>18. JournalIsOurs'
  BY <1>1, <1>2, <1>3, <1>4, <1>5, <1>6, <1>7, <1>8, <1>9 DEF Inv,
     JournalIsOurs, Kept, NoJournal
<1>19. AnchorsGone'
  BY <1>1, <1>2, <1>3, <1>4, <1>5, <1>6, <1>7, <1>8, <1>9 DEF Inv, AnchorsGone,
     Kept
<1>20. AnchorsKept'
  BY <1>1, <1>2, <1>3, <1>4, <1>5, <1>6, <1>7, <1>8, <1>9 DEF Inv, AnchorsKept,
     Kept
<1>21. Stuck'
  BY <1>1, <1>2, <1>3, <1>4 DEF Inv, Stuck, Kept
<1> QED
  BY <1>10, <1>11, <1>12, <1>13, <1>14, <1>15, <1>16, <1>17, <1>18, <1>19,
     <1>20, <1>21 DEF Inv

\* Merge: a contribution is merged, in memory.
LEMMA MergeStep == ASSUME Inv, Merge PROVE Inv'
<1>1. /\ pc = "merge" /\ job = "run" /\ plan \in Plan /\ mem \in Stores /\ mem.row # NoRow
      /\ mem.row.chunks = ChunksOf[plan] /\ mem.anchors = NamesOf[plan] /\ disk.anchors = NamesOf[plan]
      /\ mem.row.mark = "graph_mutation_started"
      /\ UNCHANGED <<disk, job, pc, doc, plan, jobs, refused, amiss>>
  BY DEF Merge, Inv, TypeOK, Jobs, Copies, Progress, Purging, Staged
<1>2. PICK x \in Contributions(plan) : mem' = [mem EXCEPT !.graph = @ \cup {x}]
  BY DEF Merge
<1>3. /\ x \in NamesOf[plan] \X ChunksOf[plan] /\ x[1] \in NamesOf[plan] /\ x[2] \in ChunksOf[plan]
  BY DEF Contributions
<1>4. x \in Name \X Chunk /\ NamesOf[plan] # NoAnchors
  BY <1>1, <1>3, NoneAssumption DEF Name, Chunk
<1>5. /\ mem' \in Stores /\ mem'.row = mem.row /\ mem'.graph = mem.graph \cup {x}
      /\ mem'.chunks = mem.chunks /\ mem'.anchors = mem.anchors
  BY <1>1, <1>2, <1>4 DEF Stores
<1>6. /\ Scope = mem.row.chunks /\ Scope' = Scope
      /\ Kept => mem.row.journal.phase = 0 /\ doc.journal.phase = 0
  BY <1>1, <1>5 DEF Scope, Staged, Inv, Copies, JournalIsOurs, NoJournal, None
<1>7. TypeOK'
  BY <1>1, <1>2, <1>3, <1>4, <1>5, <1>6 DEF Inv, TypeOK
<1>8. Jobs'
  BY <1>1, <1>2, <1>3 DEF Inv, Jobs
<1>9. Copies'
  BY <1>1, <1>2, <1>3 DEF Inv, Copies
<1>10. JournalPhase'
  BY <1>1, <1>2, <1>3 DEF Inv, JournalPhase, Ids
<1>11. Progress'
  BY <1>1, <1>2, <1>3 DEF Inv, Progress
<1>12. Committed'
  BY <1>1, <1>2, <1>3 DEF Inv, Committed, Settled, Jobs
<1>13. NothingDerived'
  BY <1>1, <1>2, <1>3, <1>4, <1>5, <1>6 DEF Inv, NothingDerived, Kept, None,
     Prepared, DerivedCommitted, AnchorsPending, Completed
<1>14. Found'
  BY <1>1, <1>2, <1>3, <1>4, <1>5, <1>6 DEF Inv, Found, Kept
<1>15. JournalIsOurs'
  BY <1>1, <1>2, <1>3, <1>4, <1>5, <1>6 DEF Inv, JournalIsOurs, Kept, NoJournal
<1>16. AnchorsGone'
  BY <1>1, <1>2, <1>3, <1>4, <1>5, <1>6 DEF Inv, AnchorsGone, Kept
<1>17. AnchorsKept'
  BY <1>1, <1>2, <1>3, <1>4, <1>5, <1>6 DEF Inv, AnchorsKept, Kept
<1>18. Stuck'
  BY <1>1, <1>2, <1>3 DEF Inv, Stuck, Kept
<1> QED
  BY <1>7, <1>8, <1>9, <1>10, <1>11, <1>12, <1>13, <1>14, <1>15, <1>16, <1>17,
     <1>18 DEF Inv

\* InsertDone: the merge is flushed.
LEMMA InsertDoneStep == ASSUME Inv, InsertDone PROVE Inv'
<1>1. /\ pc = "merge" /\ pc' = "commit" /\ job = "run" /\ plan \in Plan
      /\ mem \in Stores /\ disk \in Stores /\ mem.row # NoRow /\ disk.row = mem.row
      /\ mem.anchors = NamesOf[plan] /\ disk.anchors = NamesOf[plan]
      /\ ChunksOf[plan] \subseteq mem.chunks /\ Contributions(plan) \subseteq mem.graph
      /\ disk' = Flushed(DOMAIN disk)
      /\ UNCHANGED <<mem, job, doc, plan, jobs, refused, amiss>>
  BY DEF InsertDone, Goto, Inv, TypeOK, Jobs, Copies, Progress, Purging, Staged
<1>2. /\ disk' \in Stores /\ disk'.row = mem.row /\ disk'.graph = mem.graph
      /\ disk'.chunks = mem.chunks /\ disk'.anchors = mem.anchors
  BY <1>1, Flushing DEF Stores
<1>3. Scope' = Scope
  BY <1>1 DEF Scope, Staged
<1>4. TypeOK'
  BY <1>1, <1>2, <1>3 DEF Inv, TypeOK, Purging, Staged
<1>5. Jobs'
  BY <1>1, <1>2, <1>3 DEF Inv, Jobs, Purging, Staged, Active
<1>6. Copies'
  BY <1>1 DEF Inv, Copies, Purging, Staged
<1>7. JournalPhase'
  BY <1>1 DEF Inv, JournalPhase, Ids
<1>8. Progress'
  BY <1>1, <1>2, <1>3 DEF Inv, Progress
<1>9. Committed'
  BY <1>1, <1>2, <1>3 DEF Inv, Committed, Settled
<1>10. NothingDerived'
  BY <1>1, <1>2, <1>3 DEF Inv, NothingDerived, Kept
<1>11. Found'
  BY <1>1, <1>2, <1>3 DEF Inv, Found, Kept
<1>12. JournalIsOurs'
  BY <1>1, <1>2, <1>3 DEF Inv, JournalIsOurs, Kept, Purging, Staged, NoJournal
<1>13. AnchorsGone'
  BY <1>1, <1>2, <1>3 DEF Inv, AnchorsGone, Kept, Staged
<1>14. AnchorsKept'
  BY <1>1, <1>2, <1>3 DEF Inv, AnchorsKept, Kept
<1>15. Stuck'
  BY <1>1 DEF Inv, Stuck, Kept
<1> QED
  BY <1>4, <1>5, <1>6, <1>7, <1>8, <1>9, <1>10, <1>11, <1>12, <1>13, <1>14,
     <1>15 DEF Inv

\* Commit: the document is PROCESSED.
LEMMA CommitStep == ASSUME Inv, Commit PROVE Inv'
<1>1. /\ pc = "commit" /\ pc' = "none" /\ job = "run" /\ job' = "idle" /\ doc' = NoRow
      /\ plan \in Plan /\ doc \in Row /\ mem.row # NoRow /\ mem.row.chunks = ChunksOf[plan]
      /\ doc.mark = "graph_mutation_started"
      /\ mem.anchors = NamesOf[plan] /\ disk.anchors = NamesOf[plan]
      /\ ChunksOf[plan] \subseteq mem.chunks \cap disk.chunks
      /\ Contributions(plan) \subseteq mem.graph \cap disk.graph
      /\ WriteRow([Transition("processed", ChunksOf[plan]) EXCEPT !.journal = NoJournal])
      /\ UNCHANGED <<plan, jobs, refused, amiss>>
  BY DEF Commit, Leave, Inv, TypeOK, Jobs, Copies, Progress, Purging, Staged
<1>2. ChunksOf[plan] \subseteq Chunk /\ NamesOf[plan] # NoAnchors
  BY <1>1, NoneAssumption DEF Chunk, Name
<1> DEFINE t == Transition("processed", ChunksOf[plan])
<1>3. /\ t \in Row /\ t.status = "processed" /\ t.chunks = ChunksOf[plan] /\ t.mark = doc.mark
  BY <1>1, <1>2, TransitionTyped
<1> HIDE DEF t
<1> DEFINE r == [t EXCEPT !.journal = NoJournal]
<1>4. NoJournal \in [op : SUBSET Chunk, phase : None .. Completed] /\ NoJournal.phase = 0
  BY DEF NoJournal, None, Completed
<1>5. /\ r \in Row /\ r.status = "processed" /\ r.chunks = ChunksOf[plan]
      /\ r.mark = doc.mark /\ r.journal = NoJournal
  BY <1>3, <1>4 DEF Row
<1> HIDE DEF r
<1>6. r # NoRow
  BY <1>5, NoneAssumption
<1>7. /\ mem' \in Stores /\ mem'.row = r /\ mem'.graph = mem.graph
      /\ mem'.chunks = mem.chunks /\ mem'.anchors = mem.anchors
      /\ disk' \in Stores /\ disk'.row = r /\ disk'.graph = disk.graph
      /\ disk'.chunks = disk.chunks /\ disk'.anchors = disk.anchors
  BY <1>1, <1>5, RowWritten DEF Inv, TypeOK, r, t
<1>8. Scope = mem.row.chunks /\ Scope' = Scope
  BY <1>1, <1>5, <1>7 DEF Scope, Staged
<1>9. TypeOK'
  BY <1>1, <1>2, <1>3, <1>4, <1>5, <1>6, <1>7, <1>8 DEF Inv, TypeOK
<1>10. Jobs'
  BY <1>1, <1>2, <1>3, <1>4, <1>5, <1>6, <1>7, <1>8 DEF Inv, Jobs
<1>11. Copies'
  BY <1>1, <1>2, <1>3, <1>4 DEF Inv, Copies
<1>12. JournalPhase'
  BY <1>1, <1>2, <1>3, <1>4 DEF Inv, JournalPhase, Ids
<1>13. Progress'
  BY <1>1, <1>2, <1>3, <1>4, <1>5, <1>6, <1>7, <1>8 DEF Inv, Progress
<1>14. Committed'
  BY <1>1, <1>2, <1>3, <1>4, <1>5, <1>6, <1>7, <1>8 DEF Inv, Committed, Settled
<1>15. NothingDerived'
  BY <1>1, <1>2, <1>3, <1>4, <1>5, <1>6, <1>7, <1>8 DEF Inv, NothingDerived,
     Kept, None, Prepared, DerivedCommitted, AnchorsPending, Completed
<1>16. Found'
  BY <1>1, <1>2, <1>3, <1>4, <1>5, <1>6, <1>7, <1>8 DEF Inv, Found, Kept
<1>17. JournalIsOurs'
  BY <1>1, <1>2, <1>3, <1>4, <1>5, <1>6, <1>7, <1>8 DEF Inv, JournalIsOurs,
     Kept, Purging, Staged, NoJournal
<1>18. AnchorsGone'
  BY <1>1, <1>2, <1>3, <1>4, <1>5, <1>6, <1>7, <1>8 DEF Inv, AnchorsGone, Kept,
     None, Prepared, DerivedCommitted, AnchorsPending, Completed
<1>19. AnchorsKept'
  BY <1>1, <1>2, <1>3, <1>4, <1>5, <1>6, <1>7, <1>8 DEF Inv, AnchorsKept, Kept
<1>20. Stuck'
  BY <1>1, <1>2, <1>3, <1>4 DEF Inv, Stuck, Kept
<1> QED
  BY <1>9, <1>10, <1>11, <1>12, <1>13, <1>14, <1>15, <1>16, <1>17, <1>18,
     <1>19, <1>20 DEF Inv

\* FinalizeFailure: an error in the process stage.
LEMMA FinalizeFailureStep == ASSUME Inv, FinalizeFailure PROVE Inv'
<1>1. /\ pc \in Purging \cup Staged \cup {"chunk"} /\ pc' = "none" /\ job = "run" /\ job' = "idle"
      /\ doc' = NoRow /\ doc \in Row /\ mem.row # NoRow /\ mem.row.mark = doc.mark
      /\ refused' = (pc = "resolve" /\ doc.chunks # {} /\ (Conflict \/ ~ Proven))
      /\ amiss' = amiss \cup Noted("clobbered", Clobbers)
                        \cup Noted("carried", pc = "chunk" /\ Carries)
      /\ UNCHANGED <<plan, jobs>>
  BY DEF FinalizeFailure, Leave, Inv, TypeOK, Jobs
<1> DEFINE c == IF pc \in Staged THEN ChunksOf[plan] ELSE doc.chunks
           r == Transition("failed", c)
<1>2. c \subseteq Chunk /\ c = Scope /\ (pc \notin Staged => c = doc.chunks)
  BY <1>1, RowTyped DEF Chunk, Scope, Inv, Copies
<1>3. WriteRow(r)
  BY DEF FinalizeFailure
<1> HIDE DEF c
<1>4. /\ r \in Row /\ r.status = "failed" /\ r.chunks = c
      /\ r.mark = doc.mark /\ r.journal = doc.journal
  BY <1>1, <1>2, TransitionTyped
<1> HIDE DEF r
<1>5. r # NoRow
  BY <1>4, NoneAssumption
<1>6. /\ mem' \in Stores /\ mem'.row = r /\ mem'.graph = mem.graph
      /\ mem'.chunks = mem.chunks /\ mem'.anchors = mem.anchors
      /\ disk' \in Stores /\ disk'.row = r /\ disk'.graph = disk.graph
      /\ disk'.chunks = disk.chunks /\ disk'.anchors = disk.anchors
  BY <1>3, <1>4, RowWritten DEF Inv, TypeOK
<1>7. Scope' = Scope
  BY <1>1, <1>2, <1>4, <1>6 DEF Scope
<1>8. /\ Kept' => Kept /\ ~ Clobbers /\ (pc = "chunk" => doc.journal = NoJournal)
      /\ "bare" \in amiss' <=> "bare" \in amiss
      /\ amiss' \subseteq {"forgot", "clobbered", "carried", "bare"}
  BY <1>1 DEF Kept, Noted, Carries, Inv, TypeOK
<1>9. /\ doc.journal.phase \in 0 .. 4 /\ mem.row.journal.phase \in 0 .. 4
      /\ NoJournal.phase = 0
  BY <1>1, RowTyped DEF NoJournal, None, Inv, TypeOK, Stores
<1>10. Kept' /\ mem.anchors = NoAnchors /\ mem.row.journal.phase >= 3 => doc.journal = mem.row.journal
  BY <1>1, <1>8, <1>9 DEF Inv, Copies, Clobbers, AnchorsPending
<1>11. TypeOK'
  BY <1>1, <1>2, <1>3, <1>4, <1>5, <1>6, <1>7, <1>8, <1>9, <1>10 DEF Inv,
     TypeOK
<1>12. Jobs'
  BY <1>1, <1>2, <1>3, <1>4, <1>5, <1>6, <1>7, <1>8, <1>9, <1>10 DEF Inv, Jobs
<1>13. Copies'
  BY <1>1, <1>2, <1>3, <1>4, <1>5 DEF Inv, Copies
<1>14. JournalPhase'
  BY <1>1, <1>2, <1>3, <1>4, <1>5 DEF Inv, JournalPhase, Ids
<1>15. Progress'
  BY <1>1, <1>2, <1>3, <1>4, <1>5 DEF Inv, Progress, Staged
<1>16. Committed'
  BY <1>1, <1>2, <1>3, <1>4, <1>5, <1>6, <1>7, <1>8, <1>9, <1>10 DEF Inv,
     Committed, Settled
<1>17. NothingDerived'
  BY <1>1, <1>2, <1>3, <1>4, <1>5, <1>6, <1>7, <1>8, <1>9, <1>10 DEF Inv,
     NothingDerived, Kept
<1>18. Found'
  BY <1>6, <1>7, <1>8, <1>9, <1>10 DEF Inv, Found, Kept
<1>19. JournalIsOurs'
  BY <1>1, <1>2, <1>3, <1>4, <1>5, <1>6, <1>7, <1>8, <1>9, <1>10 DEF Inv,
     JournalIsOurs, Kept, Purging, Staged, NoJournal
<1>20. AnchorsGone'
  BY <1>1, <1>2, <1>3, <1>4, <1>5, <1>6, <1>7, <1>8, <1>9, <1>10 DEF Inv,
     AnchorsGone, JournalIsOurs, None, Prepared, DerivedCommitted,
     AnchorsPending, Completed
<1>21. AnchorsKept'
  BY <1>1, <1>2, <1>3, <1>4, <1>5, <1>6, <1>7, <1>8, <1>9, <1>10 DEF Inv,
     AnchorsKept, Kept, None, Prepared, DerivedCommitted, AnchorsPending,
     Completed
<1>22. Stuck'
  BY <1>1, <1>2, <1>3, <1>4, <1>5, <1>6, <1>7, <1>8, <1>9, <1>10,
     RefusedIsBare DEF Inv, Stuck, Copies, None, Prepared
<1> QED
  BY <1>11, <1>12, <1>13, <1>14, <1>15, <1>16, <1>17, <1>18, <1>19, <1>20,
     <1>21, <1>22 DEF Inv

\* OthersFlush: another document flushes a store.
LEMMA OthersFlushStep == ASSUME Inv, OthersFlush PROVE Inv'
<1>1. PICK s \in DOMAIN disk : disk' = Flushed({s})
  BY DEF OthersFlush
<1>2. /\ mem \in Stores /\ disk \in Stores /\ (mem.row # NoRow => disk.row = mem.row)
      /\ UNCHANGED <<mem, job, pc, doc, plan, jobs, refused, amiss>>
  BY DEF OthersFlush, Inv, TypeOK, Jobs
<1>3. /\ disk' \in Stores /\ disk'.row \in {mem.row, disk.row}
      /\ disk'.chunks \in {mem.chunks, disk.chunks}
      /\ disk'.anchors \in {mem.anchors, disk.anchors}
      /\ disk'.graph \in {mem.graph, disk.graph}
  BY <1>1, <1>2, Flushing
<1>4. Scope' = Scope /\ Ids' = Ids
  BY <1>2 DEF Scope, Ids
<1>5. TypeOK'
  BY <1>1, <1>2, <1>3, <1>4 DEF Inv, TypeOK
<1>6. Jobs'
  BY <1>1, <1>2, <1>3, <1>4 DEF Inv, Jobs
<1>7. Copies'
  BY <1>1, <1>2 DEF Inv, Copies
<1>8. JournalPhase'
  BY <1>1, <1>2 DEF Inv, JournalPhase, Ids
<1>9. Progress'
  BY <1>1, <1>2, <1>3, <1>4 DEF Inv, Progress, Staged
<1>10. Committed'
  BY <1>1, <1>2, <1>3, <1>4 DEF Inv, Committed, Settled, Jobs
<1>11. NothingDerived'
  BY <1>1, <1>2, <1>3, <1>4 DEF Inv, NothingDerived, Kept
<1>12. Found'
  BY <1>1, <1>2, <1>3, <1>4 DEF Inv, Found, Kept
<1>13. JournalIsOurs'
  BY <1>1, <1>2, <1>3, <1>4 DEF Inv, JournalIsOurs, Kept, NoJournal
<1>14. AnchorsGone'
  BY <1>1, <1>2, <1>3, <1>4 DEF Inv, AnchorsGone, Kept
<1>15. AnchorsKept'
  BY <1>1, <1>2, <1>3, <1>4 DEF Inv, AnchorsKept, Kept
<1>16. Stuck'
  BY <1>1, <1>2, <1>3, <1>4 DEF Inv, Stuck, Kept
<1> QED
  BY <1>5, <1>6, <1>7, <1>8, <1>9, <1>10, <1>11, <1>12, <1>13, <1>14, <1>15,
     <1>16 DEF Inv

\* Kill: the process is killed.
LEMMA KillStep == ASSUME Inv, Kill PROVE Inv'
<1>1. /\ pc' = "none" /\ job' = "idle" /\ doc' = NoRow /\ mem \in Stores /\ disk \in Stores
      /\ mem' = disk /\ amiss' = amiss \cup Noted("forgot", Forgets)
      /\ UNCHANGED <<disk, plan, jobs, refused>>
  BY DEF Kill, Leave, Inv, TypeOK
<1>2. /\ mem.row # NoRow => disk.row = mem.row
      /\ mem.row = NoRow /\ disk.row # NoRow =>
           disk.row.journal.op = disk.row.chunks /\ disk.row.journal.phase = 4
  BY DEF Inv, Jobs, Completed
<1>3. /\ Kept' => Kept /\ ~ Forgets
      /\ "bare" \in amiss' <=> "bare" \in amiss
      /\ amiss' \subseteq {"forgot", "clobbered", "carried", "bare"}
  BY <1>1 DEF Kept, Noted, Inv, TypeOK
<1>4. Kept' /\ mem.row # NoRow => Scope' = Scope
  BY <1>1, <1>2, <1>3 DEF Forgets, Scope, Inv, Jobs, Copies
<1>5. Scope' = disk.row.chunks
  BY <1>1 DEF Scope
<1>6. TypeOK'
  BY <1>1, <1>2, <1>3, <1>4, <1>5 DEF Inv, TypeOK
<1>7. Jobs'
  BY <1>1, <1>2 DEF Inv, Jobs
<1>8. Copies'
  BY <1>1, <1>2 DEF Inv, Copies
<1>9. JournalPhase'
  BY <1>1, <1>2 DEF Inv, JournalPhase, Ids
<1>10. Progress'
  BY <1>1, <1>2 DEF Inv, Progress, Staged
<1>11. Committed'
  BY <1>1, <1>2 DEF Inv, Committed, Settled
<1>12. NothingDerived'
  BY <1>1, <1>2 DEF Inv, NothingDerived, Kept
<1>13. Found'
  BY <1>1, <1>2, <1>3, <1>4, <1>5 DEF Inv, Found, Kept, NothingDerived
<1>14. JournalIsOurs'
  BY <1>1, <1>2, <1>3, <1>4, <1>5 DEF Inv, JournalIsOurs, Kept, Purging,
     Staged, NoJournal
<1>15. AnchorsGone'
  BY <1>1, <1>2, <1>3, <1>4, <1>5 DEF Inv, AnchorsGone, Kept
<1>16. AnchorsKept'
  BY <1>1, <1>2, <1>3, <1>4, <1>5 DEF Inv, AnchorsKept, Kept, None, Prepared,
     DerivedCommitted, AnchorsPending, Completed
<1>17. Stuck'
  BY <1>1, <1>2, <1>3, <1>4, <1>5 DEF Inv, Stuck, Kept
<1> QED
  BY <1>6, <1>7, <1>8, <1>9, <1>10, <1>11, <1>12, <1>13, <1>14, <1>15, <1>16,
     <1>17 DEF Inv

--------------------------------------------------------------------------------
LEMMA Initially == Init => Inv
<1> SUFFICES ASSUME Init PROVE Inv
  OBVIOUS
<1>1. /\ Empty \in Stores /\ Empty.row = NoRow /\ Empty.anchors = NoAnchors
      /\ Empty.graph = {}
  BY DEF Empty, Stores
<1>2. 0 \in 0 .. MaxJobs
  BY BoundAssumption
<1>3. TypeOK
  BY <1>1, <1>2 DEF Init, TypeOK
<1> QED
  BY <1>1, <1>3 DEF Init, Inv, Jobs, Copies, JournalPhase, Progress, Committed, NothingDerived,
     Found, JournalIsOurs, AnchorsGone, AnchorsKept, Stuck, Purging, Staged

LEMMA Unchanged == ASSUME Inv, UNCHANGED vars PROVE Inv'
  BY DEF vars, Inv, TypeOK, Jobs, Copies, JournalPhase, Progress, Committed, NothingDerived,
     Found, JournalIsOurs, AnchorsGone, AnchorsKept, Stuck, Kept, Scope, Ids

LEMMA Inductive == Inv /\ [Next]_vars => Inv'
<1> SUFFICES ASSUME Inv, [Next]_vars PROVE Inv'
  OBVIOUS
<1>1. CASE Purge
  BY <1>1, NothingToPurgeStep, ResolveStep, PurgeContributionStep, DerivedDoneStep,
     PurgeChunksStep, ChunksDoneStep, PurgeAnchorsStep, AnchorsDoneStep,
     RetireJournalStep, DeleteRowStep, FinishDeleteStep, PurgeFailsStep DEF Purge
<1>2. CASE Next /\ ~ Purge
  BY <1>2, EnqueueStep, ResetFailedStep, SweepStep, ParseStep, AnalyzeStep,
     StageFailsStep, DeleteStep, StageChunksStep, WriteAnchorsStep, MarkMutationStep,
     MergeStep, InsertDoneStep, CommitStep, FinalizeFailureStep, OthersFlushStep,
     KillStep DEF Next
<1> QED
  BY <1>1, <1>2, Unchanged

\* Row, copy, journal, anchors, chunks and graph agree, step by step, in memory
\* and on disk.
THEOREM Invariance == Spec => []Inv
  BY Initially, Inductive, PTL DEF Spec

\* The variables keep their types.
THEOREM TypesHold == Spec => []TypeOK
<1>1. Inv => TypeOK
  BY DEF Inv
<1> QED
  BY <1>1, Invariance, PTL

\* A restart that finds a document PROCESSED, with no purge under way, finds
\* its chunks, its anchors and its graph.
THEOREM ProcessedIsComplete == Spec => []CommitIsComplete
<1>1. Inv => CommitIsComplete
  BY DEF Inv, Committed, CommitIsComplete, Gone
<1> QED
  BY <1>1, Invariance, PTL

\* While the row has lost nothing, a document that is marked as not yet in the
\* graph is in neither graph.
THEOREM PreGraphIsTrue == Spec => []MarkIsTrue
<1>1. Inv => MarkIsTrue
  BY DEF Inv, NothingDerived, MarkIsTrue, Gone
<1> QED
  BY <1>1, Invariance, PTL

\* While the row has lost nothing, what a restart finds in the graph is named
\* by the anchors it finds, and its chunk by the row or by the run's copy.
THEOREM ContributionsAreDiscoverable == Spec => []Discoverable
<1>1. ASSUME Inv, Kept, NEW x \in disk.graph
      PROVE  /\ disk.row # NoRow /\ disk.anchors # NoAnchors /\ x[1] \in disk.anchors
             /\ x[2] \in disk.row.chunks \/ (job = "run" /\ x[2] \in doc.chunks)
  <2>1. mem.row # NoRow
    BY <1>1 DEF Inv, NothingDerived
  <2>2. disk.row = mem.row
    BY <1>1, <2>1 DEF Inv, Jobs
  <2>3. disk.anchors # NoAnchors /\ x[1] \in disk.anchors /\ x[2] \in Scope
    BY <1>1 DEF Inv, Found
  <2> QED
    BY <2>1, <2>2, <2>3 DEF Scope
<1>2. Inv => Discoverable
  BY <1>1 DEF Discoverable, Gone
<1> QED
  BY <1>2, Invariance, PTL

\* No purge is refused before the row has lost its chunks or its journal, or
\* got an old journal back, or stands without its anchors.
THEOREM RefusalHasCause == Spec => []RefusedOnlyAmiss
<1>1. Inv => RefusedOnlyAmiss
  BY DEF Inv, Stuck, Kept, RefusedOnlyAmiss
<1> QED
  BY <1>1, Invariance, PTL
================================================================================
