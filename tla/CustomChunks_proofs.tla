-------------------------- MODULE CustomChunks_proofs --------------------------
(***************************************************************************)
(* The invariants of CustomChunks, for any names, any chunks, any calls    *)
(* and any number of attempts and rollbacks.                               *)
(*                                                                         *)
(* None of them is inductive: a kill replaces what the process sees by     *)
(* what a restart finds, so IInv says of both, store by store, how far     *)
(* they may be apart at each step of a call and of a rollback.  Each step  *)
(* has a lemma, with one step of its proof per conjunct of IInv.  A step   *)
(* that writes the row first states what becomes of the row's chunks, of   *)
(* the staged ones and of the candidates; the conjuncts follow from that.  *)
(***************************************************************************)
EXTENDS CustomChunks, TLAPS

\* The row that a restart finds.  The process has the same one, or it has
\* deleted it and not flushed the deletion, of a document of which nothing is
\* left.
RowsAgree ==
  \/ mem.row = disk.row
  \/ /\ pc \in {"idle", "removed"}
     /\ mem.row = NoRow /\ disk.row.patch # NoPatch /\ disk.row.chunks = {}
     /\ mem.graph = {} /\ disk.graph = {}
     /\ mem.chunks = {} /\ disk.chunks = {}
     /\ mem.anchors = {} /\ disk.anchors = {}

\* A call and a rollback have a journal.
AtWork == pc \in (Calling \cup RollingBack) \ {"removed"} =>
            mem.row # NoRow /\ mem.row.patch # NoPatch

\* The staged chunks are those of the operation that the document does not
\* have; a document that is being created has none.
JournalSound ==
  disk.row # NoRow /\ disk.row.patch # NoPatch =>
    /\ disk.row.patch.chunks = disk.row.patch.op \ disk.row.chunks
    /\ disk.row.patch.mode = "create" => disk.row.chunks = {}

RowChunks == IF disk.row = NoRow THEN {} ELSE disk.row.chunks
StagedChunks ==
  IF disk.row = NoRow \/ disk.row.patch = NoPatch THEN {} ELSE disk.row.patch.chunks
Candidate ==
  IF disk.row = NoRow \/ disk.row.patch = NoPatch THEN {} ELSE disk.row.patch.names

\* The document's chunks are stored, and no others but staged ones.
ChunksStored ==
  /\ RowChunks \subseteq mem.chunks /\ RowChunks \subseteq disk.chunks
  /\ mem.chunks \cup disk.chunks \subseteq RowChunks \cup StagedChunks

\* EveryContributionNamed, of what the process sees and of every mixture of
\* it with what a restart finds.
Named ==
  \A x \in mem.graph \cup disk.graph :
    \/ x[2] \in RowChunks /\ x[1] \in mem.anchors /\ x[1] \in disk.anchors
    \/ x[2] \in StagedChunks /\ x[1] \in Candidate

\* The process has not lost a contribution of the document's own.
OwnKept == \A x \in disk.graph : x[2] \in RowChunks => x \in mem.graph

NothingLeft == disk.row = NoRow => mem.anchors = {} /\ disk.anchors = {}

\* What the call has done so far.
CallProgress ==
  /\ pc \in Calling \ {"stage"} => patch.chunks \subseteq mem.chunks
  /\ pc \in Calling \ {"stage", "extract"} => patch.chunks \subseteq disk.chunks
  /\ pc \in Calling \ {"stage", "extract", "apply"} => names \subseteq patch.names
  /\ pc \in {"anchor", "anchored"} => patch.mode = "create"
  /\ pc \in {"union", "united"} => mem.graph = disk.graph
  /\ pc = "united" /\ Unites => patch.names \subseteq mem.anchors

\* The first attempt of a created document has all candidates in its anchors.
FirstAttempt ==
  pc \in Calling /\ ~ Unites =>
    /\ pc \in {"stage", "extract", "apply"} => patch.names = {}
    /\ pc \notin {"stage", "extract", "apply"} => patch.names = names
    /\ pc \in {"anchored", "merge", "union", "united"} => mem.anchors = names

\* What the rollback has undone so far.
RollbackProgress ==
  /\ pc \in RollingBack \ {"unmerge", "removed"} => mem.graph = disk.graph /\ Staged = {}
  /\ pc \in RollingBack \ {"unmerge", "chunks", "removed"} => mem.chunks = RowChunks
  /\ pc \in RollingBack \ {"unmerge", "chunks", "chunks_out", "removed"} => disk.chunks = RowChunks
  /\ pc \in {"prune", "restore"} => patch.mode = "patch"
  /\ pc \in {"unanchor", "remove"} => patch.mode = "create"
  /\ pc = "remove" => mem.anchors = {}
  /\ pc = "removed" => mem.row = NoRow

\* The inductive invariant.
IInv ==
  /\ TypeOK /\ RowsAgree /\ AtWork /\ JournalSound /\ ChunksStored /\ Named
  /\ OwnKept /\ NothingLeft /\ CallProgress /\ FirstAttempt /\ RollbackProgress

--------------------------------------------------------------------------------
\* A flush writes the stores it names and leaves the others.
LEMMA Flushing ==
  ASSUME mem \in Stores, disk \in Stores, NEW S
  PROVE  /\ Flushed(S) \in Stores
         /\ Flushed(S).row = IF "row" \in S THEN mem.row ELSE disk.row
         /\ Flushed(S).body = IF "body" \in S THEN mem.body ELSE disk.body
         /\ Flushed(S).chunks = IF "chunks" \in S THEN mem.chunks ELSE disk.chunks
         /\ Flushed(S).anchors = IF "anchors" \in S THEN mem.anchors ELSE disk.anchors
         /\ Flushed(S).graph = IF "graph" \in S THEN mem.graph ELSE disk.graph
<1>1. DOMAIN disk = {"row", "body", "chunks", "anchors", "graph"}
  BY DEF Stores
<1> DEFINE F == [row |-> IF "row" \in S THEN mem.row ELSE disk.row,
                 body |-> IF "body" \in S THEN mem.body ELSE disk.body,
                 chunks |-> IF "chunks" \in S THEN mem.chunks ELSE disk.chunks,
                 anchors |-> IF "anchors" \in S THEN mem.anchors ELSE disk.anchors,
                 graph |-> IF "graph" \in S THEN mem.graph ELSE disk.graph]
<1>2. Flushed(S) = F
  BY <1>1 DEF Flushed
<1>3. F \in Stores
  BY DEF Stores
<1> QED
  BY <1>2, <1>3

\* A write of the row leaves the other stores.
LEMMA RowWritten ==
  ASSUME NEW s \in Stores, NEW r \in Row
  PROVE  LET t == [s EXCEPT !.row = r]
         IN /\ t \in Stores /\ t.row = r /\ t.graph = s.graph
            /\ t.chunks = s.chunks /\ t.anchors = s.anchors /\ t.body = s.body
  BY DEF Stores

--------------------------------------------------------------------------------
\* Create: a call for a document that does not exist.
LEMMA CreateStep == ASSUME IInv, NEW op \in Ops, Create(op) PROVE IInv'
<1>1. /\ mem.graph = {} /\ disk.graph = {} /\ mem.chunks = {} /\ disk.chunks = {}
      /\ RowChunks = {}
  BY SMTT(20) DEF IInv, Create, Begin, Exists, RowsAgree, TypeOK, Stores, Named,
     ChunksStored,
     RowChunks, StagedChunks
<1> DEFINE p == Journal(op, "create", op, {})
<1>2. /\ p \in Patch /\ p.op = op /\ p.chunks = op \ RowChunks
      /\ p.mode = "create" /\ p.names = {}
  BY <1>1, OpsAssumption DEF Patch, Journal
<1>3. p # NoPatch
  BY <1>2, NoneAssumption
<1> DEFINE r == [status |-> "processing", chunks |-> {}, patch |-> p]
<1>4. /\ WriteRow(r) /\ pc' = "stage" /\ names' = {} /\ resume' = FALSE
      /\ jobs < MaxJobs /\ jobs' = jobs + 1
  BY DEF Create, Begin
<1> HIDE DEF p
<1>5. r \in Row /\ r.patch = p /\ r.chunks = RowChunks
  BY <1>1, <1>2 DEF Row
<1>6. r # NoRow
  BY <1>5, NoneAssumption
<1> HIDE DEF r
<1>7. /\ mem' \in Stores /\ mem'.row = r /\ mem'.graph = mem.graph
      /\ mem'.chunks = mem.chunks /\ mem'.anchors = mem.anchors
      /\ disk' \in Stores /\ disk'.row = r /\ disk'.graph = disk.graph
      /\ disk'.chunks = disk.chunks /\ disk'.anchors = disk.anchors
  BY <1>4, <1>5, RowWritten DEF IInv, TypeOK, WriteRow
<1>8. /\ RowChunks' = RowChunks /\ StagedChunks' = op \ RowChunks
      /\ Candidate' = p.names /\ patch' = p
  BY <1>7, <1>2, <1>3, <1>5, <1>6 DEF RowChunks, StagedChunks, Candidate, patch
<1>9. jobs' \in 0 .. MaxJobs
  BY <1>4, JobsAssumption DEF IInv, TypeOK
<1>10. TypeOK'
  BY <1>7, <1>4, <1>9 DEF TypeOK, Calling
<1>11. RowsAgree'
  BY <1>7 DEF IInv, RowsAgree
<1>12. AtWork'
  BY <1>3, <1>5, <1>6, <1>7 DEF IInv, AtWork
<1>13. JournalSound'
  BY <1>1, <1>2, <1>5, <1>7 DEF IInv, JournalSound
<1>14. ChunksStored'
  BY <1>1, <1>7, <1>8 DEF IInv, ChunksStored
<1>15. Named'
  BY <1>1, <1>7 DEF IInv, Named
<1>16. OwnKept'
  BY <1>7, <1>8 DEF IInv, OwnKept
<1>17. NothingLeft'
  BY <1>6, <1>7 DEF IInv, NothingLeft
<1>18. CallProgress'
  BY <1>4 DEF IInv, CallProgress
<1>19. FirstAttempt'
  BY <1>2, <1>4, <1>8 DEF IInv, FirstAttempt
<1>20. RollbackProgress'
  BY <1>4 DEF IInv, RollbackProgress, RollingBack
<1> QED
  BY <1>10, <1>11, <1>12, <1>13, <1>14, <1>15, <1>16, <1>17, <1>18, <1>19, <1>20 DEF IInv

\* Add: a call for one that does.
LEMMA AddStep == ASSUME IInv, NEW op \in Ops, Add(op) PROVE IInv'
<1>1. /\ mem.row = disk.row /\ mem.row \in Row /\ mem.row.chunks = RowChunks
      /\ StagedChunks = {}
  BY SMTT(20) DEF IInv, Add, Exists, Journaled, patch, RowsAgree, TypeOK, Stores,
     RowChunks, StagedChunks
<1>2. New(op) = op \ RowChunks
  BY <1>1 DEF New, IInv, ChunksStored
<1> DEFINE p == Journal(op, "patch", New(op), {})
<1>3. /\ p \in Patch /\ p.op = op /\ p.chunks = op \ RowChunks
      /\ p.mode = "patch" /\ p.names = {}
  BY <1>2, OpsAssumption DEF Patch, Journal
<1>4. p # NoPatch
  BY <1>3, NoneAssumption
<1> DEFINE r == [mem.row EXCEPT !.status = "processing", !.patch = p]
<1>5. /\ WriteRow(r) /\ pc' = "stage" /\ names' = {} /\ resume' = FALSE
      /\ jobs < MaxJobs /\ jobs' = jobs + 1
  BY DEF Add, Begin
<1> HIDE DEF p
<1>6. r \in Row /\ r.patch = p /\ r.chunks = RowChunks
  BY <1>1, <1>3 DEF Row
<1>7. r # NoRow
  BY <1>6, NoneAssumption
<1> HIDE DEF r
<1>8. /\ mem' \in Stores /\ mem'.row = r /\ mem'.graph = mem.graph
      /\ mem'.chunks = mem.chunks /\ mem'.anchors = mem.anchors
      /\ disk' \in Stores /\ disk'.row = r /\ disk'.graph = disk.graph
      /\ disk'.chunks = disk.chunks /\ disk'.anchors = disk.anchors
  BY <1>5, <1>6, RowWritten DEF IInv, TypeOK, WriteRow
<1>9. /\ RowChunks' = RowChunks /\ StagedChunks' = op \ RowChunks
      /\ Candidate' = p.names /\ patch' = p
  BY <1>8, <1>3, <1>4, <1>6, <1>7 DEF RowChunks, StagedChunks, Candidate, patch
<1>10. jobs' \in 0 .. MaxJobs
  BY <1>5, JobsAssumption DEF IInv, TypeOK
<1>11. TypeOK'
  BY <1>8, <1>5, <1>10 DEF TypeOK, Calling
<1>12. RowsAgree'
  BY <1>8 DEF IInv, RowsAgree
<1>13. AtWork'
  BY <1>4, <1>6, <1>7, <1>8 DEF IInv, AtWork
<1>14. JournalSound'
  BY <1>3, <1>6, <1>8 DEF IInv, JournalSound
<1>15. ChunksStored'
  BY <1>1, <1>8, <1>9 DEF IInv, ChunksStored
<1>16. Named'
  BY <1>1, <1>8, <1>9 DEF IInv, Named
<1>17. OwnKept'
  BY <1>8, <1>9 DEF IInv, OwnKept
<1>18. NothingLeft'
  BY <1>7, <1>8 DEF IInv, NothingLeft
<1>19. CallProgress'
  BY <1>5 DEF IInv, CallProgress
<1>20. FirstAttempt'
  BY <1>3, <1>9 DEF IInv, FirstAttempt, Unites
<1>21. RollbackProgress'
  BY <1>5 DEF IInv, RollbackProgress, RollingBack
<1> QED
  BY <1>11, <1>12, <1>13, <1>14, <1>15, <1>16, <1>17, <1>18, <1>19, <1>20, <1>21 DEF IInv

\* Resume: the call repeated.
LEMMA ResumeStep == ASSUME IInv, NEW op \in Ops, Resume(op) PROVE IInv'
<1>1. /\ mem.row = disk.row /\ mem.row \in Row /\ patch \in Patch /\ patch.op = op
      /\ mem.row.chunks = RowChunks /\ StagedChunks = patch.chunks /\ Candidate = patch.names
  BY SMTT(20) DEF IInv, Resume, Exists, Journaled, patch, RowsAgree, TypeOK, Stores, Row,
     RowChunks, StagedChunks, Candidate
<1>2. StagedChunks = op \ RowChunks /\ (patch.mode = "create" => RowChunks = {})
  BY <1>1, SMTT(20) DEF IInv, JournalSound, patch, StagedChunks, RowChunks, Resume,
     Journaled,
     Exists
<1>3. patch.mode \in {"create", "patch"} /\ patch.names \subseteq Name
  BY <1>1 DEF Patch
<1> DEFINE staged == IF patch.mode = "patch" THEN New(op) ELSE op
<1>4. staged = op \ RowChunks
  BY <1>1, <1>2, <1>3 DEF New, IInv, ChunksStored
<1> HIDE DEF staged
<1> DEFINE p == Journal(op, patch.mode, staged, patch.names)
<1>5. /\ p \in Patch /\ p.op = op /\ p.chunks = op \ RowChunks
      /\ p.mode = patch.mode /\ p.names = Candidate
  BY <1>1, <1>3, <1>4, OpsAssumption DEF Patch, Journal
<1>6. p # NoPatch
  BY <1>5, NoneAssumption
<1> DEFINE r == [mem.row EXCEPT !.status = "processing", !.patch = p]
<1>7. /\ WriteRow(r) /\ pc' = "stage" /\ names' = {} /\ resume' = TRUE
      /\ jobs < MaxJobs /\ jobs' = jobs + 1
  BY DEF Resume, Begin, staged
<1> HIDE DEF p
<1>8. r \in Row /\ r.patch = p /\ r.chunks = RowChunks
  BY <1>1, <1>5 DEF Row
<1>9. r # NoRow
  BY <1>8, NoneAssumption
<1> HIDE DEF r
<1>10. /\ mem' \in Stores /\ mem'.row = r /\ mem'.graph = mem.graph
       /\ mem'.chunks = mem.chunks /\ mem'.anchors = mem.anchors
       /\ disk' \in Stores /\ disk'.row = r /\ disk'.graph = disk.graph
       /\ disk'.chunks = disk.chunks /\ disk'.anchors = disk.anchors
  BY <1>7, <1>8, RowWritten DEF IInv, TypeOK, WriteRow
<1>11. /\ RowChunks' = RowChunks /\ StagedChunks' = op \ RowChunks
       /\ Candidate' = p.names /\ patch' = p
  BY <1>10, <1>5, <1>6, <1>8, <1>9 DEF RowChunks, StagedChunks, Candidate, patch
<1>12. jobs' \in 0 .. MaxJobs
  BY <1>7, JobsAssumption DEF IInv, TypeOK
<1>13. TypeOK'
  BY <1>7, <1>10, <1>12 DEF IInv, TypeOK, Calling
<1>14. RowsAgree'
  BY <1>10 DEF IInv, RowsAgree
<1>15. AtWork'
  BY <1>6, <1>8, <1>9, <1>10 DEF IInv, AtWork
<1>16. JournalSound'
  BY <1>5, <1>8, <1>10, <1>2 DEF IInv, JournalSound
<1>17. ChunksStored'
  BY <1>10, <1>11, <1>2 DEF IInv, ChunksStored
<1>18. Named'
  BY <1>5, <1>10, <1>11, <1>2 DEF IInv, Named
<1>19. OwnKept'
  BY <1>10, <1>11 DEF IInv, OwnKept
<1>20. NothingLeft'
  BY <1>9, <1>10 DEF IInv, NothingLeft
<1>21. CallProgress'
  BY <1>7 DEF IInv, CallProgress
<1>22. FirstAttempt'
  BY <1>7 DEF IInv, FirstAttempt, Unites
<1>23. RollbackProgress'
  BY <1>7 DEF IInv, RollbackProgress, RollingBack
<1> QED
  BY <1>13, <1>14, <1>15, <1>16, <1>17, <1>18, <1>19, <1>20, <1>21, <1>22, <1>23 DEF IInv

\* Stage: the chunks staged.
LEMMA StageStep == ASSUME IInv, Stage PROVE IInv'
<1>1. TypeOK'
  <2>1. mem.row \in Row /\ patch \in Patch
    BY DEF IInv, Stage, Calling, AtWork, TypeOK, Stores, Row, patch
  <2>2. mem.chunks \cup patch.chunks \in SUBSET Chunk
    BY <2>1 DEF IInv, TypeOK, Stores, Patch, Chunk
  <2> HIDE DEF patch
  <2>3. mem' \in Stores /\ disk' \in Stores
    BY <2>2 DEF IInv, TypeOK, Stores, Stage
  <2> QED
    BY <2>3 DEF IInv, TypeOK, Stage, Goto, Calling
<1>2. RowsAgree'
  BY DEF IInv, Stage, RowsAgree
<1>3. AtWork'
  BY DEF IInv, Stage, AtWork, TypeOK
<1>4. JournalSound'
  BY DEF IInv, Stage, JournalSound
<1>5. ChunksStored'
  BY DEF IInv, Stage, patch, ChunksStored, RowChunks, StagedChunks, RowsAgree, AtWork,
     Calling
<1>6. Named'
  BY DEF IInv, Stage, Named, RowChunks, StagedChunks, Candidate
<1>7. OwnKept'
  BY DEF IInv, Stage, OwnKept, RowChunks
<1>8. NothingLeft'
  BY DEF IInv, Stage, NothingLeft
<1>9. CallProgress'
  BY DEF IInv, Stage, Goto, patch, CallProgress
<1>10. FirstAttempt'
  BY DEF IInv, Stage, Goto, patch, FirstAttempt, Calling, Unites
<1>11. RollbackProgress'
  BY DEF IInv, Stage, Goto, RollbackProgress, RollingBack
<1> QED
  BY <1>1, <1>2, <1>3, <1>4, <1>5, <1>6, <1>7, <1>8, <1>9, <1>10, <1>11 DEF IInv

\* Extract: the extraction and the flush of the chunks.
LEMMA ExtractStep == ASSUME IInv, Extract PROVE IInv'
<1>1. TypeOK'
  BY Flushing DEF IInv, Extract, TypeOK, Calling
<1>2. RowsAgree'
  BY Flushing DEF IInv, Extract, RowsAgree, TypeOK
<1>3. AtWork'
  BY DEF IInv, Extract, AtWork, Calling
<1>4. JournalSound'
  BY Flushing DEF IInv, Extract, JournalSound, TypeOK
<1>5. ChunksStored'
  BY Flushing DEF IInv, Extract, ChunksStored, RowChunks, StagedChunks, TypeOK
<1>6. Named'
  BY Flushing DEF IInv, Extract, Named, RowChunks, StagedChunks, Candidate, TypeOK
<1>7. OwnKept'
  BY Flushing DEF IInv, Extract, OwnKept, RowChunks, TypeOK
<1>8. NothingLeft'
  BY Flushing DEF IInv, Extract, NothingLeft, TypeOK
<1>9. CallProgress'
  BY Flushing DEF IInv, Extract, CallProgress, Calling, patch, TypeOK
<1>10. FirstAttempt'
  BY DEF IInv, Extract, FirstAttempt, Calling, Unites, patch
<1>11. RollbackProgress'
  BY DEF IInv, Extract, RollbackProgress, RollingBack
<1> QED
  BY <1>1, <1>2, <1>3, <1>4, <1>5, <1>6, <1>7, <1>8, <1>9, <1>10, <1>11 DEF IInv

\* Apply: the candidates journaled, still before the graph.
LEMMA ApplyStep == ASSUME IInv, Apply PROVE IInv'
<1>1. /\ mem.row = disk.row /\ mem.row \in Row /\ mem.row # NoRow
      /\ patch # NoPatch /\ patch \in Patch /\ names \subseteq Name
      /\ mem.row.chunks = RowChunks /\ StagedChunks = patch.chunks /\ Candidate = patch.names
  BY SMTT(20) DEF IInv, Apply, AtWork, Calling, patch, RowsAgree, TypeOK, Stores, Row,
     RowChunks, StagedChunks, Candidate
<1>2. /\ patch.chunks = patch.op \ RowChunks
      /\ patch.mode = "create" => RowChunks = {}
      /\ patch.mode \in {"create", "patch"}
  BY <1>1 DEF IInv, JournalSound, patch, Patch
<1> DEFINE p == [patch EXCEPT !.names = Candidates(@)]
<1>3. /\ p \in Patch /\ p.op = patch.op /\ p.mode = patch.mode /\ p.chunks = patch.chunks
      /\ p.names = patch.names \cup names
  BY <1>1 DEF Patch, Candidates
<1>4. p # NoPatch
  BY <1>3, NoneAssumption
<1> DEFINE r == [mem.row EXCEPT !.patch = p]
<1>5. WriteRow(r)
  <2>1. [mem.row EXCEPT !.patch.names = Candidates(@)] = r
    BY <1>1 DEF patch, Row
  <2> QED
    BY <2>1 DEF Apply
<1> HIDE DEF p
<1>6. r \in Row /\ r.patch = p /\ r.chunks = RowChunks
  BY <1>1, <1>3 DEF Row
<1>7. r # NoRow
  BY <1>6, NoneAssumption
<1> HIDE DEF r
<1>8. /\ mem' \in Stores /\ mem'.row = r /\ mem'.graph = mem.graph
      /\ mem'.chunks = mem.chunks /\ mem'.anchors = mem.anchors
      /\ disk' \in Stores /\ disk'.row = r /\ disk'.graph = disk.graph
      /\ disk'.chunks = disk.chunks /\ disk'.anchors = disk.anchors
  BY <1>5, <1>6, RowWritten DEF IInv, TypeOK, WriteRow
<1>9. /\ RowChunks' = RowChunks /\ StagedChunks' = StagedChunks
      /\ Candidate' = Candidate \cup names /\ patch' = p
  BY <1>1, <1>8, <1>3, <1>4, <1>6, <1>7 DEF RowChunks, StagedChunks, Candidate, patch
<1>10. /\ pc = "apply" /\ pc' = IF patch.mode = "create" THEN "anchor" ELSE "merge"
       /\ names' = names /\ resume' = resume /\ jobs' = jobs
  BY DEF Apply, Goto
<1>11. TypeOK'
  BY <1>8, <1>10 DEF IInv, TypeOK, Calling
<1>12. RowsAgree'
  BY <1>8 DEF IInv, RowsAgree
<1>13. AtWork'
  BY <1>4, <1>6, <1>7, <1>8 DEF IInv, AtWork
<1>14. JournalSound'
  BY <1>2, <1>3, <1>6, <1>8 DEF IInv, JournalSound
<1>15. ChunksStored'
  BY <1>8, <1>9 DEF IInv, ChunksStored
<1>16. Named'
  BY <1>8, <1>9 DEF IInv, Named
<1>17. OwnKept'
  BY <1>8, <1>9 DEF IInv, OwnKept
<1>18. NothingLeft'
  BY <1>7, <1>8 DEF IInv, NothingLeft
<1>19. CallProgress'
  BY <1>3, <1>8, <1>9, <1>10 DEF IInv, CallProgress, Calling
<1>20. FirstAttempt'
  <2>1. Unites' = Unites
    BY <1>3, <1>9, <1>10, Zenon DEF Unites
  <2>2. ~ Unites => patch.mode = "create" /\ patch.names = {}
    <3>1. ~ Unites => patch.mode # "patch"
      BY Zenon DEF Unites
    <3>2. ~ Unites => patch.names = {}
      BY <1>10 DEF IInv, FirstAttempt, Calling
    <3> QED
      BY <3>1, <3>2, <1>2, Zenon
  <2>3. ~ Unites' => patch'.names = names' /\ pc' = "anchor"
    BY <2>1, <2>2, <1>3, <1>9, <1>10
  <2> QED
    BY <2>3 DEF FirstAttempt
<1>21. RollbackProgress'
  BY <1>10 DEF IInv, RollbackProgress, RollingBack
<1> QED
  BY <1>11, <1>12, <1>13, <1>14, <1>15, <1>16, <1>17, <1>18, <1>19, <1>20, <1>21 DEF IInv

\* Anchor: the anchors of a created document.
LEMMA AnchorStep == ASSUME IInv, Anchor PROVE IInv'
<1>1. TypeOK'
  BY DEF IInv, Anchor, Goto, TypeOK, Calling, Stores
<1>2. RowsAgree'
  BY DEF IInv, Anchor, RowsAgree
<1>3. AtWork'
  BY DEF IInv, Anchor, AtWork, Calling
<1>4. JournalSound'
  BY DEF IInv, Anchor, JournalSound
<1>5. ChunksStored'
  BY DEF IInv, Anchor, ChunksStored, RowChunks, StagedChunks
<1>6. Named'
  BY DEF IInv, Anchor, Named, RowChunks, StagedChunks, Candidate, patch, RowsAgree,
     AtWork, Calling, JournalSound, CallProgress
<1>7. OwnKept'
  BY DEF IInv, Anchor, OwnKept, RowChunks
<1>8. NothingLeft'
  BY DEF IInv, Anchor, NothingLeft, TypeOK, RowsAgree, AtWork
<1>9. CallProgress'
  BY DEF IInv, Anchor, Goto, CallProgress, Calling, patch
<1>10. FirstAttempt'
  BY DEF IInv, Anchor, Goto, FirstAttempt, Calling, Unites, patch
<1>11. RollbackProgress'
  BY DEF IInv, Anchor, Goto, RollbackProgress, RollingBack
<1> QED
  BY <1>1, <1>2, <1>3, <1>4, <1>5, <1>6, <1>7, <1>8, <1>9, <1>10, <1>11 DEF IInv

\* Anchored: their flush.
LEMMA AnchoredStep == ASSUME IInv, Anchored PROVE IInv'
<1>1. TypeOK'
  BY Flushing DEF IInv, Anchored, Goto, TypeOK, Calling
<1>2. RowsAgree'
  BY Flushing DEF IInv, Anchored, RowsAgree, TypeOK
<1>3. AtWork'
  BY DEF IInv, Anchored, AtWork, TypeOK
<1>4. JournalSound'
  BY Flushing DEF IInv, Anchored, JournalSound, TypeOK
<1>5. ChunksStored'
  BY Flushing DEF IInv, Anchored, ChunksStored, RowChunks, StagedChunks, TypeOK
<1>6. Named'
  BY Flushing DEF IInv, Anchored, Named, RowChunks, StagedChunks, Candidate, TypeOK
<1>7. OwnKept'
  BY Flushing DEF IInv, Anchored, OwnKept, RowChunks, TypeOK
<1>8. NothingLeft'
  BY Flushing DEF IInv, Anchored, NothingLeft, TypeOK
<1>9. CallProgress'
  BY Flushing DEF IInv, Anchored, Goto, CallProgress, Calling, patch, TypeOK
<1>10. FirstAttempt'
  BY DEF IInv, Anchored, Goto, FirstAttempt, Calling, Unites, patch
<1>11. RollbackProgress'
  BY DEF IInv, Anchored, Goto, RollbackProgress, RollingBack
<1> QED
  BY <1>1, <1>2, <1>3, <1>4, <1>5, <1>6, <1>7, <1>8, <1>9, <1>10, <1>11 DEF IInv

\* Merge: one contribution merged.
LEMMA MergeStep == ASSUME IInv, Merge PROVE IInv'
<1>1. TypeOK'
  BY DEF IInv, Merge, Contributions, TypeOK, RollingBack, Stores, CallProgress
<1>2. RowsAgree'
  BY DEF IInv, Merge, RowsAgree
<1>3. AtWork'
  BY DEF IInv, Merge, AtWork
<1>4. JournalSound'
  BY DEF IInv, Merge, JournalSound
<1>5. ChunksStored'
  BY DEF IInv, Merge, ChunksStored, RowChunks, StagedChunks
<1>6. Named'
  BY DEF IInv, Merge, Contributions, patch, Named, RowChunks, StagedChunks, Candidate,
     RowsAgree, AtWork, Calling, CallProgress
<1>7. OwnKept'
  BY DEF IInv, Merge, OwnKept, RowChunks
<1>8. NothingLeft'
  BY DEF IInv, Merge, NothingLeft
<1>9. CallProgress'
  BY DEF IInv, Merge, patch, CallProgress
<1>10. FirstAttempt'
  BY DEF IInv, Merge, patch, FirstAttempt, Unites
<1>11. RollbackProgress'
  BY DEF IInv, Merge, RollbackProgress, RollingBack
<1> QED
  BY <1>1, <1>2, <1>3, <1>4, <1>5, <1>6, <1>7, <1>8, <1>9, <1>10, <1>11 DEF IInv

\* InsertDone: the flush after the merge.
LEMMA InsertDoneStep == ASSUME IInv, InsertDone PROVE IInv'
<1>1. TypeOK'
  BY Flushing DEF IInv, InsertDone, Goto, TypeOK, Calling
<1>2. RowsAgree'
  BY Flushing DEF IInv, InsertDone, RowsAgree, TypeOK
<1>3. AtWork'
  BY DEF IInv, InsertDone, AtWork, Calling
<1>4. JournalSound'
  BY Flushing DEF IInv, InsertDone, Derived, JournalSound, TypeOK
<1>5. ChunksStored'
  BY Flushing DEF IInv, InsertDone, Derived, ChunksStored, RowChunks, StagedChunks, TypeOK
<1>6. Named'
  BY Flushing DEF IInv, InsertDone, Derived, Named, RowChunks, StagedChunks, Candidate,
     TypeOK
<1>7. OwnKept'
  BY Flushing DEF IInv, InsertDone, Derived, OwnKept, TypeOK
<1>8. NothingLeft'
  BY Flushing DEF IInv, InsertDone, Derived, NothingLeft, TypeOK
<1>9. CallProgress'
  BY Flushing DEF IInv, InsertDone, Goto, Derived, patch, CallProgress, Calling, TypeOK
<1>10. FirstAttempt'
  BY DEF IInv, InsertDone, Goto, patch, FirstAttempt, Calling, Unites
<1>11. RollbackProgress'
  BY DEF IInv, InsertDone, Goto, RollbackProgress, RollingBack
<1> QED
  BY <1>1, <1>2, <1>3, <1>4, <1>5, <1>6, <1>7, <1>8, <1>9, <1>10, <1>11 DEF IInv

\* Union: the anchors united with the candidates.
LEMMA UnionStep == ASSUME IInv, Union PROVE IInv'
<1>1. TypeOK'
  BY DEF IInv, Union, Goto, patch, TypeOK, Calling, Stores, Row, Patch, AtWork
<1>2. RowsAgree'
  BY DEF IInv, Union, RowsAgree
<1>3. AtWork'
  BY DEF IInv, Union, AtWork, Calling
<1>4. JournalSound'
  BY DEF IInv, Union, JournalSound
<1>5. ChunksStored'
  BY DEF IInv, Union, ChunksStored, RowChunks, StagedChunks
<1>6. Named'
  BY DEF IInv, Union, Named, RowChunks, StagedChunks, Candidate
<1>7. OwnKept'
  BY DEF IInv, Union, OwnKept, RowChunks
<1>8. NothingLeft'
  BY DEF IInv, Union, NothingLeft, TypeOK, RowsAgree, AtWork
<1>9. CallProgress'
  BY DEF IInv, Union, Goto, Unites, patch, CallProgress, Calling
<1>10. FirstAttempt'
  BY DEF IInv, Union, Goto, Unites, patch, FirstAttempt, Calling
<1>11. RollbackProgress'
  BY DEF IInv, Union, Goto, RollbackProgress, RollingBack
<1> QED
  BY <1>1, <1>2, <1>3, <1>4, <1>5, <1>6, <1>7, <1>8, <1>9, <1>10, <1>11 DEF IInv

\* Commit: the journal dropped, the chunks owned.
LEMMA CommitStep == ASSUME IInv, Commit PROVE IInv'
<1>1. /\ mem.row = disk.row /\ mem.row \in Row /\ mem.row # NoRow
      /\ patch # NoPatch /\ patch \in Patch
      /\ mem.row.chunks = RowChunks /\ StagedChunks = patch.chunks /\ Candidate = patch.names
  BY SMTT(20) DEF IInv, Commit, AtWork, Calling, RollingBack, patch, RowsAgree, TypeOK,
     Stores, Row,
     RowChunks, StagedChunks, Candidate
<1> DEFINE kept == IF patch.mode = "patch" THEN mem.row.chunks ELSE {}
           r == [status |-> "processed", chunks |-> kept \cup patch.chunks, patch |-> NoPatch]
<1>2. r \in Row /\ r # NoRow /\ r.patch = NoPatch
  <2>1. r \in Row
    BY <1>1, SMTT(20) DEF Row, Patch, Chunk
  <2> QED
    BY <2>1, NoneAssumption
<1>3. mem' = [mem EXCEPT !.row = r] /\ disk' = [Flushed({"anchors"}) EXCEPT !.row = r]
  BY DEF Commit
<1>4. r.chunks = RowChunks \cup StagedChunks
  BY <1>1, SMTT(20) DEF IInv, JournalSound, patch, Patch
<1> HIDE DEF r
<1>5. /\ mem' \in Stores /\ mem'.row = r /\ mem'.graph = mem.graph
      /\ mem'.chunks = mem.chunks /\ mem'.anchors = mem.anchors
      /\ disk' \in Stores /\ disk'.row = r /\ disk'.graph = disk.graph
      /\ disk'.chunks = disk.chunks /\ disk'.anchors = mem.anchors
  BY <1>3, <1>2, RowWritten, Flushing DEF IInv, TypeOK
<1>6. /\ RowChunks' = RowChunks \cup StagedChunks /\ StagedChunks' = {} /\ Candidate' = {}
  BY <1>2, <1>5, <1>4 DEF RowChunks, StagedChunks, Candidate
<1>7. pc = "united" /\ pc' = "idle" /\ names' = names /\ resume' = resume /\ jobs' = jobs
  BY DEF Commit, Goto
<1>8. /\ Candidate \subseteq mem.anchors /\ mem.graph = disk.graph
      /\ StagedChunks \subseteq mem.chunks /\ StagedChunks \subseteq disk.chunks
  BY <1>1, <1>7, SMTT(20) DEF IInv, CallProgress, FirstAttempt, Calling, patch
<1>9. TypeOK'
  BY <1>5, <1>7 DEF IInv, TypeOK
<1>10. RowsAgree'
  BY <1>5 DEF IInv, RowsAgree
<1>11. AtWork'
  BY <1>7 DEF IInv, AtWork, Calling, RollingBack
<1>12. JournalSound'
  BY <1>2, <1>5 DEF IInv, JournalSound
<1>13. ChunksStored'
  BY <1>5, <1>6, <1>8 DEF IInv, ChunksStored
<1>14. Named'
  BY <1>5, <1>6, <1>8 DEF IInv, Named
<1>15. OwnKept'
  BY <1>5, <1>8 DEF IInv, OwnKept
<1>16. NothingLeft'
  BY <1>2, <1>5 DEF IInv, NothingLeft
<1>17. CallProgress'
  BY <1>7 DEF IInv, CallProgress, Calling
<1>18. FirstAttempt'
  BY <1>7 DEF IInv, FirstAttempt, Calling
<1>19. RollbackProgress'
  BY <1>7 DEF IInv, RollbackProgress, RollingBack
<1> QED
  BY <1>9, <1>10, <1>11, <1>12, <1>13, <1>14, <1>15, <1>16, <1>17, <1>18, <1>19 DEF IInv

\* CallFails: an error or a cancellation.
LEMMA CallFailsStep == ASSUME IInv, CallFails PROVE IInv'
<1>1. /\ mem.row = disk.row /\ mem.row \in Row /\ mem.row # NoRow
      /\ patch # NoPatch /\ patch \in Patch
      /\ mem.row.chunks = RowChunks /\ StagedChunks = patch.chunks /\ Candidate = patch.names
  BY SMTT(20) DEF IInv, CallFails, AtWork, Calling, patch, RowsAgree, TypeOK, Stores, Row,
     RowChunks, StagedChunks, Candidate
<1>2. PICK r \in {mem.row, [mem.row EXCEPT !.status = "failed"]}, drop \in {{}, Derived} :
       /\ mem' = [s \in DOMAIN mem |-> IF s = "row" THEN r
                                       ELSE IF s \in drop THEN disk[s] ELSE mem[s]]
       /\ disk' = [disk EXCEPT !.row = r]
  BY DEF CallFails
<1>3. r \in Row /\ r.chunks = RowChunks /\ r.patch = patch /\ r # NoRow
  BY <1>1, <1>2, NoneAssumption DEF Row, patch
<1>4. /\ disk' \in Stores /\ disk'.row = r /\ disk'.graph = disk.graph
      /\ disk'.chunks = disk.chunks /\ disk'.anchors = disk.anchors
  BY <1>3, <1>2, SMTT(20) DEF IInv, TypeOK, Stores
<1>5. mem' = [row |-> r, body |-> IF drop = {} THEN mem.body ELSE disk.body,
              chunks |-> IF drop = {} THEN mem.chunks ELSE disk.chunks,
              anchors |-> IF drop = {} THEN mem.anchors ELSE disk.anchors,
              graph |-> IF drop = {} THEN mem.graph ELSE disk.graph]
  <2>1. DOMAIN mem = {"row", "body", "chunks", "anchors", "graph"}
    BY DEF IInv, TypeOK, Stores
  <2> QED
    BY <1>2, <2>1, SMTT(20) DEF Derived
<1>6. /\ mem' \in Stores /\ mem'.row = r
      /\ mem'.graph \in {mem.graph, disk.graph}
      /\ mem'.chunks \in {mem.chunks, disk.chunks}
      /\ mem'.anchors \in {mem.anchors, disk.anchors}
  BY <1>3, <1>5, SMTT(20) DEF IInv, TypeOK, Stores
<1>7. /\ patch.chunks = patch.op \ RowChunks
      /\ patch.mode = "create" => RowChunks = {}
  BY <1>1 DEF IInv, JournalSound, patch
<1>8. /\ RowChunks' = RowChunks /\ StagedChunks' = StagedChunks
      /\ Candidate' = Candidate
  BY <1>1, <1>3, <1>4 DEF RowChunks, StagedChunks, Candidate
<1>9. pc' = "idle" /\ names' = names /\ resume' = resume /\ jobs' = jobs
  BY DEF CallFails, Goto
<1>10. TypeOK'
  BY <1>4, <1>6, <1>9 DEF IInv, TypeOK
<1>11. RowsAgree'
  BY <1>4, <1>6 DEF IInv, RowsAgree
<1>12. AtWork'
  BY <1>9 DEF IInv, AtWork, Calling, RollingBack
<1>13. JournalSound'
  BY <1>3, <1>4, <1>7 DEF IInv, JournalSound
<1>14. ChunksStored'
  BY <1>4, <1>6, <1>8 DEF IInv, ChunksStored
<1>15. Named'
  BY <1>4, <1>6, <1>8 DEF IInv, Named
<1>16. OwnKept'
  BY <1>4, <1>6, <1>8 DEF IInv, OwnKept
<1>17. NothingLeft'
  BY <1>3, <1>4 DEF IInv, NothingLeft
<1>18. CallProgress'
  BY <1>9 DEF IInv, CallProgress, Calling
<1>19. FirstAttempt'
  BY <1>9 DEF IInv, FirstAttempt, Calling
<1>20. RollbackProgress'
  BY <1>9 DEF IInv, RollbackProgress, RollingBack
<1> QED
  BY <1>10, <1>11, <1>12, <1>13, <1>14, <1>15, <1>16, <1>17, <1>18, <1>19, <1>20 DEF IInv

\* StartRollback: a scan takes a journaled document.
LEMMA StartRollbackStep == ASSUME IInv, StartRollback PROVE IInv'
<1>1. TypeOK'
  BY JobsAssumption DEF IInv, StartRollback, TypeOK, RollingBack
<1>2. RowsAgree'
  BY DEF IInv, StartRollback, Exists, Journaled, RowsAgree
<1>3. AtWork'
  BY DEF IInv, StartRollback, Exists, Journaled, AtWork
<1>4. JournalSound'
  BY DEF IInv, StartRollback, JournalSound
<1>5. ChunksStored'
  BY DEF IInv, StartRollback, ChunksStored, RowChunks, StagedChunks
<1>6. Named'
  BY DEF IInv, StartRollback, Named, RowChunks, StagedChunks, Candidate
<1>7. OwnKept'
  BY DEF IInv, StartRollback, OwnKept, RowChunks
<1>8. NothingLeft'
  BY DEF IInv, StartRollback, NothingLeft
<1>9. CallProgress'
  BY DEF IInv, StartRollback, CallProgress, Calling
<1>10. FirstAttempt'
  BY DEF IInv, StartRollback, FirstAttempt, Calling
<1>11. RollbackProgress'
  BY DEF IInv, StartRollback, RollbackProgress
<1> QED
  BY <1>1, <1>2, <1>3, <1>4, <1>5, <1>6, <1>7, <1>8, <1>9, <1>10, <1>11 DEF IInv

\* Unmerge: one staged contribution removed.
LEMMA UnmergeStep == ASSUME IInv, Unmerge PROVE IInv'
<1>1. TypeOK'
  BY DEF IInv, Unmerge, TypeOK, Stores
<1>2. RowsAgree'
  BY DEF IInv, Unmerge, RowsAgree
<1>3. AtWork'
  BY DEF IInv, Unmerge, AtWork
<1>4. JournalSound'
  BY DEF IInv, Unmerge, JournalSound
<1>5. ChunksStored'
  BY DEF IInv, Unmerge, ChunksStored, RowChunks, StagedChunks
<1>6. Named'
  BY DEF IInv, Unmerge, Named, RowChunks, StagedChunks, Candidate
<1>7. OwnKept'
  BY DEF IInv, Unmerge, Staged, patch, OwnKept, RowChunks, RowsAgree, AtWork, RollingBack,
     JournalSound
<1>8. NothingLeft'
  BY DEF IInv, Unmerge, NothingLeft
<1>9. CallProgress'
  BY DEF IInv, Unmerge, patch, CallProgress
<1>10. FirstAttempt'
  BY DEF IInv, Unmerge, FirstAttempt, Calling
<1>11. RollbackProgress'
  BY DEF IInv, Unmerge, RollbackProgress
<1> QED
  BY <1>1, <1>2, <1>3, <1>4, <1>5, <1>6, <1>7, <1>8, <1>9, <1>10, <1>11 DEF IInv

\* Unmerged: the flush after them.
LEMMA UnmergedStep == ASSUME IInv, Unmerged PROVE IInv'
<1>1. TypeOK'
  BY Flushing DEF IInv, Unmerged, Goto, TypeOK, RollingBack
<1>2. RowsAgree'
  BY Flushing DEF IInv, Unmerged, RowsAgree, TypeOK
<1>3. AtWork'
  BY DEF IInv, Unmerged, AtWork, TypeOK
<1>4. JournalSound'
  BY Flushing DEF IInv, Unmerged, Derived, JournalSound, TypeOK
<1>5. ChunksStored'
  BY Flushing DEF IInv, Unmerged, Derived, ChunksStored, RowChunks, StagedChunks, TypeOK
<1>6. Named'
  BY Flushing DEF IInv, Unmerged, Derived, Named, RowChunks, StagedChunks, Candidate,
     TypeOK
<1>7. OwnKept'
  BY Flushing DEF IInv, Unmerged, Derived, OwnKept, TypeOK
<1>8. NothingLeft'
  BY Flushing DEF IInv, Unmerged, Derived, NothingLeft, TypeOK
<1>9. CallProgress'
  BY DEF IInv, Unmerged, Goto, CallProgress, Calling
<1>10. FirstAttempt'
  BY DEF IInv, Unmerged, Goto, FirstAttempt, Calling
<1>11. RollbackProgress'
  BY Flushing DEF IInv, Unmerged, Goto, Derived, Staged, patch, RollbackProgress, TypeOK
<1> QED
  BY <1>1, <1>2, <1>3, <1>4, <1>5, <1>6, <1>7, <1>8, <1>9, <1>10, <1>11 DEF IInv

\* DropChunks: the staged chunks removed.
LEMMA DropChunksStep == ASSUME IInv, DropChunks PROVE IInv'
<1>1. TypeOK'
  BY DEF IInv, DropChunks, Goto, TypeOK, RollingBack, Stores
<1>2. RowsAgree'
  BY DEF IInv, DropChunks, RowsAgree
<1>3. AtWork'
  BY DEF IInv, DropChunks, AtWork, TypeOK
<1>4. JournalSound'
  BY DEF IInv, DropChunks, JournalSound
<1>5. ChunksStored'
  BY DEF IInv, DropChunks, patch, ChunksStored, RowChunks, StagedChunks, RowsAgree,
     AtWork, RollingBack, JournalSound
<1>6. Named'
  BY DEF IInv, DropChunks, Named, RowChunks, StagedChunks, Candidate
<1>7. OwnKept'
  BY DEF IInv, DropChunks, OwnKept, RowChunks
<1>8. NothingLeft'
  BY DEF IInv, DropChunks, NothingLeft
<1>9. CallProgress'
  BY DEF IInv, DropChunks, Goto, CallProgress, Calling
<1>10. FirstAttempt'
  BY DEF IInv, DropChunks, Goto, FirstAttempt, Calling
<1>11. RollbackProgress'
  BY DEF IInv, DropChunks, Goto, patch, RollbackProgress, RowChunks, RollingBack, Staged,
     RowsAgree, AtWork, StagedChunks, JournalSound, ChunksStored
<1> QED
  BY <1>1, <1>2, <1>3, <1>4, <1>5, <1>6, <1>7, <1>8, <1>9, <1>10, <1>11 DEF IInv

\* ChunksDropped: their flush.
LEMMA ChunksDroppedStep == ASSUME IInv, ChunksDropped PROVE IInv'
<1>1. TypeOK'
  BY Flushing DEF IInv, ChunksDropped, Goto, TypeOK, RollingBack
<1>2. RowsAgree'
  BY Flushing DEF IInv, ChunksDropped, RowsAgree, TypeOK
<1>3. AtWork'
  BY DEF IInv, ChunksDropped, AtWork, TypeOK
<1>4. JournalSound'
  BY Flushing DEF IInv, ChunksDropped, JournalSound, TypeOK
<1>5. ChunksStored'
  BY Flushing DEF IInv, ChunksDropped, ChunksStored, RowChunks, StagedChunks, TypeOK
<1>6. Named'
  BY Flushing DEF IInv, ChunksDropped, Named, RowChunks, StagedChunks, Candidate, TypeOK
<1>7. OwnKept'
  BY Flushing DEF IInv, ChunksDropped, OwnKept, RowChunks, TypeOK
<1>8. NothingLeft'
  BY Flushing DEF IInv, ChunksDropped, NothingLeft, TypeOK
<1>9. CallProgress'
  BY DEF IInv, ChunksDropped, Goto, CallProgress, Calling
<1>10. FirstAttempt'
  BY DEF IInv, ChunksDropped, Goto, FirstAttempt, Calling
<1>11. RollbackProgress'
  BY Flushing DEF IInv, ChunksDropped, Goto, patch, RollbackProgress, RowChunks,
     RollingBack, Staged, TypeOK, Stores, Row, Patch, RowsAgree, AtWork
<1> QED
  BY <1>1, <1>2, <1>3, <1>4, <1>5, <1>6, <1>7, <1>8, <1>9, <1>10, <1>11 DEF IInv

\* Prune: the anchors without the candidates that nothing owns.
LEMMA PruneStep == ASSUME IInv, Prune PROVE IInv'
<1>1. TypeOK'
  BY DEF IInv, Prune, Goto, TypeOK, RollingBack, Stores
<1>2. RowsAgree'
  BY DEF IInv, Prune, RowsAgree
<1>3. AtWork'
  BY DEF IInv, Prune, AtWork, TypeOK
<1>4. JournalSound'
  BY DEF IInv, Prune, JournalSound
<1>5. ChunksStored'
  BY DEF IInv, Prune, ChunksStored, RowChunks, StagedChunks
<1>6. Named'
  BY DEF IInv, Prune, Owned, patch, Named, RowChunks, StagedChunks, Candidate, TypeOK,
     Stores, RowsAgree, AtWork, Calling, RollbackProgress
<1>7. OwnKept'
  BY DEF IInv, Prune, OwnKept, RowChunks
<1>8. NothingLeft'
  BY DEF IInv, Prune, NothingLeft
<1>9. CallProgress'
  BY DEF IInv, Prune, Goto, CallProgress, Calling
<1>10. FirstAttempt'
  BY DEF IInv, Prune, Goto, FirstAttempt, Calling
<1>11. RollbackProgress'
  BY DEF IInv, Prune, Goto, patch, RollbackProgress, RowChunks, RollingBack, Staged
<1> QED
  BY <1>1, <1>2, <1>3, <1>4, <1>5, <1>6, <1>7, <1>8, <1>9, <1>10, <1>11 DEF IInv

\* Restore: the row as it was, without a journal.
LEMMA RestoreStep == ASSUME IInv, Restore PROVE IInv'
<1>1. /\ mem.row = disk.row /\ mem.row \in Row /\ mem.row # NoRow
      /\ patch # NoPatch /\ patch \in Patch
      /\ mem.row.chunks = RowChunks /\ StagedChunks = patch.chunks /\ Candidate = patch.names
  BY SMTT(20) DEF IInv, Restore, AtWork, Calling, RollingBack, patch, RowsAgree, TypeOK,
     Stores, Row,
     RowChunks, StagedChunks, Candidate
<1> DEFINE r == [status |-> "processed", chunks |-> mem.row.chunks \ patch.chunks,
                  patch |-> NoPatch]
<1>2. r \in Row /\ r # NoRow /\ r.patch = NoPatch
  <2>1. r \in Row
    BY <1>1, SMTT(20) DEF Row
  <2> QED
    BY <2>1, NoneAssumption
<1>3. mem' = [mem EXCEPT !.row = r] /\ disk' = [Flushed({"anchors"}) EXCEPT !.row = r]
  BY DEF Restore
<1>4. r.chunks = RowChunks
  BY <1>1, SMTT(20) DEF IInv, JournalSound, patch, Patch
<1> HIDE DEF r
<1>5. /\ mem' \in Stores /\ mem'.row = r /\ mem'.graph = mem.graph
      /\ mem'.chunks = mem.chunks /\ mem'.anchors = mem.anchors
      /\ disk' \in Stores /\ disk'.row = r /\ disk'.graph = disk.graph
      /\ disk'.chunks = disk.chunks /\ disk'.anchors = mem.anchors
  BY <1>3, <1>2, RowWritten, Flushing DEF IInv, TypeOK
<1>6. /\ RowChunks' = RowChunks /\ StagedChunks' = {} /\ Candidate' = {}
  BY <1>2, <1>5, <1>4 DEF RowChunks, StagedChunks, Candidate
<1>7. pc = "restore" /\ pc' = "idle" /\ names' = names /\ resume' = resume /\ jobs' = jobs
  BY DEF Restore, Goto
<1>8. /\ mem.graph = disk.graph /\ Staged = {}
      /\ mem.chunks = RowChunks /\ disk.chunks = RowChunks
  BY <1>7 DEF IInv, RollbackProgress, RollingBack
<1>9. \A x \in mem.graph : ~ (x[2] \in StagedChunks /\ x[1] \in Candidate)
  BY <1>1, <1>8 DEF Staged, patch
<1>10. TypeOK'
  BY <1>5, <1>7 DEF IInv, TypeOK
<1>11. RowsAgree'
  BY <1>5 DEF IInv, RowsAgree
<1>12. AtWork'
  BY <1>7 DEF IInv, AtWork, Calling, RollingBack
<1>13. JournalSound'
  BY <1>2, <1>5 DEF IInv, JournalSound
<1>14. ChunksStored'
  BY <1>5, <1>6, <1>8 DEF IInv, ChunksStored
<1>15. Named'
  BY <1>5, <1>6, <1>8, <1>9 DEF IInv, Named
<1>16. OwnKept'
  BY <1>5, <1>6 DEF IInv, OwnKept
<1>17. NothingLeft'
  BY <1>2, <1>5 DEF IInv, NothingLeft
<1>18. CallProgress'
  BY <1>7 DEF IInv, CallProgress, Calling
<1>19. FirstAttempt'
  BY <1>7 DEF IInv, FirstAttempt, Calling
<1>20. RollbackProgress'
  BY <1>7 DEF IInv, RollbackProgress, RollingBack
<1> QED
  BY <1>10, <1>11, <1>12, <1>13, <1>14, <1>15, <1>16, <1>17, <1>18, <1>19, <1>20 DEF IInv

\* Unanchor: a created document's anchors removed.
LEMMA UnanchorStep == ASSUME IInv, Unanchor PROVE IInv'
<1>1. TypeOK'
  BY DEF IInv, Unanchor, Goto, TypeOK, RollingBack, Stores
<1>2. RowsAgree'
  BY DEF IInv, Unanchor, RowsAgree
<1>3. AtWork'
  BY DEF IInv, Unanchor, AtWork, TypeOK
<1>4. JournalSound'
  BY DEF IInv, Unanchor, JournalSound
<1>5. ChunksStored'
  BY DEF IInv, Unanchor, ChunksStored, RowChunks, StagedChunks
<1>6. Named'
  BY DEF IInv, Unanchor, Named, RowChunks, StagedChunks, Candidate, patch, RowsAgree,
     AtWork, RollingBack, JournalSound, RollbackProgress
<1>7. OwnKept'
  BY DEF IInv, Unanchor, OwnKept, RowChunks
<1>8. NothingLeft'
  BY DEF IInv, Unanchor, NothingLeft
<1>9. CallProgress'
  BY DEF IInv, Unanchor, Goto, CallProgress, Calling
<1>10. FirstAttempt'
  BY DEF IInv, Unanchor, Goto, FirstAttempt, Calling
<1>11. RollbackProgress'
  BY DEF IInv, Unanchor, Goto, RollbackProgress, RowChunks, RollingBack, Staged, patch
<1> QED
  BY <1>1, <1>2, <1>3, <1>4, <1>5, <1>6, <1>7, <1>8, <1>9, <1>10, <1>11 DEF IInv

\* Remove: its row and its body removed, in memory.
LEMMA RemoveStep == ASSUME IInv, Remove PROVE IInv'
<1>1. TypeOK'
  <2>1. mem' \in Stores
    BY DEF IInv, TypeOK, Stores, Remove
  <2>2. disk' \in Stores
    BY Flushing DEF IInv, TypeOK, Remove
  <2> QED
    BY <2>1, <2>2 DEF IInv, TypeOK, Remove, Goto, RollingBack
<1>2. RowsAgree'
  BY Flushing DEF IInv, Remove, Goto, RowsAgree, patch, TypeOK, AtWork, RowChunks,
     StagedChunks, Candidate, RollingBack, JournalSound, Named, RollbackProgress, Staged
<1>3. AtWork'
  BY DEF IInv, Remove, Goto, AtWork
<1>4. JournalSound'
  BY Flushing DEF IInv, Remove, JournalSound, TypeOK
<1>5. ChunksStored'
  BY Flushing DEF IInv, Remove, ChunksStored, RowChunks, StagedChunks, TypeOK
<1>6. Named'
  BY Flushing DEF IInv, Remove, Named, RowChunks, StagedChunks, Candidate, TypeOK
<1>7. OwnKept'
  BY Flushing DEF IInv, Remove, OwnKept, RowChunks, TypeOK
<1>8. NothingLeft'
  BY Flushing DEF IInv, Remove, NothingLeft, TypeOK
<1>9. CallProgress'
  BY DEF IInv, Remove, Goto, CallProgress, Calling
<1>10. FirstAttempt'
  BY DEF IInv, Remove, Goto, FirstAttempt, Calling
<1>11. RollbackProgress'
  BY DEF IInv, Remove, Goto, RollbackProgress
<1> QED
  BY <1>1, <1>2, <1>3, <1>4, <1>5, <1>6, <1>7, <1>8, <1>9, <1>10, <1>11 DEF IInv

\* Removed: their flush.
LEMMA RemovedStep == ASSUME IInv, Removed PROVE IInv'
<1>1. TypeOK'
  BY Flushing DEF IInv, Removed, Goto, TypeOK
<1>2. RowsAgree'
  BY Flushing DEF IInv, Removed, RowsAgree, TypeOK
<1>3. AtWork'
  BY DEF IInv, Removed, Goto, AtWork, Calling, RollingBack
<1>4. JournalSound'
  BY Flushing DEF IInv, Removed, JournalSound, TypeOK, RowsAgree
<1>5. ChunksStored'
  BY Flushing DEF IInv, Removed, ChunksStored, RowChunks, StagedChunks, TypeOK, RowsAgree
<1>6. Named'
  BY Flushing DEF IInv, Removed, Named, RowChunks, StagedChunks, Candidate, TypeOK,
     RowsAgree
<1>7. OwnKept'
  BY Flushing DEF IInv, Removed, OwnKept, RowChunks, TypeOK, RowsAgree
<1>8. NothingLeft'
  BY Flushing DEF IInv, Removed, NothingLeft, TypeOK, RowsAgree
<1>9. CallProgress'
  BY DEF IInv, Removed, Goto, CallProgress, Calling
<1>10. FirstAttempt'
  BY DEF IInv, Removed, Goto, FirstAttempt, Calling
<1>11. RollbackProgress'
  BY DEF IInv, Removed, Goto, RollbackProgress, RollingBack
<1> QED
  BY <1>1, <1>2, <1>3, <1>4, <1>5, <1>6, <1>7, <1>8, <1>9, <1>10, <1>11 DEF IInv

\* RollbackFails: a rollback that gives up.
LEMMA RollbackFailsStep == ASSUME IInv, RollbackFails PROVE IInv'
<1>1. TypeOK'
  BY DEF IInv, RollbackFails, Goto, TypeOK
<1>2. RowsAgree'
  BY DEF IInv, RollbackFails, Goto, RowsAgree
<1>3. AtWork'
  BY DEF IInv, RollbackFails, Goto, AtWork, Calling, RollingBack
<1>4. JournalSound'
  BY DEF IInv, RollbackFails, JournalSound
<1>5. ChunksStored'
  BY DEF IInv, RollbackFails, ChunksStored, RowChunks, StagedChunks
<1>6. Named'
  BY DEF IInv, RollbackFails, Named, RowChunks, StagedChunks, Candidate
<1>7. OwnKept'
  BY DEF IInv, RollbackFails, OwnKept, RowChunks
<1>8. NothingLeft'
  BY DEF IInv, RollbackFails, NothingLeft
<1>9. CallProgress'
  BY DEF IInv, RollbackFails, Goto, CallProgress, Calling
<1>10. FirstAttempt'
  BY DEF IInv, RollbackFails, Goto, FirstAttempt, Calling
<1>11. RollbackProgress'
  BY DEF IInv, RollbackFails, Goto, RollbackProgress, RollingBack
<1> QED
  BY <1>1, <1>2, <1>3, <1>4, <1>5, <1>6, <1>7, <1>8, <1>9, <1>10, <1>11 DEF IInv

\* PartialFlush: a flush of one store.
LEMMA PartialFlushStep == ASSUME IInv, PartialFlush PROVE IInv'
<1>1. TypeOK'
  BY Flushing DEF IInv, PartialFlush, TypeOK
<1>2. RowsAgree'
  BY Flushing DEF IInv, PartialFlush, RowsAgree, TypeOK
<1>3. AtWork'
  BY DEF IInv, PartialFlush, AtWork
<1>4. JournalSound'
  BY Flushing DEF IInv, PartialFlush, JournalSound, TypeOK, RowsAgree
<1>5. ChunksStored'
  BY Flushing DEF IInv, PartialFlush, ChunksStored, RowChunks, StagedChunks, TypeOK,
     RowsAgree
<1>6. Named'
  BY Flushing DEF IInv, PartialFlush, Named, RowChunks, StagedChunks, Candidate, TypeOK,
     RowsAgree
<1>7. OwnKept'
  BY Flushing DEF IInv, PartialFlush, OwnKept, RowChunks, TypeOK, RowsAgree
<1>8. NothingLeft'
  BY Flushing DEF IInv, PartialFlush, NothingLeft, TypeOK, RowsAgree
<1>9. CallProgress'
  BY Flushing DEF IInv, PartialFlush, CallProgress, Unites, patch, TypeOK
<1>10. FirstAttempt'
  BY DEF IInv, PartialFlush, FirstAttempt, Unites, patch
<1>11. RollbackProgress'
  BY Flushing DEF IInv, PartialFlush, RollbackProgress, RowChunks, Staged, patch, TypeOK,
     RowsAgree, AtWork
<1> QED
  BY <1>1, <1>2, <1>3, <1>4, <1>5, <1>6, <1>7, <1>8, <1>9, <1>10, <1>11 DEF IInv

\* Kill: what was in memory is gone.
LEMMA KillStep == ASSUME IInv, Kill PROVE IInv'
<1>1. TypeOK'
  BY DEF IInv, Kill, Goto, TypeOK
<1>2. RowsAgree'
  BY DEF IInv, Kill, RowsAgree
<1>3. AtWork'
  BY DEF IInv, Kill, Goto, AtWork, Calling, RollingBack
<1>4. JournalSound'
  BY DEF IInv, Kill, JournalSound
<1>5. ChunksStored'
  BY DEF IInv, Kill, ChunksStored, RowChunks, StagedChunks
<1>6. Named'
  BY DEF IInv, Kill, Named, RowChunks, StagedChunks, Candidate
<1>7. OwnKept'
  BY DEF IInv, Kill, OwnKept
<1>8. NothingLeft'
  BY DEF IInv, Kill, NothingLeft
<1>9. CallProgress'
  BY DEF IInv, Kill, Goto, CallProgress, Calling
<1>10. FirstAttempt'
  BY DEF IInv, Kill, Goto, FirstAttempt, Calling
<1>11. RollbackProgress'
  BY DEF IInv, Kill, Goto, RollbackProgress, RollingBack
<1> QED
  BY <1>1, <1>2, <1>3, <1>4, <1>5, <1>6, <1>7, <1>8, <1>9, <1>10, <1>11 DEF IInv

--------------------------------------------------------------------------------
LEMMA Initially == Init => IInv
<1> SUFFICES ASSUME Init PROVE IInv
  OBVIOUS
<1>1. CASE mem = Absent
  <2>1. /\ mem \in Stores /\ mem.row = NoRow /\ mem.chunks = {} /\ mem.anchors = {}
        /\ mem.graph = {}
    BY <1>1 DEF Absent, Stores
  <2>2. pc \notin Calling \cup RollingBack
    BY DEF Init, Calling, RollingBack
  <2>3. RowChunks = {} /\ StagedChunks = {}
    BY <2>1 DEF Init, RowChunks, StagedChunks
  <2>4. TypeOK
    <3>1. 0 \in 0 .. MaxJobs
      BY JobsAssumption
    <3> QED
      BY <3>1, <2>1 DEF Init, TypeOK
  <2>5. RowsAgree /\ AtWork /\ JournalSound
    BY <2>1, <2>2, <2>3 DEF Init, RowsAgree, AtWork, JournalSound
  <2>6. ChunksStored /\ Named /\ OwnKept /\ NothingLeft
    BY <2>1, <2>2, <2>3 DEF Init, ChunksStored, Named, OwnKept, NothingLeft
  <2>7. CallProgress /\ FirstAttempt /\ RollbackProgress
    BY <2>2 DEF CallProgress, FirstAttempt, RollbackProgress, Calling, RollingBack
  <2> QED
    BY <2>4, <2>5, <2>6, <2>7 DEF IInv
<1>2. ASSUME NEW n \in Name, mem = Committed(n) PROVE IInv
  <2> DEFINE r == [status |-> "processed", chunks |-> Base, patch |-> NoPatch]
  <2>1. r \in Row
    BY DEF Row, Chunk
  <2>2. r # NoRow
    BY <2>1, NoneAssumption
  <2>3. /\ mem \in Stores /\ mem.row = r /\ mem.chunks = Base /\ mem.anchors = {n}
        /\ mem.graph = {n} \X Base
    BY <1>2, <2>1 DEF Committed, Stores, Chunk
  <2>4. /\ mem.row # NoRow /\ mem.row.chunks = Base /\ mem.row.patch = NoPatch
    BY <2>2, <2>3
  <2>5. pc \notin Calling \cup RollingBack
    BY DEF Init, Calling, RollingBack
  <2>6. RowChunks = Base /\ StagedChunks = {}
    BY <2>4 DEF Init, RowChunks, StagedChunks
  <2>7. TypeOK
    <3>1. 0 \in 0 .. MaxJobs
      BY JobsAssumption
    <3> QED
      BY <3>1, <2>3 DEF Init, TypeOK
  <2>8. RowsAgree /\ AtWork /\ JournalSound
    BY <2>3, <2>4, <2>5, <2>6 DEF Init, RowsAgree, AtWork, JournalSound
  <2>9. ChunksStored /\ Named /\ OwnKept /\ NothingLeft
    BY <2>3, <2>4, <2>5, <2>6 DEF Init, ChunksStored, Named, OwnKept, NothingLeft
  <2>10. CallProgress /\ FirstAttempt /\ RollbackProgress
    BY <2>5 DEF CallProgress, FirstAttempt, RollbackProgress, Calling, RollingBack
  <2> QED
    BY <2>7, <2>8, <2>9, <2>10 DEF IInv
<1> QED
  BY <1>1, <1>2 DEF Init

LEMMA Stuttering == IInv /\ UNCHANGED vars => IInv'
  BY DEF vars, IInv, TypeOK, RowsAgree, AtWork, JournalSound, ChunksStored, Named, OwnKept,
     NothingLeft, CallProgress, FirstAttempt, RollbackProgress, RowChunks, StagedChunks,
     Candidate, patch, Unites, Staged

\* Every step keeps the invariant.
LEMMA Inductive == IInv /\ [Next]_vars => IInv'
<1> SUFFICES ASSUME IInv, [Next]_vars PROVE IInv'
  OBVIOUS
<1>1. CASE Call
  BY <1>1, CreateStep, AddStep, ResumeStep DEF Call
<1>2. CASE Insert
  BY <1>2, StageStep, ExtractStep, ApplyStep, AnchorStep, AnchoredStep, MergeStep,
     InsertDoneStep, UnionStep, CommitStep, CallFailsStep DEF Insert
<1>3. CASE Rollback
  BY <1>3, StartRollbackStep, UnmergeStep, UnmergedStep, DropChunksStep, ChunksDroppedStep,
     PruneStep, RestoreStep, UnanchorStep, RemoveStep, RemovedStep, RollbackFailsStep
     DEF Rollback
<1>4. CASE PartialFlush
  BY <1>4, PartialFlushStep
<1>5. CASE Kill
  BY <1>5, KillStep
<1>6. CASE UNCHANGED vars
  BY <1>6, Stuttering
<1> QED
  BY <1>1, <1>2, <1>3, <1>4, <1>5, <1>6 DEF Next

--------------------------------------------------------------------------------
\* The invariant, type correctness among it, holds whatever callers add,
\* whatever an attempt extracts, whatever fails and whenever the process is killed.
THEOREM Invariance == Spec => []IInv
  BY Initially, Inductive, PTL DEF Spec

\* What the graph keeps of a document can be found and removed: every
\* contribution that a restart finds belongs to a chunk of the document under
\* one of its anchors, or is one of the journal's.
THEOREM ContributionsNamed == Spec => []EveryContributionNamed
<1>1. IInv => EveryContributionNamed
  BY SMTT(20) DEF IInv, Named, EveryContributionNamed, RowChunks, StagedChunks, Candidate,
     Exists, Journaled
<1> QED
  BY <1>1, Invariance, PTL

\* An operation of which no journal is left is done or undone: kills, failures
\* and partial flushes leave nothing of it behind its row.
THEOREM DoneOrUndone == Spec => []AllOrNothing
<1>1. IInv => AllOrNothing
  <2> SUFFICES ASSUME IInv, ~ Journaled(disk), pc \notin Calling
               PROVE  LET chunks == IF Exists(disk) THEN disk.row.chunks ELSE {}
                      IN /\ disk.chunks = chunks
                         /\ \A x \in disk.graph : x[2] \in chunks
                         /\ Exists(disk) \/ disk.anchors = {}
    BY DEF AllOrNothing
  <2>1. StagedChunks = {} /\ RowChunks = IF Exists(disk) THEN disk.row.chunks ELSE {}
    BY DEF StagedChunks, RowChunks, Journaled, Exists
  <2>2. disk.chunks = RowChunks
    BY <2>1 DEF IInv, ChunksStored
  <2>3. \A x \in disk.graph : x[2] \in RowChunks
    BY <2>1 DEF IInv, Named
  <2>4. Exists(disk) \/ disk.anchors = {}
    BY DEF IInv, NothingLeft, Exists
  <2> QED
    BY <2>1, <2>2, <2>3, <2>4
<1> QED
  BY <1>1, Invariance, PTL

\* Only a flush of the graph can lose a contribution, and the process has
\* every one that is the document's own.
THEOREM OwnContributionsKept == Spec => BaseKept
<1> DEFINE Kept == Exists(disk) =>
             \A x \in disk.graph : x[2] \in disk.row.chunks => x \in disk'.graph
<1>1. IInv /\ [Next]_vars => Kept
  <2> SUFFICES ASSUME IInv, [Next]_vars, Exists(disk), NEW x \in disk.graph,
                      x[2] \in disk.row.chunks
               PROVE  x \in disk'.graph
    OBVIOUS
  <2>1. x \in mem.graph
    BY DEF IInv, OwnKept, RowChunks, Exists
  <2>2. disk'.graph = disk.graph \/ disk'.graph = mem.graph
    <3> mem \in Stores /\ disk \in Stores
      BY DEF IInv, TypeOK
    <3>1. CASE Call
      BY <3>1 DEF Call, Create, Add, Resume, Begin, WriteRow, Stores
    <3>2. CASE Insert
      <4>1. CASE CallFails
        BY <4>1 DEF CallFails, Stores
      <4>2. CASE Commit
        BY <4>2, Flushing DEF Commit, Stores
      <4>3. CASE Apply
        BY <4>3 DEF Apply, WriteRow, Stores
      <4> QED
        BY <3>2, <4>1, <4>2, <4>3, Flushing DEF Insert, Stage, Extract, Anchor, Anchored, Merge,
           InsertDone, Union
    <3>3. CASE Rollback
      <4>1. CASE Restore
        BY <4>1, Flushing DEF Restore, Stores
      <4> QED
        BY <3>3, <4>1, Flushing DEF Rollback, StartRollback, Unmerge, Unmerged, DropChunks,
           ChunksDropped, Prune, Unanchor, Remove, Removed, RollbackFails
    <3>4. CASE PartialFlush
      BY <3>4, Flushing DEF PartialFlush
    <3>5. CASE Kill \/ UNCHANGED vars
      BY <3>5 DEF Kill, vars
    <3> QED
      BY <3>1, <3>2, <3>3, <3>4, <3>5 DEF Next
  <2> QED
    BY <2>1, <2>2
<1>2. IInv /\ [Next]_vars => [Kept]_vars
  BY <1>1
<1> QED
  BY <1>2, Invariance, PTL DEF Spec, BaseKept
================================================================================
