----------------------------- MODULE ProcessingRun -----------------------------
(***************************************************************************)
(* A processing run and the mailbox that wakes it: what                    *)
(* apipeline_process_enqueue_documents does between taking the busy slot   *)
(* and giving it back, while other calls enqueue documents, ask for a      *)
(* retry of the FAILED ones, delete, or cancel.                            *)
(*                                                                         *)
(* The mailbox (PipelineIngressMailbox) only says that there is something  *)
(* to do; what there is to do is in doc_status.  A run reads doc_status    *)
(* page by page, outside the pipeline_status lock, and decides under the   *)
(* lock whether to go on or to release busy.  Every question here is       *)
(* about a signal and a row that are written, read and consumed at         *)
(* different moments.                                                      *)
(*                                                                         *)
(* That at most one job works under busy is PipelineReservations' result;  *)
(* the scan, the fences, the freeze's owner and the stalled drain are      *)
(* there.  One document per enqueue; its content is always readable.       *)
(***************************************************************************)
EXTENDS Naturals, FiniteSets, Sequences

CONSTANTS Job,             \* calls
          NoJob,           \* Python's None in an owner field
          Calls,           \* which kinds of call are made
          OldDocs,         \* documents that are there at the start
          MaxDoc,          \* bound: documents in all
          PageSize,        \* PIPELINE_SCHEDULING_PAGE_SIZE, paging on
          DocCapacity,     \* DOCUMENT_CHANNEL_CAPACITY
          MaxCrashes,      \* bound: processes killed
          MayFail,         \* storage calls may raise, calls may be cancelled
          LockExitCancel   \* a cancellation may land in the exit of the lock

Doc == 1..MaxDoc      \* in the order of (created_at, id)
NoDoc == 0
END == MaxDoc + 1     \* CURSOR_END; CURSOR_START is 0

Entry == {"insert", "enqueue", "retry", "sdkDelete", "delete", "cancel"}

ASSUME RunAssumption ==
    /\ NoJob \notin Job
    /\ Calls \subseteq Entry
    /\ OldDocs \in Nat /\ MaxDoc \in Nat /\ OldDocs <= MaxDoc
    /\ PageSize \in Nat \ {0} /\ DocCapacity \in Nat \ {0}
    /\ MaxCrashes \in Nat
    /\ MayFail \in BOOLEAN /\ LockExitCancel \in BOOLEAN

VARIABLES row,       \* doc_status
          mail,      \* the workspace's mailbox, in the Manager
          status,    \* pipeline_status
          call,      \* call[j]: the kind of call j is
          stage,     \* stage[j]: the step of its code job j is about to take
          mine,      \* mine[j]: the document job j enqueues
          run,       \* the locals of the run that holds busy
          announced, \* history: documents whose enqueue has signalled, and that
                     \* no batch or reset has taken over since, nor a run that
                     \* ended before its time has given up
          owes,      \* history: owes[r]: FAILED at request r, not reset since
          granted    \* history: granted[r]: documents reset for request r

history == <<announced, owes, granted>>
vars == <<row, mail, status, call, stage, mine, run, history>>

Row == {"none", "PENDING", "ACTIVE", "PROCESSED", "FAILED"}

\* PENDING, PARSING, ANALYZING, PROCESSING: _AUTO_RESUME_DOC_STATUSES.
Unfinished == {d \in Doc : row[d] \in {"PENDING", "ACTIVE"}}
Failed == {d \in Doc : row[d] = "FAILED"}

EnqueueStage == {"persist", "rearm", "release", "publish",
                 "releaseDrive", "releaseDone"}
FetchStage == {"fetchPage", "fetchAuto", "fetchDocuments", "rescan"}
RunStage == FetchStage \cup
            {"start", "beginDrain", "sweep", "top", "validate", "batch",
             "decide", "wait", "confirm", "enterReset", "reset", "ack",
             "endDrain", "final"}

Stage == Entry \cup EnqueueStage \cup RunStage
           \cup {"drive", "sdkDeleting", "deleting", "handoff", "done", "dead"}

\* todo: to_process_docs; cursor: sweep_cursor; wake: uncommitted_wakeup.
\* Of a batch: seen is inflight_doc_ids, finished what the workers are done
\* with, held what the feeder has drained, deferred what it has skipped.
NewRun == [todo |-> {}, cursor |-> 0, wake |-> FALSE, request |-> NoJob,
           seen |-> {}, finished |-> {}, held |-> {}, deferred |-> {},
           feeder |-> "off"]

Init ==
    /\ row \in {r \in [Doc -> {"none", "FAILED", "ACTIVE"}] :
                   \A d \in Doc : r[d] = "none" <=> d > OldDocs}
    /\ mail = [documents |-> {}, auto |-> FALSE, manual |-> <<>>]
    /\ status = [busyOwner |-> NoJob, destructive |-> FALSE, phase |-> "IDLE",
                 request |-> NoJob, cancel |-> FALSE, tokens |-> {}]
    /\ call \in [Job -> Calls]
    /\ stage = call
    /\ mine = [j \in Job |-> NoDoc]
    /\ run = NewRun
    /\ announced = {}
    /\ owes = [r \in Job |-> {}] /\ granted = [r \in Job |-> {}]

-----------------------------------------------------------------------------
(* The mailbox                                                             *)

\* put_documents: what does not fit is coalesced into the dirty flag.
Put(m, D) ==
    {[m EXCEPT !.documents = @ \cup E, !.auto = @ \/ E # D] :
        E \in {F \in SUBSET D :
                 /\ Cardinality(m.documents \cup F) <= DocCapacity
                 /\ F = D \/ Cardinality(m.documents \cup F) = DocCapacity}}

\* The pop of a key from an OrderedDict: the others keep their order.
Without(requests, r) ==
    LET at == {i \in DOMAIN requests : requests[i] = r}
        k == CHOOSE i \in at : TRUE
    IN  IF at = {} THEN requests
        ELSE SubSeq(requests, 1, k - 1)
               \o SubSeq(requests, k + 1, Len(requests))

HasWork == mail.documents # {} \/ mail.auto \/ mail.manual # <<>>

-----------------------------------------------------------------------------
(* Pages of doc_status                                                     *)

\* get_docs_by_statuses_page: the first PageSize rows after the cursor.
Page(S, cursor) ==
    {d \in S : d > cursor
        /\ Cardinality({e \in S : cursor < e /\ e < d}) < PageSize}

\* Bug: a full page is taken for the last one.
NextCursor_FirstPage(S, cursor) == END

NextCursor(S, cursor) ==
    LET page == Page(S, cursor)
    IN  IF Cardinality(page) < PageSize THEN END
        ELSE CHOOSE d \in page : \A e \in page : e <= d

-----------------------------------------------------------------------------
(* Taking the slot                                                         *)

Step(j, from, to) == stage[j] = from /\ stage' = [stage EXCEPT ![j] = to]

Dead(j) == stage[j] = "dead"

\* Dead owners and tokens, as every acquire reconciles them.
Reap(s) ==
    LET live == [s EXCEPT !.tokens = {t \in @ : ~Dead(t)}]
    IN  IF s.busyOwner # NoJob /\ Dead(s.busyOwner)
        THEN [live EXCEPT !.busyOwner = NoJob, !.phase = "IDLE",
                          !.request = NoJob]
        ELSE live

\* acquire_processing_reservation: a refusal arms auto-rescan in the same
\* critical section.
Drive(j) ==
    /\ LET s == Reap(status)
       IN  IF s.busyOwner # NoJob
           THEN /\ Step(j, "drive", "done")
                /\ status' = s
                /\ mail' = [mail EXCEPT !.auto = TRUE]
                /\ UNCHANGED run
           ELSE /\ Step(j, "drive", "start")
                /\ status' = [s EXCEPT !.busyOwner = j, !.cancel = FALSE]
                /\ run' = NewRun
                /\ UNCHANGED mail
    /\ UNCHANGED <<row, call, mine, history>>

-----------------------------------------------------------------------------
(* Enqueueing: reserve, persist, give the token back, publish, drive       *)

\* created_at is minted after the reservation, so documents that are enqueued
\* at the same time may be persisted out of their order.
Reserve(j) ==
    /\ stage[j] \in {"insert", "enqueue"}
    /\ LET s == Reap(status)
           fresh == {d \in Doc : d > OldDocs /\ \A k \in Job : mine[k] # d}
       IN  IF s.destructive \/ s.phase # "IDLE" \/ fresh = {}
           THEN /\ stage' = [stage EXCEPT ![j] = "done"]
                /\ status' = s /\ UNCHANGED mine
           ELSE /\ \E d \in fresh :
                      /\ \A e \in fresh : d <= e
                      /\ mine' = [mine EXCEPT ![j] = d]
                /\ stage' = [stage EXCEPT ![j] = "persist"]
                /\ status' = [s EXCEPT !.tokens = @ \cup {j}]
    /\ UNCHANGED <<row, call, mail, run, history>>

\* A failed upsert may have committed the row all the same.
Persist(j) ==
    /\ \/ Step(j, "persist", "release")
          /\ row' = [row EXCEPT ![mine[j]] = "PENDING"]
       \/ /\ MayFail
          /\ Step(j, "persist", "rearm")
          /\ row' \in {row, [row EXCEPT ![mine[j]] = "PENDING"]}
    /\ UNCHANGED <<mail, call, status, mine, run, history>>

Rearm(j) ==
    /\ Step(j, "rearm", IF status.busyOwner = NoJob THEN "releaseDrive"
                                                    ELSE "releaseDone")
    /\ mail' = [mail EXCEPT !.auto = TRUE]
    /\ announced' = announced \cup {mine[j]}
    /\ UNCHANGED <<row, call, status, mine, run, owes, granted>>

Release(j) ==
    /\ \/ Step(j, "release", "publish")
       \/ Step(j, "releaseDrive", "drive")
       \/ Step(j, "releaseDone", "done")
    /\ status' = [status EXCEPT !.tokens = @ \ {j}]
    /\ UNCHANGED <<row, call, mail, mine, run, history>>

\* An insert drives the queue itself, an enqueue leaves that to others.
Publish(j) ==
    /\ Step(j, "publish", IF call[j] = "insert" THEN "drive" ELSE "done")
    /\ mail' \in Put(mail, {mine[j]})
    /\ announced' = announced \cup {mine[j]}
    /\ UNCHANGED <<row, call, status, mine, run, owes, granted>>

\* commit_manual_retry_request: sticky, in the order of arrival.
CommitRetry(j) ==
    /\ LET s == Reap(status)
           ok == ~s.destructive
       IN  /\ Step(j, "retry", IF ok THEN "drive" ELSE "done")
           /\ status' = s
           /\ mail' = IF ok THEN [mail EXCEPT !.manual = Append(@, j)]
                            ELSE mail
           /\ owes' = IF ok THEN [owes EXCEPT ![j] = Failed] ELSE owes
    /\ UNCHANGED <<row, call, mine, run, announced, granted>>

\* /cancel_pipeline
Cancel(j) ==
    /\ Step(j, "cancel", "done")
    /\ status' = [status EXCEPT !.cancel = @ \/ status.busyOwner # NoJob]
    /\ UNCHANGED <<row, call, mail, mine, run, history>>

-----------------------------------------------------------------------------
(* Deletions: they hold busy, and pass on what arrived meanwhile           *)

TakeSlot(j) ==
    /\ LET s == Reap(status)
       IN  \/ /\ s.busyOwner # NoJob
              /\ \/ Step(j, "sdkDelete", "done") \/ Step(j, "delete", "done")
              /\ status' = s
           \/ /\ s.busyOwner = NoJob
              /\ Step(j, "sdkDelete", "sdkDeleting")
              /\ status' = [s EXCEPT !.busyOwner = j, !.cancel = FALSE]
           \/ /\ s.busyOwner = NoJob
              /\ Step(j, "delete", IF s.tokens = {} THEN "deleting"
                                                    ELSE "done")
              /\ status' = IF s.tokens = {}
                           THEN [s EXCEPT !.busyOwner = j, !.cancel = FALSE,
                                          !.destructive = TRUE]
                           ELSE s
    /\ UNCHANGED <<row, call, mail, mine, run, history>>

\* Bug: the mailbox is not probed in the section that releases.
GiveBack_NoProbe(j) ==
    /\ Step(j, "sdkDeleting", "done") \/ Step(j, "deleting", "done")
    /\ status' = [status EXCEPT !.busyOwner = NoJob, !.cancel = FALSE,
                                !.destructive = FALSE]
    /\ UNCHANGED <<row, call, mail, mine, run, history>>

\* The exit of adelete_by_doc_id hands busy over to a run of its own; the
\* batch delete releases first and then drives like everybody else.
GiveBack(j) ==
    /\ \/ /\ HasWork
          /\ Step(j, "sdkDeleting", "handoff")
          /\ status' = [status EXCEPT !.cancel = FALSE]
       \/ /\ \/ ~HasWork /\ Step(j, "sdkDeleting", "done")
             \/ Step(j, "deleting", IF HasWork THEN "drive" ELSE "done")
          /\ status' = [status EXCEPT !.busyOwner = NoJob, !.cancel = FALSE,
                                      !.destructive = FALSE]
    /\ UNCHANGED <<row, call, mail, mine, run, history>>

Handoff(j) ==
    /\ Step(j, "handoff", "start")
    /\ status' = [Reap(status) EXCEPT !.cancel = FALSE]
    /\ run' = NewRun
    /\ UNCHANGED <<row, call, mail, mine, history>>

-----------------------------------------------------------------------------
(* The run                                                                 *)

At(j, from) == stage[j] = from

\* The peek at the sticky requests, or the absorption of the dirty flag.
Start(j) ==
    /\ IF mail.manual # <<>>
       THEN /\ Step(j, "start", "beginDrain")
            /\ run' = [run EXCEPT !.request = Head(mail.manual)]
            /\ UNCHANGED mail
       ELSE /\ Step(j, "start", "sweep")
            /\ run' = [run EXCEPT !.wake = mail.auto]
            /\ mail' = [mail EXCEPT !.auto = FALSE]
    /\ UNCHANGED <<row, status, call, mine, history>>

BeginDrain(j) ==
    /\ Step(j, "beginDrain", "sweep")
    /\ status' = [status EXCEPT !.phase = "DRAIN", !.request = run.request]
    /\ UNCHANGED <<row, mail, call, mine, run, history>>

\* What the run holds after it has read the page of S after the cursor.
WithPage(S, cursor, wake) ==
    [run EXCEPT !.todo = Page(S, cursor), !.cursor = NextCursor(S, cursor),
                !.wake = wake /\ Page(S, cursor) # {}]

\* The first page of a sweep that no signal was consumed for, or only the
\* dirty flag at the start of the run.
Sweep(j) ==
    /\ Step(j, "sweep", "top")
    /\ run' = WithPage(Unfinished, 0, run.wake)
    /\ UNCHANGED <<row, mail, status, call, mine, history>>

\* The head of the loop, which is where a cancelled run ends.
Top(j) ==
    /\ Step(j, "top", IF status.cancel THEN "final"
                      ELSE IF run.todo = {} THEN "decide" ELSE "validate")
    /\ status' = [status EXCEPT !.cancel = FALSE]
    /\ UNCHANGED <<row, mail, call, mine, run, history>>

\* _validate_and_fix_document_consistency: interrupted rows become PENDING.
Validate(j) ==
    /\ Step(j, "validate", "batch")
    /\ row' = [d \in Doc |-> IF d \in run.todo THEN "PENDING" ELSE row[d]]
    /\ run' = [run EXCEPT !.todo = {}, !.wake = FALSE, !.seen = run.todo,
                          !.finished = {}, !.feeder = "on"]
    /\ announced' = announced \ run.todo
    /\ UNCHANGED <<mail, status, call, mine, owes, granted>>

-----------------------------------------------------------------------------
(* The batch                                                               *)

\* A worker takes a document from its queue; a cancelled one is marked.
StartDoc(j, d) ==
    /\ At(j, "batch")
    /\ d \in run.seen \ run.finished /\ row[d] = "PENDING"
    /\ IF status.cancel
       THEN /\ row' = [row EXCEPT ![d] = "FAILED"]
            /\ run' = [run EXCEPT !.finished = @ \cup {d}]
       ELSE row' = [row EXCEPT ![d] = "ACTIVE"] /\ UNCHANGED run
    /\ UNCHANGED <<mail, status, call, stage, mine, history>>

\* Where even the FAILED status cannot be written, the row stays as it is.
FinishDoc(j, d) ==
    /\ At(j, "batch")
    /\ d \in run.seen \ run.finished /\ row[d] = "ACTIVE"
    /\ \E verdict \in {"PROCESSED", "FAILED"}
                        \cup (IF MayFail THEN {"ACTIVE"} ELSE {}) :
          row' = [row EXCEPT ![d] = verdict]
    /\ run' = [run EXCEPT !.finished = @ \cup {d}]
    /\ UNCHANGED <<mail, status, call, stage, mine, history>>

\* A worker's storage error stops the run as a cancellation does.
InternalError(j) ==
    /\ MayFail /\ At(j, "batch")
    /\ status' = [status EXCEPT !.cancel = TRUE]
    /\ UNCHANGED <<row, mail, call, stage, mine, run, history>>

\* _feeder_should_yield, _feeder_epoch_full
FeederYields == \/ status.cancel \/ mail.manual # <<>>
                \/ Cardinality(run.seen) >= PageSize

\* The feeder has looked before it waited: a drain may come after a signal to
\* yield, and then nothing of it is routed.
FeedDrain(j) ==
    /\ At(j, "batch") /\ run.feeder # "off"
    /\ run.held = {} /\ Cardinality(run.seen) < PageSize
    /\ \E D \in SUBSET mail.documents \ {{}} :
          /\ mail' = [mail EXCEPT !.documents = @ \ D]
          /\ run' = [run EXCEPT !.held = D]
    /\ UNCHANGED <<row, status, call, stage, mine, history>>

\* _route_one: drop what is known or no longer PENDING, admit, or skip.
FeedRoute(j, d) ==
    /\ At(j, "batch") /\ d \in run.held /\ ~FeederYields
    /\ LET rest == [run EXCEPT !.held = @ \ {d}]
       IN  IF d \in run.seen \/ row[d] # "PENDING"
           THEN run' = rest /\ UNCHANGED mail
           ELSE \/ /\ run' = [rest EXCEPT !.seen = @ \cup {d}]
                   /\ UNCHANGED mail
                \/ /\ run' = [rest EXCEPT !.deferred = @ \cup {d}]
                   /\ mail' = [mail EXCEPT !.auto = TRUE]
    /\ announced' = IF d \in run'.deferred THEN announced ELSE announced \ {d}
    /\ UNCHANGED <<row, status, call, stage, mine, owes, granted>>

\* An iteration that raises puts its unprocessed messages back.
FeedRetry(j) ==
    /\ MayFail /\ At(j, "batch") /\ run.held # {}
    /\ mail' \in Put(mail, run.held)
    /\ run' = [run EXCEPT !.held = {}]
    /\ UNCHANGED <<row, status, call, stage, mine, history>>

\* The queues have drained: the batch cancels its feeder, which may still
\* route before the cancellation reaches it.
BatchJoined(j) ==
    /\ At(j, "batch") /\ run.feeder = "on" /\ run.seen = run.finished
    /\ run' = [run EXCEPT !.feeder = "stopping"]
    /\ UNCHANGED <<row, mail, status, call, stage, mine, history>>

\* Bug: what the feeder had drained and not admitted is forgotten.
FeederStop_Forgets(j) ==
    /\ At(j, "batch")
    /\ \/ run.feeder = "on" /\ FeederYields
       \/ run.feeder = "stopping"
    /\ run' = [run EXCEPT !.feeder = "off", !.held = {}, !.deferred = {}]
    /\ UNCHANGED <<row, mail, status, call, stage, mine, history>>

\* The finally of the feeder puts back what it has drained and not admitted.
FeederStop(j) ==
    /\ At(j, "batch")
    /\ \/ run.feeder = "on" /\ FeederYields
       \/ run.feeder = "stopping"
    /\ mail' \in Put(mail, run.held \cup run.deferred)
    /\ run' = [run EXCEPT !.feeder = "off", !.held = {}, !.deferred = {}]
    /\ UNCHANGED <<row, status, call, stage, mine, history>>

BatchDone(j) ==
    /\ run.feeder = "off" /\ run.seen = run.finished
    /\ Step(j, "batch", "decide")
    /\ run' = [run EXCEPT !.seen = {}, !.finished = {}]
    /\ UNCHANGED <<row, mail, status, call, mine, history>>

-----------------------------------------------------------------------------
(* The quiescence decision: one critical section                           *)

Resident == mail.documents # {}
Draining == status.phase = "DRAIN"
Continues == run.cursor # END \/ mail.auto \/ Resident

DecideCancelled(j) ==
    /\ status.cancel
    /\ Step(j, "decide", "top")
    /\ UNCHANGED <<mail, status, run>>

\* A new request pre-empts the sweep; during a drain it waits its turn.
DecideManual(j) ==
    /\ ~status.cancel /\ ~Draining /\ mail.manual # <<>>
    /\ Step(j, "decide", "beginDrain")
    /\ run' = [run EXCEPT !.request = Head(mail.manual)]
    /\ UNCHANGED <<mail, status>>

\* The rest of the sweep, then the dirty flag, which is consumed, then the
\* documents, which are not.
DecideContinue(j) ==
    /\ ~status.cancel /\ (Draining \/ mail.manual = <<>>)
    /\ Continues
    /\ Step(j, "decide", IF run.cursor # END THEN "fetchPage"
                         ELSE IF mail.auto THEN "fetchAuto"
                         ELSE "fetchDocuments")
    /\ mail' = [mail EXCEPT !.auto = @ /\ run.cursor # END]
    /\ UNCHANGED <<status, run>>

DecideDrained(j) ==
    /\ ~status.cancel /\ Draining /\ ~Continues
    /\ Step(j, "decide", IF status.tokens # {} THEN "wait" ELSE "confirm")
    /\ UNCHANGED <<mail, status, run>>

DecideRelease(j) ==
    /\ ~status.cancel /\ ~Draining /\ mail.manual = <<>> /\ ~Continues
    /\ Step(j, "decide", "done")
    /\ status' = [status EXCEPT !.busyOwner = NoJob]
    /\ run' = NewRun
    /\ UNCHANGED mail

\* _decide_pipeline_next_step, in its order of priority.
Decide(j) ==
    /\ \/ DecideCancelled(j) \/ DecideManual(j) \/ DecideContinue(j)
       \/ DecideDrained(j) \/ DecideRelease(j)
    /\ UNCHANGED <<row, call, mine, history>>

-----------------------------------------------------------------------------
(* What follows a decision: _refetch_for_decision                          *)

FetchPage(j) ==
    /\ Step(j, "fetchPage", "top")
    /\ run' = WithPage(Unfinished, run.cursor, FALSE)
    /\ UNCHANGED <<row, mail, status, call, mine, history>>

FetchAuto(j) ==
    /\ Step(j, "fetchAuto", "top")
    /\ run' = WithPage(Unfinished, 0, TRUE)
    /\ UNCHANGED <<row, mail, status, call, mine, history>>

\* Drain first, at most _FEEDER_DRAIN_LIMIT of them, and then read.
FetchDocuments(j) ==
    /\ Step(j, "fetchDocuments", "rescan")
    /\ \E D \in SUBSET mail.documents \ {{}} :
          /\ mail' = [mail EXCEPT !.documents = @ \ D]
          /\ run' = [run EXCEPT !.held = D]
    /\ UNCHANGED <<row, status, call, mine, history>>

Rescan(j) ==
    /\ Step(j, "rescan", "top")
    /\ run' = [WithPage(Unfinished, 0, TRUE) EXCEPT !.held = {}]
    /\ UNCHANGED <<row, mail, status, call, mine, history>>

\* CONTINUE_DRAIN_WAIT
Wait(j) ==
    /\ Step(j, "wait", "top")
    /\ status' = Reap(status)
    /\ run' = [run EXCEPT !.todo = {}, !.wake = FALSE]
    /\ UNCHANGED <<row, mail, call, mine, history>>

\* Bug: the idle proof is left out.
Confirm_Trusting(j) ==
    /\ Step(j, "confirm", "enterReset")
    /\ UNCHANGED <<row, mail, status, call, mine, run, history>>

\* _confirm_auto_drained: back to draining if a row has turned up.
Confirm(j) ==
    /\ Step(j, "confirm", IF Unfinished = {} THEN "enterReset" ELSE "top")
    /\ run' = IF Unfinished = {} THEN run ELSE WithPage(Unfinished, 0, FALSE)
    /\ UNCHANGED <<row, mail, status, call, mine, history>>

EnterReset(j) ==
    /\ Step(j, "enterReset", "reset")
    /\ status' = [status EXCEPT !.phase = "RESET"]
    /\ run' = [run EXCEPT !.cursor = 0, !.request = status.request]
    /\ UNCHANGED <<row, mail, call, mine, history>>

\* _reset_failed_page, and the cursor of _run_exclusive_failed_reset.
ResetPage(j) ==
    /\ Step(j, "reset", IF NextCursor(Failed, run.cursor) = END
                        THEN "ack" ELSE "reset")
    /\ LET page == Page(Failed, run.cursor)
       IN  /\ row' = [d \in Doc |-> IF d \in page THEN "PENDING" ELSE row[d]]
           /\ owes' = [r \in Job |-> owes[r] \ page]
           /\ granted' = [granted EXCEPT ![run.request] = @ \cup page]
           /\ announced' = announced \ page
    /\ run' = [run EXCEPT !.cursor = NextCursor(Failed, @)]
    /\ UNCHANGED <<mail, status, call, mine>>

\* Bug: the request stays in the mailbox.
Ack_KeepsRequest(j) ==
    /\ Step(j, "ack", "endDrain")
    /\ UNCHANGED <<row, mail, status, call, mine, run, history>>

\* ack_manual_retry, once the last page is persisted.
Ack(j) ==
    /\ Step(j, "ack", "endDrain")
    /\ mail' = [mail EXCEPT !.manual = Without(@, run.request)]
    /\ UNCHANGED <<row, status, call, mine, run, history>>

EndDrain(j) ==
    /\ Step(j, "endDrain", "sweep")
    /\ status' = [status EXCEPT !.phase = "IDLE", !.request = NoJob]
    /\ run' = [run EXCEPT !.wake = FALSE]
    /\ UNCHANGED <<row, mail, call, mine, history>>

-----------------------------------------------------------------------------
(* The end of a run, and its accidents                                     *)

\* What the sweep has read and put into no batch, and the pages after its
\* cursor: only the sweep stands for these, their signals are consumed.
RestOfSweep == run.todo \cup {d \in Doc : 0 < run.cursor /\ run.cursor < d}

\* The finally of the run: re-arm, then release.  A run that has used up the
\* wake-up re-arms nothing: the rest of its sweep waits for the next call.
Final(j) ==
    /\ Step(j, "final", "done")
    /\ announced' = IF run.wake THEN announced ELSE announced \ RestOfSweep
    /\ mail' = [mail EXCEPT !.auto = @ \/ run.wake]
    /\ status' = [status EXCEPT !.busyOwner = NoJob, !.phase = "IDLE",
                                !.request = NoJob, !.cancel = FALSE]
    /\ run' = NewRun
    /\ UNCHANGED <<row, call, mine, owes, granted>>

\* What the except clauses and the teardowns of the run give back to the
\* mailbox on the way to the finally, by the stage that raises.
Compensated(j) ==
    CASE stage[j] \in {"fetchPage", "fetchAuto"}
           -> {[mail EXCEPT !.auto = TRUE]}
      [] stage[j] = "rescan"
           -> {[m EXCEPT !.auto = TRUE] : m \in Put(mail, run.held)}
      [] stage[j] = "batch" -> Put(mail, run.held \cup run.deferred)
      [] OTHER -> {mail}

\* A storage error or a cancellation of the task.  An enqueue that is
\* cancelled gives its token back and signals nothing.
Abort(j) ==
    /\ MayFail
    /\ \/ /\ stage[j] \in RunStage \ {"final"}
          /\ stage' = [stage EXCEPT ![j] = "final"]
          /\ mail' \in Compensated(j)
          /\ run' = [run EXCEPT !.held = {}, !.deferred = {},
                                !.feeder = "off"]
          /\ UNCHANGED row
       \/ /\ Step(j, "persist", "releaseDone")
          /\ row' \in {row, [row EXCEPT ![mine[j]] = "PENDING"]}
          /\ UNCHANGED <<mail, run>>
       \/ /\ Step(j, "publish", "done") \/ Step(j, "drive", "done")
          /\ UNCHANGED <<row, mail, run>>
    /\ UNCHANGED <<status, call, mine, history>>

\* A cancellation that lands in the exit of the lock in which the decision
\* consumed the dirty flag: the decision never reaches its caller.
LostDecision(j) ==
    /\ LockExitCancel
    /\ Step(j, "fetchAuto", "final")
    /\ UNCHANGED <<row, mail, status, call, mine, run, history>>

\* The process of j is killed.  Deletions are left alone: a kill there fences
\* the workspace.
Crash(j) ==
    /\ stage[j] \in EnqueueStage \cup RunStage \cup {"drive"}
    /\ Cardinality({k \in Job : Dead(k)}) < MaxCrashes
    /\ stage' = [stage EXCEPT ![j] = "dead"]
    /\ UNCHANGED <<row, mail, status, call, mine, run, history>>

-----------------------------------------------------------------------------
\* The steps of a call's own code.
Advance(j) ==
    \/ Reserve(j) \/ Persist(j) \/ Rearm(j) \/ Release(j) \/ Publish(j)
    \/ CommitRetry(j) \/ Drive(j) \/ TakeSlot(j) \/ GiveBack(j) \/ Handoff(j)
    \/ Start(j) \/ BeginDrain(j) \/ Sweep(j) \/ Top(j) \/ Validate(j)
    \/ BatchJoined(j) \/ FeederStop(j) \/ BatchDone(j) \/ Decide(j)
    \/ FetchPage(j) \/ FetchAuto(j) \/ FetchDocuments(j) \/ Rescan(j)
    \/ Wait(j) \/ Confirm(j) \/ EnterReset(j) \/ ResetPage(j) \/ Ack(j)
    \/ EndDrain(j) \/ Final(j)
    \/ \E d \in Doc : StartDoc(j, d) \/ FinishDoc(j, d)

Feeder(j) ==
    \/ FeedDrain(j) \/ FeedRetry(j)
    \/ \E d \in Doc : FeedRoute(j, d)

Accident(j) ==
    Cancel(j) \/ InternalError(j) \/ Abort(j) \/ LostDecision(j) \/ Crash(j)

Next == \E j \in Job : Advance(j) \/ Feeder(j) \/ Accident(j)

Spec == Init /\ [][Next]_vars

\* A call whose process lives gets on with its code.  Nothing depends on the
\* feeder, which only saves time.
FairSpec == Spec /\ \A j \in Job : WF_vars(Advance(j))

-----------------------------------------------------------------------------
(* What must hold                                                          *)

\* The values of every variable, and which of them go together: there is a
\* request exactly during a drain, and workers finish what the batch has seen.
TypeOK ==
    /\ row \in [Doc -> Row]
    /\ mail \in [documents : SUBSET Doc, auto : BOOLEAN, manual : Seq(Job)]
    /\ status \in [busyOwner : Job \cup {NoJob}, destructive : BOOLEAN,
                   phase : {"IDLE", "DRAIN", "RESET"},
                   request : Job \cup {NoJob}, cancel : BOOLEAN,
                   tokens : SUBSET Job]
    /\ status.phase = "IDLE" <=> status.request = NoJob
    /\ call \in [Job -> Entry]
    /\ stage \in [Job -> Stage]
    /\ mine \in [Job -> Doc \cup {NoDoc}]
    /\ run \in [todo : SUBSET Doc, cursor : 0..END, wake : BOOLEAN,
                request : Job \cup {NoJob}, seen : SUBSET Doc,
                finished : SUBSET Doc, held : SUBSET Doc,
                deferred : SUBSET Doc, feeder : {"on", "stopping", "off"}]
    /\ run.finished \subseteq run.seen
    /\ announced \in SUBSET Doc
    /\ owes \in [Job -> SUBSET Doc] /\ granted \in [Job -> SUBSET Doc]

\* No wake-up is lost: when nobody holds the slot, every document whose
\* enqueue has signalled, that still waits and that no batch has taken over
\* is announced in the mailbox, whether or not a call is on its way to read it.
\* A run that ends by itself has put every page of its sweep into a batch.
\* One that is cancelled or fails may give up the rest of its sweep, and a
\* killed one takes the signals it had drained with it: kills are excepted.
NoLostWakeUp ==
    (status.busyOwner = NoJob /\ ~\E j \in Job : Dead(j)) =>
        \A d \in announced \cap Unfinished : d \in mail.documents \/ mail.auto

\* Where every enqueue drives the queue itself and nobody cancels, that is not
\* enough: a document whose driver was turned away, because a deletion or a run
\* held the slot, is never left waiting for the next call.  Whoever gives the
\* slot back drives.
WorkIsDriven ==
    (status.busyOwner = NoJob /\ announced \cap Unfinished # {}) =>
        \E j \in Job : stage[j] \in {"drive", "releaseDrive"}

\* The exclusive reset starts from an idle pipeline: while it runs, no enqueue
\* is in flight, and nothing waits but what it has itself put back.
ResetFromIdle ==
    status.phase = "RESET" /\ ~Dead(status.busyOwner) =>
        /\ \A j \in status.tokens : Dead(j)
        /\ Unfinished \subseteq granted[status.request]

\* A retry request leaves the mailbox only when every document that was
\* FAILED as it was accepted has been put back to PENDING, whatever the
\* paging, the cancellations, the kills and the other requests.
RetryHonoured ==
    \A r \in Job : (\A i \in DOMAIN mail.manual : mail.manual[i] # r)
                        => owes[r] = {}

\* "Each request grants at most one retry attempt per FAILED document": true
\* until a run is killed between its reset and its acknowledgement.
OneAttemptPerRequest ==
    [][\A d \in Doc, r \in Job :
          (d \in granted[r] /\ status.request = r)
              => ~(row[d] = "FAILED" /\ row'[d] = "PENDING")]_vars

\* A document that was announced, or put back for a retry, is processed
\* without anybody asking again.
Processed ==
    \A d \in Doc :
        (/\ d \in Unfinished
         /\ d \in announced \/ \E r \in Job : d \in granted[r])
            ~> d \notin Unfinished

\* A request that was accepted is served.
RetryServed ==
    \A r \in Job : (\E i \in DOMAIN mail.manual : mail.manual[i] = r)
                       ~> (\A i \in DOMAIN mail.manual : mail.manual[i] # r)

=============================================================================
