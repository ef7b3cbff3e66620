------------------------ MODULE PipelineReservations ------------------------
(***************************************************************************)
(* The reservations of one workspace: the pipeline_status dictionary and   *)
(* the calls that take, use and give back its slots.                       *)
(*                                                                         *)
(* A job is one call: an upload, an SDK insert, /reprocess_failed, /scan,  *)
(* /clear, a batch delete, an SDK delete or an SDK custom-chunks insert.   *)
(* Its uuid4 tokens are all written as the job itself.  Every              *)
(* "async with pipeline_status_lock" block is one step (KeyedHolderTable   *)
(* and its proofs are why); everything between two blocks interleaves with *)
(* the other jobs.  A job may fail or be cancelled at any await, and its   *)
(* process may be killed.  The deployment is Linux with several workers,   *)
(* where a dead owner is recognised (_reservation_recovery_enabled).       *)
(*                                                                         *)
(* What a run does with documents is left to nondeterminism here: whether  *)
(* there is more work is a free choice, processing a page is a stutter.    *)
(***************************************************************************)
EXTENDS Naturals, FiniteSets

CONSTANTS Job,         \* calls
          NoJob,       \* Python's None in an owner field
          Calls,       \* which kinds of call are made
          MaxRetries,  \* MAX_UNACKED_MANUAL_RETRIES
          MaxCrashes   \* bound: processes killed

Entry == {"upload", "insert", "retry", "scan",
          "clear", "delete", "sdkDelete", "custom"}

ASSUME ReservationAssumption ==
    /\ NoJob \notin Job
    /\ Calls \subseteq Entry
    /\ MaxRetries \in Nat
    /\ MaxCrashes \in Nat

VARIABLES status,    \* pipeline_status: the fields that coordinate
          retries,   \* un-ACKed sticky manual retry requests, by publisher
          stage,     \* stage[j]: the step of its code job j is about to take
          ret,       \* ret[j]: where j continues after a processing run
          req,       \* req[j]: the manual request the run of j is serving
          overridden \* history: force_reset hit a live holder

vars == <<status, retries, stage, ret, req, overridden>>

ScanStage == {"scanPublish", "resetAcquire", "resetTaken", "discover",
              "scanUndo", "scanRelease"}
ResetStage == {"freeze", "confirm", "enterReset", "resetting", "endDrain"}
RunStage == ResetStage \cup {"taken", "run", "finalize"}
DestroyStage == {"clearStart", "clearing", "dropping", "clearRelease",
                 "deleteStart", "deleting", "deleteRelease"}
SdkStage == {"sdkDeleting", "inserting", "busyExit", "handoff"}

\* Stages in which a job may have tokens in pending_enqueue_tokens.
TokenStage == {"uploadWrite", "insertWrite", "dropToken"}

Stage == Entry \cup ScanStage \cup RunStage \cup DestroyStage \cup SdkStage
           \cup TokenStage
           \cup {"drive", "probe", "backstop", "joined", "done", "dead"}

Return == {"done", "dropToken", "discover", "scanRelease", "backstop"}

OwnerKind == {"none", "processing", "delete", "clear", "custom_chunks"}
Rerunnable == {"processing"}   \* and "scan", which has its own owner field

Dead(j) == stage[j] = "dead"

\* manual_freeze_requested, manual_phase and manual_owner are always written
\* together: the freeze is up exactly when the phase is not IDLE.
Frozen(s) == s.phase # "IDLE"

Status == [busy : BOOLEAN, destructive : BOOLEAN,
           busyOwner : Job \cup {NoJob}, busyKind : OwnerKind,
           scanning : BOOLEAN, exclusive : BOOLEAN,
           scanOwner : Job \cup {NoJob}, tokens : SUBSET Job,
           recovery : BOOLEAN, deferred : BOOLEAN,
           phase : {"IDLE", "DRAIN", "RESET"},
           request : Job \cup {NoJob}, deleting : BOOLEAN]

Idle == [busy |-> FALSE, destructive |-> FALSE,
         busyOwner |-> NoJob, busyKind |-> "none",
         scanning |-> FALSE, exclusive |-> FALSE, scanOwner |-> NoJob,
         tokens |-> {}, recovery |-> FALSE, deferred |-> FALSE,
         phase |-> "IDLE", request |-> NoJob, deleting |-> FALSE]

Init ==
    /\ status = Idle
    /\ retries = {}
    /\ stage \in [Job -> Calls]
    /\ ret = [j \in Job |-> "done"]
    /\ req = [j \in Job |-> NoJob]
    /\ overridden = FALSE

-----------------------------------------------------------------------------
(* Reconciliation: dead owners, in the order of the code                   *)

\* Bug: half-done work of a dead owner is cleared like re-runnable work.
ReapBusy_NoFence(s) ==
    IF (s.busy \/ s.destructive) /\ s.busyOwner # NoJob /\ Dead(s.busyOwner)
    THEN [s EXCEPT !.busy = FALSE, !.destructive = FALSE, !.busyOwner = NoJob,
                   !.busyKind = "none", !.phase = "IDLE", !.request = NoJob]
    ELSE s

ReapBusy(s) ==
    IF (s.busy \/ s.destructive) /\ s.busyOwner # NoJob /\ Dead(s.busyOwner)
    THEN [s EXCEPT !.busy = FALSE, !.destructive = FALSE, !.busyOwner = NoJob,
                   !.busyKind = "none", !.phase = "IDLE", !.request = NoJob,
                   !.recovery = @ \/ s.busyKind \notin Rerunnable]
    ELSE s

ReapScan(s) ==
    IF (s.scanning \/ s.exclusive) /\ s.scanOwner # NoJob /\ Dead(s.scanOwner)
    THEN [s EXCEPT !.scanning = FALSE, !.exclusive = FALSE,
                   !.scanOwner = NoJob]
    ELSE s

ReapTokens(s) == [s EXCEPT !.tokens = {t \in @ : ~Dead(t)}]

Reconcile(s) == ReapTokens(ReapScan(ReapBusy(s)))

-----------------------------------------------------------------------------
(* Moving through a job's code                                             *)

Step(j, from, to) == stage[j] = from /\ stage' = [stage EXCEPT ![j] = to]

\* A call of an acquire helper, which decides on the reconciled snapshot and
\* commits the dead-owner cleanup with its own update, or without it.
Acquire(j, at, granted, taken, next, refused) ==
    IF granted
    THEN Step(j, at, next) /\ status' = taken
    ELSE Step(j, at, refused) /\ status' = Reconcile(status)

\* Owner-checked writes: release_owned_reservation, with_reservation_lock.
IfBusyOwner(j, s) ==
    status' = IF status.busyOwner = j THEN s ELSE status

BusyReleased == [status EXCEPT !.busy = FALSE, !.busyOwner = NoJob,
                               !.busyKind = "none"]

-----------------------------------------------------------------------------
(* Enqueueing calls                                                        *)

\* Bugs: a fence is left out of the list.
CanEnqueue_NoRecovery(s) == ~s.exclusive /\ ~s.destructive /\ ~Frozen(s)
CanEnqueue_NoExclusive(s) == ~s.recovery /\ ~s.destructive /\ ~Frozen(s)

\* The ingress fences: refuse a new pending-enqueue token.
CanEnqueue(s) == ~s.recovery /\ ~s.exclusive /\ ~s.destructive /\ ~Frozen(s)

ReserveEnqueue(j, at, next) ==
    /\ LET s == Reconcile(status)
       IN  Acquire(j, at, CanEnqueue(s),
                   [s EXCEPT !.tokens = @ \cup {j}], next, "done")
    /\ UNCHANGED <<retries, ret, req, overridden>>

\* The upload endpoint reserves; its task writes the document and then drives
\* the queue, and gives the token back only after that.
UploadReserve(j) == ReserveEnqueue(j, "upload", "uploadWrite")

UploadWritten(j) ==
    /\ Step(j, "uploadWrite", "drive")
    /\ ret' = [ret EXCEPT ![j] = "dropToken"]
    /\ UNCHANGED <<status, retries, req, overridden>>

\* ainsert mints a token around the writes only.
InsertReserve(j) == ReserveEnqueue(j, "insert", "insertWrite")

InsertWritten(j) ==
    /\ Step(j, "insertWrite", "drive")
    /\ status' = [status EXCEPT !.tokens = @ \ {j}]
    /\ UNCHANGED <<retries, ret, req, overridden>>

DropToken(j) ==
    /\ Step(j, "dropToken", "done")
    /\ status' = [status EXCEPT !.tokens = @ \ {j}]
    /\ UNCHANGED <<retries, ret, req, overridden>>

-----------------------------------------------------------------------------
(* A processing run                                                        *)

\* acquire_processing_reservation of a run that has no slot yet.
DriveRefused(j, s) ==
    /\ Step(j, "drive", ret[j])
    /\ status' = [s EXCEPT !.deferred = @ \/ (~s.recovery /\ s.exclusive)]

Processing(j, s) == [s EXCEPT !.busy = TRUE, !.busyOwner = j,
                              !.busyKind = "processing", !.deferred = FALSE,
                              !.deleting = FALSE]

Drive(j) ==
    /\ LET s == Reconcile(status)
       IN  IF s.recovery \/ s.exclusive \/ s.busy
           THEN DriveRefused(j, s)
           ELSE Step(j, "drive", "taken") /\ status' = Processing(j, s)
    /\ UNCHANGED <<retries, ret, req, overridden>>

\* already_held: the slot is taken over from the job's own earlier self.
Handoff(j) ==
    /\ LET s == Reconcile(status)
       IN  Acquire(j, "handoff", ~s.recovery, Processing(j, s),
                   "taken", ret[j])
    /\ UNCHANGED <<retries, ret, req, overridden>>

\* The peek at the start of the run, or at a quiescence point outside a drain.
PeekRequest(j) ==
    /\ stage[j] \in {"taken", "run"}
    /\ stage[j] = "run" => status.phase # "DRAIN"
    /\ \E r \in retries : req' = [req EXCEPT ![j] = r]
    /\ stage' = [stage EXCEPT ![j] = "freeze"]
    /\ UNCHANGED <<status, retries, ret, overridden>>

StartSweep(j) ==
    /\ Step(j, "taken", "run")
    /\ retries = {}
    /\ UNCHANGED <<status, retries, ret, req, overridden>>

\* _begin_manual_drain; the scan's reset goes on to confirm the idle pipeline.
BeginDrain(j) ==
    /\ Step(j, "freeze",
            IF ret[j] = "discover"
            THEN IF status.busyOwner = j THEN "confirm" ELSE "finalize"
            ELSE "run")
    /\ IfBusyOwner(j, [status EXCEPT !.phase = "DRAIN", !.request = req[j]])
    /\ ret' = IF ret[j] = "discover" /\ status.busyOwner # j
              THEN [ret EXCEPT ![j] = "scanRelease"] ELSE ret
    /\ UNCHANGED <<retries, req, overridden>>

\* Bug: the wait does not reap.
DrainWait_NoReap(j) ==
    /\ stage[j] = "run" /\ status.phase = "DRAIN" /\ status.tokens # {}
    /\ UNCHANGED vars

\* CONTINUE_DRAIN_WAIT, with the reaping that the wait begins with.
DrainWait(j) ==
    /\ stage[j] = "run" /\ status.phase = "DRAIN" /\ status.tokens # {}
    /\ status' = Reconcile(status)
    /\ UNCHANGED <<retries, stage, ret, req, overridden>>

\* Bug: pending enqueues are not waited for.
DrainedIdle_NoWait(j) ==
    /\ Step(j, "run", "confirm")
    /\ status.phase = "DRAIN"
    /\ UNCHANGED <<status, retries, ret, req, overridden>>

\* BEGIN_EXCLUSIVE_RESET: the decision is taken under the lock, the final
\* confirmation that the AUTO set is empty comes after it.
DrainedIdle(j) ==
    /\ Step(j, "run", "confirm")
    /\ status.phase = "DRAIN" /\ status.tokens = {}
    /\ UNCHANGED <<status, retries, ret, req, overridden>>

\* A document turned up: back to draining.
MoreToDrain(j) ==
    /\ Step(j, "confirm", "run")
    /\ ret[j] # "discover"
    /\ UNCHANGED <<status, retries, ret, req, overridden>>

\* The drain is blocked or stalled: the run fences the workspace and unwinds.
FenceDrain(j) ==
    /\ Step(j, "confirm", "finalize")
    /\ ret[j] # "discover"
    /\ status' = [status EXCEPT !.recovery = TRUE]
    /\ UNCHANGED <<retries, ret, req, overridden>>

ConfirmDrained(j) ==
    /\ ret[j] # "discover"
    /\ Step(j, "confirm", IF status.request = NoJob THEN "run"
                                                    ELSE "enterReset")
    /\ req' = [req EXCEPT ![j] = status.request]
    /\ UNCHANGED <<status, retries, ret, overridden>>

\* _confirm_scan_drain_idle: reap, wait, and in the end give up.
ScanConfirm(j) ==
    /\ ret[j] = "discover"
    /\ \/ /\ status.tokens = {}
          /\ Step(j, "confirm", "enterReset")
          /\ UNCHANGED <<status, ret>>
       \/ /\ status.tokens # {}
          /\ stage[j] = "confirm"
          /\ status' = Reconcile(status)
          /\ UNCHANGED <<stage, ret>>
       \/ /\ status.tokens # {}
          /\ Step(j, "confirm", "finalize")
          /\ ret' = [ret EXCEPT ![j] = "scanRelease"]
          /\ UNCHANGED status
    /\ UNCHANGED <<retries, req, overridden>>

\* Where _run_exclusive_failed_reset returns to when it has lost the slot.
LostReset(j) ==
    IF ret[j] = "discover"
    THEN /\ stage' = [stage EXCEPT ![j] = "finalize"]
         /\ ret' = [ret EXCEPT ![j] = "scanRelease"]
    ELSE stage' = [stage EXCEPT ![j] = "run"] /\ UNCHANGED ret

EnterReset(j) ==
    /\ IF status.busyOwner = j
       THEN Step(j, "enterReset", "resetting") /\ UNCHANGED ret
       ELSE stage[j] = "enterReset" /\ LostReset(j)
    /\ IfBusyOwner(j, [status EXCEPT !.phase = "RESET"])
    /\ UNCHANGED <<retries, req, overridden>>

\* Every page re-checks the freeze owner; the last page is followed by the ACK.
StillFreezeOwner(j) == status.busyOwner = j

ResetPages(j) ==
    /\ stage[j] = "resetting"
    /\ IF StillFreezeOwner(j)
       THEN /\ stage' = [stage EXCEPT ![j] =
                            IF ret[j] = "discover" THEN "finalize"
                                                   ELSE "endDrain"]
            /\ retries' = retries \ {req[j]}
            /\ UNCHANGED ret
       ELSE LostReset(j) /\ UNCHANGED retries
    /\ UNCHANGED <<status, req, overridden>>

EndDrain(j) ==
    /\ Step(j, "endDrain", "run")
    /\ IfBusyOwner(j, [status EXCEPT !.phase = "IDLE", !.request = NoJob])
    /\ UNCHANGED <<retries, ret, req, overridden>>

\* RELEASED, in the critical section that found nothing to do.  Not
\* owner-checked.
Quiesce(j) ==
    /\ Step(j, "run", ret[j])
    /\ status.phase # "DRAIN" /\ retries = {}
    /\ status' = BusyReleased
    /\ UNCHANGED <<retries, ret, req, overridden>>

\* The finally of a run, and of the scan's reset.
Finalize(j) ==
    /\ Step(j, "finalize", ret[j])
    /\ IfBusyOwner(j, [BusyReleased EXCEPT !.phase = "IDLE",
                                           !.request = NoJob])
    /\ UNCHANGED <<retries, ret, req, overridden>>

-----------------------------------------------------------------------------
(* /reprocess_failed                                                       *)

\* commit_manual_retry_request
CommitRetry(j) ==
    /\ LET s == Reconcile(status)
           ok == ~s.recovery /\ ~s.destructive
                   /\ Cardinality(retries) < MaxRetries
       IN  /\ Step(j, "retry", IF ok THEN "drive" ELSE "done")
           /\ status' = s
           /\ retries' = IF ok THEN retries \cup {j} ELSE retries
    /\ UNCHANGED <<ret, req, overridden>>

-----------------------------------------------------------------------------
(* /scan                                                                   *)

CanScan(s) == /\ ~s.recovery /\ ~s.busy /\ ~s.scanning /\ s.tokens = {}
              /\ ~Frozen(s) /\ retries = {}

ScanReserve(j) ==
    /\ LET s == Reconcile(status)
       IN  Acquire(j, "scan", CanScan(s),
                   [s EXCEPT !.scanning = TRUE, !.exclusive = TRUE,
                             !.scanOwner = j],
                   "scanPublish", "done")
    /\ UNCHANGED <<retries, ret, req, overridden>>

\* _scan_commit: publish this scan's own request, or undo the reservation.
ScanPublish(j) ==
    /\ \/ /\ Cardinality(retries) < MaxRetries
          /\ Step(j, "scanPublish", "resetAcquire")
          /\ retries' = retries \cup {j}
       \/ /\ Cardinality(retries) >= MaxRetries
          /\ Step(j, "scanPublish", "scanUndo")
          /\ UNCHANGED retries
    /\ UNCHANGED <<status, ret, req, overridden>>

\* acquire_processing_reservation with scan_reset_owner_token.  The journals
\* of failed custom-chunk operations were rolled back before this.
ResetAcquire(j) ==
    /\ LET s == Reconcile(status)
           fenced == s.exclusive /\ s.scanOwner # j
       IN  IF s.recovery \/ fenced \/ s.busy
           THEN /\ Step(j, "resetAcquire", "scanRelease")
                /\ status' = [s EXCEPT !.deferred =
                                 @ \/ (~s.recovery /\ fenced)]
           ELSE /\ Step(j, "resetAcquire", "resetTaken")
                /\ status' = [Processing(j, s) EXCEPT
                                 !.deferred = IF s.scanOwner = j
                                              THEN s.deferred ELSE FALSE]
    /\ UNCHANGED <<retries, ret, req, overridden>>

\* The helper has returned, and only now is holds_busy set.
ResetHolds(j) ==
    /\ Step(j, "resetTaken", "freeze")
    /\ ret' = [ret EXCEPT ![j] = "discover"]
    /\ req' = [req EXCEPT ![j] = j]
    /\ UNCHANGED <<status, retries, overridden>>

\* Classification is over: narrow the reservation, then drive the queue.
Discovered(j) ==
    /\ Step(j, "discover", "drive")
    /\ ret' = [ret EXCEPT ![j] = "scanRelease"]
    /\ status' = IF status.scanOwner = j
                 THEN [status EXCEPT !.exclusive = FALSE] ELSE status
    /\ UNCHANGED <<retries, req, overridden>>

ScanReleased(j) ==
    status' = IF status.scanOwner = j
              THEN [status EXCEPT !.scanning = FALSE, !.exclusive = FALSE,
                                  !.scanOwner = NoJob]
              ELSE status

\* A scan that was cancelled stops here; the others look for deferred work.
ScanRelease(j) ==
    /\ \/ Step(j, "scanUndo", "done")
       \/ Step(j, "scanRelease", "done")
       \/ Step(j, "scanRelease", "probe")
    /\ ScanReleased(j)
    /\ UNCHANGED <<retries, ret, req, overridden>>

\* has_scan_deferred_processing.  Without a deferred request the scan drives
\* the queue only if it has not done so: a free choice here.
ScanProbe(j) ==
    /\ \/ Step(j, "probe", "drive")
       \/ ~status.deferred /\ Step(j, "probe", "done")
    /\ ret' = [ret EXCEPT ![j] = "done"]
    /\ UNCHANGED <<status, retries, req, overridden>>

-----------------------------------------------------------------------------
(* /clear and batch delete                                                 *)

\* Bugs: a conflict is left out of the list.
CanDestroy_NoBusy(s) == ~s.recovery /\ ~s.scanning /\ s.tokens = {}
CanDestroy_NoTokens(s) == ~s.recovery /\ ~s.busy /\ ~s.scanning

CanDestroy(s) == ~s.recovery /\ ~s.busy /\ ~s.scanning /\ s.tokens = {}

Destroying(j, s, kind) ==
    [s EXCEPT !.busy = TRUE, !.destructive = TRUE, !.busyOwner = j,
              !.busyKind = kind]

DestroyReserve(j) ==
    /\ LET s == Reconcile(status)
       IN  \/ Acquire(j, "clear", CanDestroy(s), Destroying(j, s, "clear"),
                      "clearStart", "done")
           \/ Acquire(j, "delete", CanDestroy(s), Destroying(j, s, "delete"),
                      "deleteStart", "done")
    /\ UNCHANGED <<retries, ret, req, overridden>>

\* The job name is written in a critical section of its own.
NameJob(j) ==
    /\ \/ Step(j, "clearStart", "clearing")
          /\ status' = [status EXCEPT !.deleting = FALSE]
       \/ Step(j, "deleteStart", "deleting")
          /\ status' = [status EXCEPT !.deleting = TRUE]
    /\ UNCHANGED <<retries, ret, req, overridden>>

\* ingress.clear(): queued manual requests are retired.
ClearMailbox(j) ==
    /\ Step(j, "clearing", "dropping")
    /\ retries' = {}
    /\ UNCHANGED <<status, ret, req, overridden>>

Destroyed(j) ==
    /\ \/ Step(j, "dropping", "clearRelease")
       \/ Step(j, "deleting", "deleteRelease")
    /\ UNCHANGED <<status, retries, ret, req, overridden>>

\* A batch delete probes the mailbox as it releases, and may drive the queue.
DestroyRelease(j) ==
    /\ \/ Step(j, "clearRelease", "done")
       \/ Step(j, "deleteRelease", "done")
       \/ Step(j, "deleteRelease", "drive") /\ status.busyOwner = j
    /\ IfBusyOwner(j, [BusyReleased EXCEPT !.destructive = FALSE])
    /\ UNCHANGED <<retries, ret, req, overridden>>

-----------------------------------------------------------------------------
(* The SDK's adelete_by_doc_id and ainsert_custom_chunks                   *)

\* Refused by busy alone; when busy under a job name that starts with
\* "Deleting", the deletion joins that job instead.
SdkDeleteReserve(j) ==
    /\ LET s == Reconcile(status)
       IN  \/ /\ s.busy \/ s.recovery
              /\ Step(j, "sdkDelete", IF s.deleting /\ ~s.recovery
                                      THEN "joined" ELSE "done")
              /\ status' = s
           \/ /\ ~s.busy /\ ~s.recovery
              /\ Step(j, "sdkDelete", "sdkDeleting")
              /\ status' = [s EXCEPT !.busy = TRUE, !.busyOwner = j,
                                     !.busyKind = "delete",
                                     !.deleting = FALSE]
    /\ UNCHANGED <<retries, ret, req, overridden>>

JoinedDelete(j) ==
    /\ Step(j, "joined", "done")
    /\ UNCHANGED <<status, retries, ret, req, overridden>>

CustomReserve(j) ==
    /\ LET s == Reconcile(status)
       IN  Acquire(j, "custom", ~s.recovery /\ ~s.busy /\ ~s.scanning,
                   [s EXCEPT !.busy = TRUE, !.busyOwner = j,
                             !.busyKind = "custom_chunks",
                             !.deleting = FALSE],
                   "inserting", "done")
    /\ UNCHANGED <<retries, ret, req, overridden>>

SdkWritten(j) ==
    /\ \/ Step(j, "sdkDeleting", "busyExit")
       \/ Step(j, "inserting", "busyExit")
    /\ UNCHANGED <<status, retries, ret, req, overridden>>

\* The exit decision: hand the slot to a run of one's own if the mailbox has
\* work, and release it otherwise.
BusyExit(j) ==
    /\ \/ Step(j, "busyExit", "handoff")
          /\ status.busyOwner = j
          /\ UNCHANGED status
       \/ Step(j, "busyExit", "backstop")
          /\ IfBusyOwner(j, BusyReleased)
    /\ ret' = [ret EXCEPT ![j] = "backstop"]
    /\ UNCHANGED <<retries, req, overridden>>

\* Bug: a hand-off is trusted to have released the slot.
Backstop_Trusting(j) ==
    /\ Step(j, "backstop", "done")
    /\ UNCHANGED <<status, retries, ret, req, overridden>>

\* _terminal_release
Backstop(j) ==
    /\ Step(j, "backstop", "done")
    /\ IfBusyOwner(j, BusyReleased)
    /\ UNCHANGED <<retries, ret, req, overridden>>

-----------------------------------------------------------------------------
(* Failures, cancellation, kills and the operator                          *)

\* Where an exception or a cancellation sends a job, by the try it is in.
\* A cancellation that lands in the exit of the lock, after an acquire helper
\* has committed, is Abort in the stage that follows the acquisition.
AbortTo(j) ==
    CASE stage[j] \in {"uploadWrite", "insertWrite"} -> "dropToken"
      [] stage[j] = "scanPublish" -> "scanUndo"
      [] stage[j] \in {"resetAcquire", "resetTaken", "discover"}
           -> "scanRelease"
      [] stage[j] \in {"clearStart", "clearing", "dropping"} -> "clearRelease"
      [] stage[j] \in {"deleteStart", "deleting"} -> "deleteRelease"
      [] stage[j] \in {"sdkDeleting", "inserting"} -> "busyExit"
      [] stage[j] = "handoff" -> "backstop"
      [] stage[j] \in {"joined", "probe"} -> "done"
      [] stage[j] = "drive" -> ret[j]
      [] OTHER -> "finalize"

Abortable == {"uploadWrite", "insertWrite", "scanPublish", "resetAcquire",
              "resetTaken", "discover", "clearStart", "clearing", "dropping",
              "deleteStart", "deleting", "sdkDeleting", "inserting", "handoff",
              "joined", "probe", "drive"}
               \cup (RunStage \ {"finalize"})

Abort(j) ==
    /\ stage[j] \in Abortable
    /\ stage' = [stage EXCEPT ![j] = AbortTo(j)]
    /\ ret' = IF stage[j] \in RunStage /\ ret[j] = "discover"
              THEN [ret EXCEPT ![j] = "scanRelease"] ELSE ret
    /\ UNCHANGED <<status, retries, req, overridden>>

\* The process of j is killed: no finally runs.
Crash(j) ==
    /\ stage[j] \notin Entry \cup {"dead"}
    /\ Cardinality({k \in Job : Dead(k)}) < MaxCrashes
    /\ stage' = [stage EXCEPT ![j] = "dead"]
    /\ UNCHANGED <<status, retries, ret, req, overridden>>

\* Between acquiring busy or scanning and the step that gives it back.
Engaged == ScanStage \cup RunStage \cup DestroyStage \cup SdkStage

\* POST /documents/recovery/force_reset, which asks nobody who holds what.
ForceReset ==
    /\ status.recovery
    /\ status' = [Idle EXCEPT !.tokens = status.tokens,
                              !.deferred = status.deferred,
                              !.deleting = status.deleting]
    /\ retries' = {}
    /\ overridden' = (overridden \/ \E j \in Job : stage[j] \in Engaged)
    /\ UNCHANGED <<stage, ret, req>>

\* What a job does of its own accord when nothing goes wrong.
Advance(j) ==
    \/ UploadReserve(j) \/ UploadWritten(j) \/ InsertReserve(j)
    \/ InsertWritten(j) \/ DropToken(j) \/ Drive(j) \/ Handoff(j)
    \/ PeekRequest(j) \/ StartSweep(j) \/ BeginDrain(j) \/ DrainWait(j)
    \/ DrainedIdle(j) \/ ConfirmDrained(j) \/ ScanConfirm(j) \/ EnterReset(j)
    \/ ResetPages(j) \/ EndDrain(j) \/ Quiesce(j) \/ Finalize(j)
    \/ CommitRetry(j) \/ ScanReserve(j) \/ ScanPublish(j) \/ ResetAcquire(j)
    \/ ResetHolds(j) \/ Discovered(j) \/ ScanRelease(j) \/ ScanProbe(j)
    \/ DestroyReserve(j) \/ NameJob(j) \/ ClearMailbox(j) \/ Destroyed(j)
    \/ DestroyRelease(j) \/ SdkDeleteReserve(j) \/ JoinedDelete(j)
    \/ CustomReserve(j) \/ SdkWritten(j) \/ BusyExit(j) \/ Backstop(j)

Next ==
    \/ \E j \in Job : Advance(j) \/ MoreToDrain(j) \/ FenceDrain(j)
                        \/ Abort(j) \/ Crash(j)
    \/ ForceReset

Spec == Init /\ [][Next]_vars

\* A job whose process lives gets on with its code.  A drain finds new
\* documents only finitely often: the freeze lets none in, and rows that stay
\* the same for three rounds raise the fence.
FairSpec ==
    /\ Spec
    /\ \A j \in Job : WF_vars(Advance(j))
    /\ \A j \in Job : SF_vars(ConfirmDrained(j) \/ FenceDrain(j))

-----------------------------------------------------------------------------
(* What must hold                                                          *)

\* The values of every variable.
TypeOK ==
    /\ status \in Status
    /\ retries \in SUBSET Job
    /\ stage \in [Job -> Stage]
    /\ ret \in [Job -> Return]
    /\ req \in [Job -> Job \cup {NoJob}]
    /\ overridden \in BOOLEAN

\* What a job in these stages does to storage needs the busy slot.
BusyWork == RunStage \cup DestroyStage \cup SdkStage
EnqueueWork == {"uploadWrite", "insertWrite"}

\* At most one job at a time works under the busy slot: a run, a deletion, a
\* clear or a custom-chunks insert never overlaps another one, through
\* cancellations, kills, reclaims and hand-offs, until an operator forces the
\* fence down over a live holder.
SingleWriter ==
    ~overridden =>
        \A i, j \in Job : stage[i] \in BusyWork /\ stage[j] \in BusyWork
                            => i = j

\* While /clear or a batch delete is dropping storage nobody is enqueueing and
\* no scan is at work, whichever came first.
DestructionAlone ==
    ~overridden =>
        \A i, j \in Job : stage[i] \in DestroyStage
            => stage[j] \notin EnqueueWork \cup {"resetAcquire", "discover"}

\* The exclusive FAILED -> PENDING reset runs with no enqueue in flight: none
\* that was let in before the freeze is left, and none is let in after it.
ResetWithoutProducers ==
    ~overridden =>
        \A i, j \in Job : stage[i] = "resetting"
            => stage[j] \notin EnqueueWork

\* Uploads never write while a scan is classifying files.
ClassifyWithoutProducers ==
    ~overridden =>
        \A i, j \in Job : stage[i] \in {"resetAcquire", "discover"}
            => stage[j] \notin EnqueueWork

\* The freeze never outlives what it protects: it is up only while busy is
\* held by a run (or a scan's reset) that will take it down, or by a dead
\* owner, whose reclaim takes it down.
FreezeBacked ==
    Frozen(status) /\ ~overridden =>
        /\ status.busy /\ status.busyOwner # NoJob
        /\ stage[status.busyOwner] \in RunStage \cup {"dead"}

\* A busy slot in the name of a live job that will never give it back exists
\* only if a scan was cancelled between taking it and noting that it did.
LeakOnlyFromScanReset ==
    status.busy /\ ~overridden =>
        \/ stage[status.busyOwner] \in BusyWork \cup {"dead", "backstop"}
        \/ status.busyKind = "processing"
             /\ stage[status.busyOwner] \in
                  {"resetTaken", "scanRelease", "probe", "drive", "done"}

\* Behind the recovery fence nobody gets a new reservation, until it is
\* cleared by force_reset.
FenceHolds ==
    [][(status.recovery /\ status'.recovery) =>
         /\ status'.tokens \subseteq status.tokens
         /\ status'.busyOwner \in {status.busyOwner, NoJob}
         /\ status'.scanOwner \in {status.scanOwner, NoJob}]_vars

\* A kill in the middle of a clear, delete or custom-chunks insert is never
\* forgotten: the owner record goes away only into the fence or by force.
HalfDoneIsFenced ==
    [][\A j \in Job :
         (status.busyOwner = j /\ Dead(j) /\ status.busyKind # "processing")
            => \/ status'.busyOwner = j
               \/ status'.recovery
               \/ status.recovery]_vars

\* A freeze of a live owner ends: the drain reaps tokens of dead enqueuers,
\* waits for the live ones and gets its reset, or gives up.  The exception is a
\* run that an upload drives before it has returned its own token.
FreezeEnds ==
    \A j \in Job :
        (Frozen(status) /\ status.busyOwner = j /\ ~Dead(j) /\ j \notin status.tokens)
            ~> (~Frozen(status) \/ status.busyOwner # j \/ Dead(j))

\* A live job that works under the busy slot gives it back, whatever became of
\* its work and whether or not its hand-off was refused.
SlotReturned ==
    \A j \in Job :
        (status.busyOwner = j /\ stage[j] \in BusyWork /\ j \notin status.tokens)
            ~> (status.busyOwner # j \/ Dead(j))

\* What the docs and comments say, and the code does not do.

\* The wait of a drain is "bounded by the background enqueue's own duration"
\* (pipeline.py:185-186): every freeze of a live owner ends, also one that an
\* upload drives.
EveryFreezeEnds ==
    \A j \in Job :
        (Frozen(status) /\ status.busyOwner = j /\ ~Dead(j))
            ~> (~Frozen(status) \/ status.busyOwner # j \/ Dead(j))

\* "A handed-off run took the slot before scanning could start": no run works
\* on doc_status while a scan classifies files.
ClassifyWithoutRuns ==
    ~overridden =>
        \A i, j \in Job : (stage[i] = "discover" /\ stage[j] \in RunStage)
            => i = j

\* "A cancel at the lock exit still runs the finally that releases the owner":
\* a busy slot is held by a job that will release it, or by a dead one.
NoLeak ==
    status.busy /\ ~overridden =>
        stage[status.busyOwner] \in
            BusyWork \cup {"dead", "backstop", "resetTaken"}

=============================================================================
