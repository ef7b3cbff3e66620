---------------------- MODULE PipelineReservations_proofs ----------------------
(***************************************************************************)
(* Proofs about PipelineReservations, for any number of jobs, of queued    *)
(* retries and of kills.                                                   *)
(***************************************************************************)
EXTENDS PipelineReservations, TLAPS

-----------------------------------------------------------------------------
(* Reconciliation                                                          *)

\* The reclaim of a dead owner of busy, step by step.
LEMMA ReapBusyInStatus ==
    ASSUME NEW s \in Status
    PROVE  ReapBusy(s) \in Status
<1> DEFINE reaped == (s.busy \/ s.destructive) /\ s.busyOwner # NoJob
                       /\ Dead(s.busyOwner)
           fence == s.recovery \/ s.busyKind \notin Rerunnable
<1>1. fence \in BOOLEAN
  OBVIOUS
<1>2. CASE reaped
  <2>1. ReapBusy(s) =
          [s EXCEPT !.busy = FALSE, !.destructive = FALSE, !.busyOwner = NoJob,
                    !.busyKind = "none", !.phase = "IDLE", !.request = NoJob,
                    !.recovery = fence]
    BY <1>2 DEF ReapBusy
  <2> HIDE DEF fence
  <2> QED
    BY <1>1, <2>1 DEF Status, OwnerKind
<1>3. CASE ~reaped
  BY <1>3 DEF ReapBusy
<1> QED
  BY <1>2, <1>3

LEMMA ReapScanInStatus ==
    ASSUME NEW s \in Status
    PROVE  ReapScan(s) \in Status /\ ReapScan(s).tokens = s.tokens
<1>1. ReapScan(s) \in Status
  BY DEF ReapScan, Status, Dead
<1>2. ReapScan(s).tokens = s.tokens
  BY DEF ReapScan, Status, Dead
<1> QED
  BY <1>1, <1>2

LEMMA ReapBusyOfDead ==
    ASSUME NEW s \in Status, s.busy, s.busyOwner # NoJob, Dead(s.busyOwner)
    PROVE  ~ReapBusy(s).busy /\ ReapBusy(s).phase = "IDLE"
<1> DEFINE fence == s.recovery \/ s.busyKind \notin Rerunnable
<1>1. ReapBusy(s) =
        [s EXCEPT !.busy = FALSE, !.destructive = FALSE, !.busyOwner = NoJob,
                  !.busyKind = "none", !.phase = "IDLE", !.request = NoJob,
                  !.recovery = fence]
  BY DEF ReapBusy
<1> HIDE DEF fence
<1> QED
  BY <1>1 DEF Status

\* A reconciled status is a status.
LEMMA ReconcileInStatus ==
    ASSUME NEW s \in Status
    PROVE  Reconcile(s) \in Status
<1>1. ReapScan(ReapBusy(s)) \in Status
  BY ReapBusyInStatus, ReapScanInStatus
<1> QED
  BY <1>1 DEF Reconcile, ReapTokens, Status

\* Reconciling leaves the busy slot of a live owner alone.
LEMMA ReconcileSlot ==
    ASSUME NEW s \in Status, ~Dead(s.busyOwner)
    PROVE  /\ Reconcile(s).busy = s.busy
           /\ Reconcile(s).busyOwner = s.busyOwner
           /\ Reconcile(s).destructive = s.destructive
           /\ Reconcile(s).phase = s.phase
           /\ Reconcile(s).busyKind = s.busyKind
<1>1. ReapBusy(s) = s
  BY DEF ReapBusy
<1> QED
  BY <1>1 DEF Reconcile, ReapTokens, ReapScan, Status, Dead

\* The two reclaims that come after it do not touch the slot.
LEMMA ReconcilePhase ==
    ASSUME NEW s \in Status
    PROVE  /\ Reconcile(s).busy = ReapBusy(s).busy
           /\ Reconcile(s).busyOwner = ReapBusy(s).busyOwner
           /\ Reconcile(s).busyKind = ReapBusy(s).busyKind
           /\ Reconcile(s).phase = ReapBusy(s).phase
           /\ Reconcile(s).recovery = ReapBusy(s).recovery
<1> DEFINE r == ReapBusy(s)
<1>1. r \in Status
  BY ReapBusyInStatus
<1> HIDE DEF r
<1>2. /\ ReapScan(r) \in Status
      /\ ReapScan(r).busy = r.busy
      /\ ReapScan(r).busyOwner = r.busyOwner
      /\ ReapScan(r).busyKind = r.busyKind
      /\ ReapScan(r).phase = r.phase
      /\ ReapScan(r).recovery = r.recovery
  <2>1. CASE (r.scanning \/ r.exclusive) /\ r.scanOwner # NoJob
               /\ Dead(r.scanOwner)
    BY <1>1, <2>1, ReapScanInStatus DEF ReapScan, Status
  <2>2. CASE ~((r.scanning \/ r.exclusive) /\ r.scanOwner # NoJob
                 /\ Dead(r.scanOwner))
    BY <1>1, <2>2 DEF ReapScan
  <2> QED
    BY <2>1, <2>2
<1> QED
  BY <1>2 DEF Reconcile, ReapTokens, Status, r

\* And the reservation of a live scan.
LEMMA ReconcileScan ==
    ASSUME NEW s \in Status, ~Dead(s.scanOwner)
    PROVE  /\ Reconcile(s).scanning = s.scanning
           /\ Reconcile(s).exclusive = s.exclusive
           /\ Reconcile(s).scanOwner = s.scanOwner
<1>1. /\ ReapBusy(s) \in Status
      /\ ReapBusy(s).scanning = s.scanning
      /\ ReapBusy(s).exclusive = s.exclusive
      /\ ReapBusy(s).scanOwner = s.scanOwner
  BY ReapBusyInStatus DEF ReapBusy, Status, Dead
<1>2. ReapScan(ReapBusy(s)) = ReapBusy(s)
  BY <1>1 DEF ReapScan
<1> QED
  BY <1>1, <1>2 DEF Reconcile, ReapTokens, Status

\* And the tokens of live enqueuers.
LEMMA ReconcileTokens ==
    ASSUME NEW s \in Status
    PROVE  Reconcile(s).tokens = {t \in s.tokens : ~Dead(t)}
<1>1. ReapBusy(s) \in Status /\ ReapBusy(s).tokens = s.tokens
  BY ReapBusyInStatus DEF ReapBusy, Status, Dead
<1>2. ReapScan(ReapBusy(s)).tokens = ReapBusy(s).tokens
  BY <1>1, ReapScanInStatus
<1> QED
  BY <1>1, <1>2, ReapScanInStatus DEF Reconcile, ReapTokens, Status

-----------------------------------------------------------------------------
(* Types                                                                   *)

LEMMA InitTypeOK == Init => TypeOK
<1> SUFFICES ASSUME Init PROVE TypeOK
  OBVIOUS
<1>1. status \in Status
  BY DEF Init, Idle, Status, OwnerKind
<1>2. stage \in [Job -> Stage]
  BY ReservationAssumption DEF Init, Stage
<1> QED
  BY <1>1, <1>2 DEF Init, TypeOK, Return

\* The writes of the actions keep a status a status.
LEMMA WritesInStatus ==
    ASSUME NEW s \in Status, NEW j \in Job
    PROVE  /\ Processing(j, s) \in Status
           /\ [s EXCEPT !.tokens = @ \cup {j}] \in Status
           /\ [s EXCEPT !.tokens = @ \ {j}] \in Status
           /\ \A b \in BOOLEAN : [s EXCEPT !.deferred = b] \in Status
           /\ \A b \in BOOLEAN : [s EXCEPT !.deleting = b] \in Status
           /\ \A k \in OwnerKind : Destroying(j, s, k) \in Status
<1>1. Processing(j, s) \in Status
  BY DEF Processing, Status, OwnerKind
<1>2. [s EXCEPT !.tokens = @ \cup {j}] \in Status
  BY DEF Status
<1>3. [s EXCEPT !.tokens = @ \ {j}] \in Status
  BY DEF Status
<1>4. \A b \in BOOLEAN : [s EXCEPT !.deferred = b] \in Status
  BY DEF Status
<1>5. \A b \in BOOLEAN : [s EXCEPT !.deleting = b] \in Status
  BY DEF Status
<1>6. \A k \in OwnerKind : Destroying(j, s, k) \in Status
  BY DEF Destroying, Status
<1> QED
  BY <1>1, <1>2, <1>3, <1>4, <1>5, <1>6

LEMMA AcquireTypeOK ==
    ASSUME TypeOK, NEW j \in Job, NEW at, NEW granted \in BOOLEAN,
           NEW taken \in Status, NEW next \in Stage, NEW refused \in Stage,
           Acquire(j, at, granted, taken, next, refused)
    PROVE  status' \in Status /\ stage' \in [Job -> Stage]
<1>1. CASE granted
  BY <1>1 DEF Acquire, Step, TypeOK
<1>2. CASE ~granted
  BY <1>2, ReconcileInStatus DEF Acquire, Step, TypeOK
<1> QED
  BY <1>1, <1>2

LEMMA OwnerWritesInStatus ==
    ASSUME TypeOK, NEW j \in Job
    PROVE  /\ BusyReleased \in Status
           /\ [BusyReleased EXCEPT !.destructive = FALSE] \in Status
           /\ [BusyReleased EXCEPT !.phase = "IDLE", !.request = NoJob]
                \in Status
           /\ [status EXCEPT !.phase = "DRAIN", !.request = req[j]] \in Status
           /\ [status EXCEPT !.phase = "RESET"] \in Status
           /\ [status EXCEPT !.phase = "IDLE", !.request = NoJob] \in Status
           /\ [status EXCEPT !.recovery = TRUE] \in Status
           /\ [status EXCEPT !.exclusive = FALSE] \in Status
           /\ [status EXCEPT !.scanning = FALSE, !.exclusive = FALSE,
                             !.scanOwner = NoJob] \in Status
<1> USE DEF TypeOK
<1>1. BusyReleased \in Status
  BY DEF BusyReleased, Status, OwnerKind
<1>2. [BusyReleased EXCEPT !.destructive = FALSE] \in Status
  BY <1>1 DEF Status
<1>3. [BusyReleased EXCEPT !.phase = "IDLE", !.request = NoJob] \in Status
  BY <1>1 DEF Status
<1>4. [status EXCEPT !.phase = "DRAIN", !.request = req[j]] \in Status
  BY DEF Status
<1>5. [status EXCEPT !.phase = "RESET"] \in Status
  BY DEF Status
<1>6. [status EXCEPT !.phase = "IDLE", !.request = NoJob] \in Status
  BY DEF Status
<1>7. [status EXCEPT !.recovery = TRUE] \in Status
  BY DEF Status
<1>8. [status EXCEPT !.exclusive = FALSE] \in Status
  BY DEF Status
<1>9. [status EXCEPT !.scanning = FALSE, !.exclusive = FALSE,
                     !.scanOwner = NoJob] \in Status
  BY DEF Status
<1> QED
  BY <1>1, <1>2, <1>3, <1>4, <1>5, <1>6, <1>7, <1>8, <1>9

\* The stages and the places of return by name.
LEMMA StageNames ==
    /\ Return \subseteq Stage
    /\ RunStage \subseteq Stage /\ ScanStage \subseteq Stage
    /\ DestroyStage \subseteq Stage /\ SdkStage \subseteq Stage
    /\ TokenStage \subseteq Stage
    /\ {"drive", "probe", "backstop", "joined", "done", "dead"}
          \subseteq Stage
BY DEF Return, Stage, ScanStage, TokenStage

\* The actions keep the types, part by part of the specification.
LEMMA EnqueueTypeOK ==
    ASSUME TypeOK, NEW j \in Job,
           \/ UploadReserve(j) \/ InsertReserve(j) \/ UploadWritten(j)
           \/ InsertWritten(j) \/ DropToken(j)
    PROVE  TypeOK'
<1> DEFINE s == Reconcile(status)
<1>s. s \in Status
  BY ReconcileInStatus DEF TypeOK
<1> HIDE DEF s
<1>1. ASSUME NEW at, NEW next \in Stage, ReserveEnqueue(j, at, next)
      PROVE  TypeOK'
  <2>1. Acquire(j, at, CanEnqueue(s), [s EXCEPT !.tokens = @ \cup {j}],
                next, "done")
    BY <1>1 DEF ReserveEnqueue, s
  <2>2. CanEnqueue(s) \in BOOLEAN
    BY DEF CanEnqueue
  <2>3. [s EXCEPT !.tokens = @ \cup {j}] \in Status
    BY <1>s, WritesInStatus
  <2> QED
    BY <1>1, <2>1, <2>2, <2>3, StageNames, AcquireTypeOK
    DEF ReserveEnqueue, TypeOK
<1>2. CASE UploadReserve(j) \/ InsertReserve(j)
  BY <1>1, <1>2, StageNames DEF UploadReserve, InsertReserve, TokenStage
<1>3. CASE UploadWritten(j)
  BY <1>3, StageNames DEF UploadWritten, Step, TypeOK, Return
<1>4. CASE InsertWritten(j) \/ DropToken(j)
  <2>1. [status EXCEPT !.tokens = @ \ {j}] \in Status
    BY WritesInStatus DEF TypeOK
  <2> QED
    BY <1>4, <2>1, StageNames DEF InsertWritten, DropToken, Step, TypeOK
<1> QED
  BY <1>2, <1>3, <1>4

LEMMA RunTypeOK ==
    ASSUME TypeOK, NEW j \in Job,
           \/ Drive(j) \/ Handoff(j) \/ PeekRequest(j) \/ StartSweep(j)
           \/ BeginDrain(j) \/ DrainWait(j) \/ DrainedIdle(j)
           \/ MoreToDrain(j) \/ FenceDrain(j) \/ ConfirmDrained(j)
           \/ ScanConfirm(j) \/ EnterReset(j) \/ ResetPages(j)
           \/ EndDrain(j) \/ Quiesce(j) \/ Finalize(j) \/ CommitRetry(j)
    PROVE  TypeOK'
<1> DEFINE s == Reconcile(status)
<1>s. s \in Status
  BY ReconcileInStatus DEF TypeOK
<1>t. s = Reconcile(status)
  OBVIOUS
<1> HIDE DEF s
<1>1. CASE Drive(j)
  <2>1. CASE s.recovery \/ s.exclusive \/ s.busy
    <3> DEFINE d == s.deferred \/ (~s.recovery /\ s.exclusive)
    <3>1. d \in BOOLEAN
      OBVIOUS
    <3>2. /\ Step(j, "drive", ret[j])
          /\ status' = [s EXCEPT !.deferred = d]
          /\ UNCHANGED <<retries, ret, req, overridden>>
      BY <1>1, <2>1 DEF Drive, DriveRefused, s
    <3> HIDE DEF d
    <3> QED
      BY <3>1, <3>2, <1>s, WritesInStatus, StageNames DEF Step, TypeOK
  <2>2. CASE ~(s.recovery \/ s.exclusive \/ s.busy)
    BY <1>1, <2>2, <1>s, WritesInStatus, StageNames
    DEF Drive, Step, TypeOK, RunStage, s
  <2> QED
    BY <2>1, <2>2
<1>2. CASE Handoff(j)
  BY <1>2, <1>s, <1>t, WritesInStatus, StageNames
  DEF Handoff, Acquire, Step, TypeOK, RunStage
<1>3. CASE PeekRequest(j)
  BY <1>3, StageNames DEF PeekRequest, TypeOK, RunStage, ResetStage
<1>4. CASE \/ StartSweep(j) \/ DrainedIdle(j) \/ MoreToDrain(j)
           \/ ConfirmDrained(j)
  BY <1>4, StageNames
  DEF StartSweep, DrainedIdle, MoreToDrain, ConfirmDrained, Step, TypeOK,
      RunStage, ResetStage, Status
<1>5. CASE BeginDrain(j)
  BY <1>5, OwnerWritesInStatus, StageNames
  DEF BeginDrain, IfBusyOwner, Step, TypeOK, RunStage, ResetStage, Return
<1>6. CASE DrainWait(j)
  BY <1>6, <1>s, <1>t DEF DrainWait, TypeOK
<1>7. CASE FenceDrain(j)
  BY <1>7, OwnerWritesInStatus, StageNames
  DEF FenceDrain, Step, TypeOK, RunStage
<1>8. CASE ScanConfirm(j)
  BY <1>8, <1>s, <1>t, StageNames
  DEF ScanConfirm, Step, TypeOK, RunStage, ResetStage, Return
<1>9. CASE EnterReset(j)
  BY <1>9, OwnerWritesInStatus, StageNames
  DEF EnterReset, LostReset, IfBusyOwner, Step, TypeOK, RunStage, ResetStage,
      Return
<1>10. CASE ResetPages(j)
  BY <1>10, StageNames
  DEF ResetPages, LostReset, Step, TypeOK, RunStage, ResetStage, Return
<1>11. CASE EndDrain(j) \/ Quiesce(j) \/ Finalize(j)
  BY <1>11, OwnerWritesInStatus, StageNames
  DEF EndDrain, Quiesce, Finalize, IfBusyOwner, Step, TypeOK, RunStage
<1>12. CASE CommitRetry(j)
  BY <1>12, <1>s, <1>t, StageNames DEF CommitRetry, Step, TypeOK
<1> QED
  BY <1>1, <1>2, <1>3, <1>4, <1>5, <1>6, <1>7, <1>8, <1>9, <1>10, <1>11,
     <1>12

LEMMA ScanTypeOK ==
    ASSUME TypeOK, NEW j \in Job,
           \/ ScanReserve(j) \/ ScanPublish(j) \/ ResetAcquire(j)
           \/ ResetHolds(j) \/ Discovered(j) \/ ScanRelease(j)
           \/ ScanProbe(j)
    PROVE  TypeOK'
<1> DEFINE s == Reconcile(status)
<1>s. s \in Status
  BY ReconcileInStatus DEF TypeOK
<1>t. s = Reconcile(status)
  OBVIOUS
<1> HIDE DEF s
<1>1. CASE ScanReserve(j)
  <2>1. [s EXCEPT !.scanning = TRUE, !.exclusive = TRUE, !.scanOwner = j]
          \in Status
    BY <1>s DEF Status
  <2> QED
    BY <1>1, <1>s, <1>t, <2>1, StageNames
    DEF ScanReserve, Acquire, Step, TypeOK, ScanStage
<1>2. CASE ScanPublish(j)
  BY <1>2, StageNames DEF ScanPublish, Step, TypeOK, ScanStage
<1>3. CASE ResetAcquire(j)
  <2> DEFINE fenced == s.exclusive /\ s.scanOwner # j
             d == s.deferred \/ (~s.recovery /\ fenced)
             e == IF s.scanOwner = j THEN s.deferred ELSE FALSE
  <2>1. d \in BOOLEAN /\ e \in BOOLEAN
    BY <1>s DEF Status
  <2>2. /\ \/ /\ Step(j, "resetAcquire", "scanRelease")
              /\ status' = [s EXCEPT !.deferred = d]
           \/ /\ Step(j, "resetAcquire", "resetTaken")
              /\ status' = [Processing(j, s) EXCEPT !.deferred = e]
        /\ UNCHANGED <<retries, ret, req, overridden>>
    BY <1>3, <1>t DEF ResetAcquire
  <2> HIDE DEF d, e
  <2>3. Processing(j, s) \in Status
    BY <1>s, WritesInStatus
  <2>4. /\ [s EXCEPT !.deferred = d] \in Status
        /\ [Processing(j, s) EXCEPT !.deferred = e] \in Status
    BY <1>s, <2>1, <2>3, WritesInStatus
  <2> QED
    BY <2>2, <2>4, StageNames DEF Step, TypeOK, ScanStage
<1>4. CASE ResetHolds(j)
  BY <1>4, StageNames
  DEF ResetHolds, Step, TypeOK, RunStage, ResetStage, Return
<1>5. CASE Discovered(j)
  BY <1>5, OwnerWritesInStatus, StageNames
  DEF Discovered, Step, TypeOK, Return
<1>6. CASE ScanRelease(j)
  BY <1>6, OwnerWritesInStatus, StageNames
  DEF ScanRelease, ScanReleased, Step, TypeOK
<1>7. CASE ScanProbe(j)
  BY <1>7, StageNames DEF ScanProbe, Step, TypeOK, Return
<1> QED
  BY <1>1, <1>2, <1>3, <1>4, <1>5, <1>6, <1>7

LEMMA DestroyTypeOK ==
    ASSUME TypeOK, NEW j \in Job,
           \/ DestroyReserve(j) \/ NameJob(j) \/ ClearMailbox(j)
           \/ Destroyed(j) \/ DestroyRelease(j)
    PROVE  TypeOK'
<1> DEFINE s == Reconcile(status)
<1>s. s \in Status
  BY ReconcileInStatus DEF TypeOK
<1>t. s = Reconcile(status)
  OBVIOUS
<1> HIDE DEF s
<1>1. CASE DestroyReserve(j)
  <2>1. /\ Destroying(j, s, "clear") \in Status
        /\ Destroying(j, s, "delete") \in Status
    BY <1>s, WritesInStatus DEF OwnerKind
  <2> QED
    BY <1>1, <1>s, <1>t, <2>1, StageNames
    DEF DestroyReserve, Acquire, Step, TypeOK, DestroyStage
<1>2. CASE NameJob(j)
  <2>1. /\ [status EXCEPT !.deleting = TRUE] \in Status
        /\ [status EXCEPT !.deleting = FALSE] \in Status
    BY WritesInStatus DEF TypeOK
  <2> QED
    BY <1>2, <2>1, StageNames DEF NameJob, Step, TypeOK, DestroyStage
<1>3. CASE ClearMailbox(j) \/ Destroyed(j)
  BY <1>3, StageNames
  DEF ClearMailbox, Destroyed, Step, TypeOK, DestroyStage
<1>4. CASE DestroyRelease(j)
  BY <1>4, OwnerWritesInStatus, StageNames
  DEF DestroyRelease, IfBusyOwner, Step, TypeOK
<1> QED
  BY <1>1, <1>2, <1>3, <1>4

LEMMA SdkTypeOK ==
    ASSUME TypeOK, NEW j \in Job,
           \/ SdkDeleteReserve(j) \/ JoinedDelete(j) \/ CustomReserve(j)
           \/ SdkWritten(j) \/ BusyExit(j) \/ Backstop(j)
    PROVE  TypeOK'
<1> DEFINE s == Reconcile(status)
<1>s. s \in Status
  BY ReconcileInStatus DEF TypeOK
<1>t. s = Reconcile(status)
  OBVIOUS
<1> HIDE DEF s
<1>1. CASE SdkDeleteReserve(j)
  <2>1. [s EXCEPT !.busy = TRUE, !.busyOwner = j, !.busyKind = "delete",
                  !.deleting = FALSE] \in Status
    BY <1>s DEF Status, OwnerKind
  <2> QED
    BY <1>1, <1>s, <1>t, <2>1, StageNames
    DEF SdkDeleteReserve, Step, TypeOK, SdkStage
<1>2. CASE CustomReserve(j)
  <2>1. [s EXCEPT !.busy = TRUE, !.busyOwner = j,
                  !.busyKind = "custom_chunks", !.deleting = FALSE] \in Status
    BY <1>s DEF Status, OwnerKind
  <2> QED
    BY <1>2, <1>s, <1>t, <2>1, StageNames
    DEF CustomReserve, Acquire, Step, TypeOK, SdkStage
<1>3. CASE JoinedDelete(j) \/ SdkWritten(j)
  BY <1>3, StageNames DEF JoinedDelete, SdkWritten, Step, TypeOK, SdkStage
<1>4. CASE BusyExit(j) \/ Backstop(j)
  BY <1>4, OwnerWritesInStatus, StageNames
  DEF BusyExit, Backstop, IfBusyOwner, Step, TypeOK, SdkStage, Return
<1> QED
  BY <1>1, <1>2, <1>3, <1>4

LEMMA AccidentTypeOK ==
    ASSUME TypeOK, NEW j \in Job, Abort(j) \/ Crash(j)
    PROVE  TypeOK'
<1>1. CASE Abort(j)
  <2>1. AbortTo(j) \in Stage
    BY StageNames DEF AbortTo, TypeOK, TokenStage, ScanStage, DestroyStage,
                      SdkStage, RunStage
  <2> QED
    BY <1>1, <2>1 DEF Abort, TypeOK, Return
<1>2. CASE Crash(j)
  BY <1>2, StageNames DEF Crash, TypeOK
<1> QED
  BY <1>1, <1>2

LEMMA ForceResetTypeOK == TypeOK /\ ForceReset => TypeOK'
<1> SUFFICES ASSUME TypeOK, ForceReset PROVE TypeOK'
  OBVIOUS
<1>1. Idle \in Status
  BY DEF Idle, Status, OwnerKind
<1>2. status' \in Status
  BY <1>1 DEF ForceReset, Status, TypeOK
<1> QED
  BY <1>2 DEF ForceReset, TypeOK

LEMMA NextTypeOK == TypeOK /\ [Next]_vars => TypeOK'
<1> SUFFICES ASSUME TypeOK, [Next]_vars PROVE TypeOK'
  OBVIOUS
<1>1. ASSUME NEW j \in Job, Advance(j) PROVE TypeOK'
  BY <1>1, EnqueueTypeOK, RunTypeOK, ScanTypeOK, DestroyTypeOK, SdkTypeOK
  DEF Advance
<1>2. ASSUME NEW j \in Job, \/ MoreToDrain(j) \/ FenceDrain(j)
                            \/ Abort(j) \/ Crash(j)
      PROVE  TypeOK'
  BY <1>2, RunTypeOK, AccidentTypeOK
<1>3. CASE ForceReset
  BY <1>3, ForceResetTypeOK
<1>4. CASE UNCHANGED vars
  BY <1>4 DEF vars, TypeOK
<1> QED
  BY <1>1, <1>2, <1>3, <1>4 DEF Next

\* Every field of pipeline_status and every local keeps its values.
THEOREM TypeCorrect == Spec => []TypeOK
BY InitTypeOK, NextTypeOK, PTL DEF Spec

-----------------------------------------------------------------------------
(* The inductive invariant                                                 *)

\* A scan that has the workspace to itself, in its reset as well.
ScanHolds(j) ==
    \/ stage[j] \in {"scanPublish", "resetAcquire", "resetTaken", "discover"}
    \/ ret[j] = "discover" /\ stage[j] \in ResetStage \cup {"finalize"}

Confirmed == {"confirm", "enterReset", "resetting"}

Working(j) == stage[j] \in BusyWork \cup {"resetTaken"}

\* What a job's stage says, a status says too.
Reflects(s) ==
    \A j \in Job :
        /\ Working(j) => s.busy /\ s.busyOwner = j
        /\ stage[j] \in DestroyStage => s.destructive
        /\ ScanHolds(j) => s.scanning /\ s.exclusive /\ s.scanOwner = j
        /\ stage[j] \in Confirmed => Frozen(s)
TokensHeld(s) == \A j \in Job : stage[j] \in EnqueueWork => j \in s.tokens

\* A run that belongs to a scan's reset is in that reset.
ReturnsToScan ==
    \A j \in Job : ret[j] = "discover" =>
        stage[j] \in Confirmed \cup {"freeze", "finalize", "discover",
                                     "scanRelease", "probe", "done", "dead"}

\* Who is never at work together with whom.
Apart ==
    \A i, j \in Job :
        /\ stage[j] \in EnqueueWork =>
              stage[i] \notin DestroyStage \cup Confirmed /\ ~ScanHolds(i)
        /\ stage[j] \in DestroyStage => ~ScanHolds(i)

\* A freeze has a run behind it, and its reset phase the reset of that run.
FreezeOwned(s) ==
    Frozen(s) =>
        /\ s.busy /\ s.busyOwner \in Job
        /\ stage[s.busyOwner] \in RunStage \cup {"dead"}
        /\ s.phase = "RESET" =>
              stage[s.busyOwner] \in
                  {"resetting", "endDrain", "finalize", "dead"}

\* The slot is owned by a job that will give it back, by a dead one, or by a
\* scan that does not know.
Leaked == {"resetTaken", "scanRelease", "probe", "drive", "done"}
BusyOwned(s) ==
    s.busy =>
        /\ s.busyOwner \in Job
        /\ \/ stage[s.busyOwner] \in BusyWork \cup {"dead", "backstop"}
           \/ /\ s.busyKind = "processing"
              /\ stage[s.busyOwner] \in Leaked
              /\ ret[s.busyOwner] = "done"

\* Where a hand-off that is refused, and a scan that loses its slot, go on.
HandoffReturns == \A j \in Job : stage[j] = "handoff" => ret[j] = "backstop"
ScanReturns ==
    \A j \in Job :
        stage[j] \in {"scan", "scanPublish", "resetAcquire", "resetTaken"}
            => ret[j] = "done"

\* What every step keeps, and with the types the inductive invariant.
Kept == /\ TokensHeld(status) /\ ReturnsToScan /\ HandoffReturns
        /\ ScanReturns
        /\ ~overridden => /\ Reflects(status) /\ Apart
                          /\ FreezeOwned(status) /\ BusyOwned(status)

IInv == TypeOK /\ Kept

LEMMA ReconcileReflects ==
    ASSUME TypeOK, Reflects(status)
    PROVE  Reflects(Reconcile(status))
<1> DEFINE s == Reconcile(status)
<1>1. s \in Status
  BY ReconcileInStatus DEF TypeOK
<1> SUFFICES ASSUME NEW j \in Job
             PROVE /\ Working(j) => s.busy /\ s.busyOwner = j
                   /\ stage[j] \in DestroyStage => s.destructive
                   /\ ScanHolds(j) => /\ s.scanning /\ s.exclusive
                                     /\ s.scanOwner = j
                   /\ stage[j] \in Confirmed => Frozen(s)
  BY DEF Reflects
<1>2. Working(j) => s.busy /\ s.busyOwner = j
  BY ReconcileSlot
  DEF Reflects, TypeOK, Dead, Working, BusyWork, RunStage, ResetStage,
      DestroyStage, SdkStage
<1>3. stage[j] \in DestroyStage => s.destructive
  BY ReconcileSlot DEF Reflects, TypeOK, Dead, Working, BusyWork, DestroyStage
<1>4. ScanHolds(j) => /\ s.scanning /\ s.exclusive /\ s.scanOwner = j
  BY ReconcileScan DEF Reflects, TypeOK, Dead, ScanHolds, ResetStage
<1>5. stage[j] \in Confirmed => Frozen(s)
  BY ReconcileSlot
  DEF Reflects, TypeOK, Dead, Working, BusyWork, RunStage, ResetStage,
      Confirmed, Frozen
<1> QED
  BY <1>2, <1>3, <1>4, <1>5

LEMMA ReconcileTokensHeld ==
    ASSUME TypeOK, TokensHeld(status)
    PROVE  TokensHeld(Reconcile(status))
BY ReconcileTokens DEF TokensHeld, TypeOK, EnqueueWork, Dead

LEMMA ReconcileFreezeOwned ==
    ASSUME TypeOK, FreezeOwned(status)
    PROVE  FreezeOwned(Reconcile(status))
<1>1. CASE Dead(status.busyOwner) /\ Frozen(status)
  <2>1. ReapBusy(status).phase = "IDLE"
    BY <1>1, ReapBusyOfDead, ReservationAssumption DEF FreezeOwned, TypeOK
  <2> QED
    BY <2>1, ReconcilePhase DEF FreezeOwned, Frozen, TypeOK
<1>2. CASE ~Dead(status.busyOwner)
  BY <1>2, ReconcileSlot DEF FreezeOwned, Frozen, TypeOK
<1>3. CASE ~Frozen(status)
  <2>1. ReapBusy(status).phase = "IDLE"
    BY <1>3 DEF ReapBusy, Frozen, TypeOK, Status, Dead
  <2> QED
    BY <2>1, ReconcilePhase DEF FreezeOwned, Frozen, TypeOK
<1> QED
  BY <1>1, <1>2, <1>3

LEMMA ReconcileBusyOwned ==
    ASSUME TypeOK, BusyOwned(status)
    PROVE  BusyOwned(Reconcile(status))
<1>1. CASE Dead(status.busyOwner) /\ status.busy
  <2>1. status.busyOwner # NoJob
    BY <1>1, ReservationAssumption DEF BusyOwned
  <2>2. ~ReapBusy(status).busy
    BY <1>1, <2>1, ReapBusyOfDead DEF TypeOK
  <2> QED
    BY <2>2, ReconcilePhase DEF BusyOwned, TypeOK
<1>2. CASE ~Dead(status.busyOwner)
  BY <1>2, ReconcileSlot DEF BusyOwned, TypeOK
<1>3. CASE ~status.busy
  BY <1>3, ReconcilePhase DEF BusyOwned, TypeOK, ReapBusy, Status
<1> QED
  BY <1>1, <1>2, <1>3

LEMMA InitIInv == Init => IInv
<1> SUFFICES ASSUME Init PROVE IInv
  OBVIOUS
<1>1. \A j \in Job : stage[j] \in Entry /\ ret[j] = "done"
  BY ReservationAssumption DEF Init
<1>2. status = Idle
  BY DEF Init
<1> QED
  BY <1>1, <1>2, InitTypeOK
  DEF IInv, Idle, Entry, Kept, TokensHeld, ReturnsToScan,
      HandoffReturns, ScanReturns, Reflects, Apart, FreezeOwned, BusyOwned,
      Working, ScanHolds, Frozen,
      EnqueueWork, BusyWork, RunStage, ResetStage, DestroyStage, SdkStage,
      Confirmed, Leaked

-----------------------------------------------------------------------------
(* Steps                                                                   *)

\* What an acquire decides on is as true of the jobs as what it has read.
LEMMA ReconcileKept ==
    ASSUME IInv
    PROVE  /\ Reconcile(status) \in Status
           /\ TokensHeld(Reconcile(status))
           /\ ~overridden => /\ Reflects(Reconcile(status))
                             /\ FreezeOwned(Reconcile(status))
                             /\ BusyOwned(Reconcile(status))
BY ReconcileInStatus, ReconcileTokensHeld, ReconcileReflects,
   ReconcileFreezeOwned, ReconcileBusyOwned DEF IInv, Kept, TypeOK

\* The actions keep the rest, part by part.
LEMMA EnqueueKept ==
    ASSUME IInv, NEW j \in Job,
           \/ UploadReserve(j) \/ InsertReserve(j) \/ UploadWritten(j)
           \/ InsertWritten(j) \/ DropToken(j)
    PROVE  Kept'
<1> DEFINE s == Reconcile(status)
<1>r. /\ s \in Status /\ TokensHeld(s)
      /\ ~overridden => Reflects(s) /\ FreezeOwned(s) /\ BusyOwned(s)
  BY ReconcileKept
<1> HIDE DEF s
<1> USE DEF Step, IInv, TypeOK, Kept, TokensHeld, ReturnsToScan,
      HandoffReturns, ScanReturns, Reflects, Apart, FreezeOwned, BusyOwned,
      Working, ScanHolds, Frozen,
      EnqueueWork, BusyWork, RunStage, ResetStage, DestroyStage, SdkStage,
      Confirmed, Leaked
<1>1. ASSUME NEW at \in {"upload", "insert"}, NEW next \in EnqueueWork,
             ReserveEnqueue(j, at, next)
      PROVE  Kept'
  <2>1. CASE CanEnqueue(s)
    <3>1. /\ Step(j, at, next)
          /\ status' = [s EXCEPT !.tokens = @ \cup {j}]
          /\ UNCHANGED <<retries, ret, req, overridden>>
      BY <1>1, <2>1 DEF ReserveEnqueue, Acquire, s
    <3> QED
      BY <1>r, <2>1, <3>1 DEF CanEnqueue, Status
  <2>2. CASE ~CanEnqueue(s)
    <3>1. /\ Step(j, at, "done")
          /\ status' = s
          /\ UNCHANGED <<retries, ret, req, overridden>>
      BY <1>1, <2>2 DEF ReserveEnqueue, Acquire, s
    <3> QED
      BY <1>r, <3>1
  <2> QED
    BY <2>1, <2>2
<1>2. CASE UploadReserve(j) \/ InsertReserve(j)
  BY <1>1, <1>2 DEF UploadReserve, InsertReserve, EnqueueWork
<1>3. CASE UploadWritten(j)
  BY <1>3 DEF UploadWritten
<1>4. CASE InsertWritten(j) \/ DropToken(j)
  BY <1>4 DEF InsertWritten, DropToken, Status
<1> QED
  BY <1>2, <1>3, <1>4

LEMMA RunKept ==
    ASSUME IInv, NEW j \in Job,
           \/ Drive(j) \/ Handoff(j) \/ PeekRequest(j) \/ StartSweep(j)
           \/ BeginDrain(j) \/ DrainWait(j) \/ DrainedIdle(j)
           \/ MoreToDrain(j) \/ FenceDrain(j) \/ ConfirmDrained(j)
           \/ ScanConfirm(j) \/ EnterReset(j) \/ ResetPages(j) \/ EndDrain(j)
           \/ Quiesce(j) \/ Finalize(j) \/ CommitRetry(j)
    PROVE  Kept'
<1> DEFINE s == Reconcile(status)
<1>r. /\ s \in Status /\ TokensHeld(s)
      /\ ~overridden => Reflects(s) /\ FreezeOwned(s) /\ BusyOwned(s)
  BY ReconcileKept
<1>s. s = Reconcile(status)
  OBVIOUS
<1> HIDE DEF s
<1> USE DEF Step, IInv, TypeOK, Kept, TokensHeld, ReturnsToScan,
      HandoffReturns, ScanReturns, Reflects, Apart, FreezeOwned, BusyOwned,
      Working, ScanHolds, Frozen,
      EnqueueWork, BusyWork, RunStage, ResetStage, DestroyStage, SdkStage,
      Confirmed, Leaked
<1>1. CASE Drive(j)
  <2>1. CASE s.recovery \/ s.exclusive \/ s.busy
    <3>1. /\ Step(j, "drive", ret[j])
          /\ status' = [s EXCEPT !.deferred = @ \/ (~s.recovery /\ s.exclusive)]
          /\ UNCHANGED <<retries, ret, req, overridden>>
      BY <1>1, <2>1 DEF Drive, DriveRefused, s
    <3> QED
      BY <1>r, <2>1, <3>1 DEF Status, Return
  <2>2. CASE ~(s.recovery \/ s.exclusive \/ s.busy)
    <3>1. /\ Step(j, "drive", "taken")
          /\ status' = Processing(j, s)
          /\ UNCHANGED <<retries, ret, req, overridden>>
      BY <1>1, <2>2 DEF Drive, DriveRefused, s
    <3> QED
      BY <1>r, <2>2, <3>1 DEF Processing, Status
  <2> QED
    BY <2>1, <2>2
<1>2. CASE Handoff(j)
  <2>1. CASE s.recovery
    <3>1. /\ Step(j, "handoff", ret[j])
          /\ status' = s
          /\ UNCHANGED <<retries, ret, req, overridden>>
      BY <1>2, <2>1 DEF Handoff, Acquire, s
    <3> QED
      BY <1>r, <2>1, <3>1 DEF Return
  <2>2. CASE ~s.recovery
    <3>1. /\ Step(j, "handoff", "taken")
          /\ status' = Processing(j, s)
          /\ UNCHANGED <<retries, ret, req, overridden>>
      BY <1>2, <2>2 DEF Handoff, Acquire, s
    <3> QED
      BY <1>r, <2>2, <3>1 DEF Processing, Status
  <2> QED
    BY <2>1, <2>2
<1>3. CASE PeekRequest(j)
  BY <1>3 DEF PeekRequest
<1>4. CASE StartSweep(j) \/ MoreToDrain(j)
  BY <1>4 DEF StartSweep, MoreToDrain
<1>5. CASE DrainedIdle(j)
  BY <1>5 DEF DrainedIdle, Status
<1>6. CASE BeginDrain(j)
  BY <1>6 DEF BeginDrain, IfBusyOwner, Status
<1>7. CASE DrainWait(j)
  BY <1>7, <1>r, <1>s DEF DrainWait
<1>8. CASE FenceDrain(j)
  BY <1>8 DEF FenceDrain, Status
<1>9. CASE ConfirmDrained(j)
  BY <1>9 DEF ConfirmDrained
<1>10. CASE ScanConfirm(j)
  BY <1>10, <1>r, <1>s DEF ScanConfirm
<1>11. CASE EnterReset(j)
  BY <1>11 DEF EnterReset, IfBusyOwner, LostReset, Status
<1>12. CASE ResetPages(j)
  BY <1>12 DEF ResetPages, LostReset, StillFreezeOwner
<1>13. CASE EndDrain(j)
  BY <1>13 DEF EndDrain, IfBusyOwner, Status
<1>14. CASE Quiesce(j)
  BY <1>14 DEF Quiesce, BusyReleased, Status, Return
<1>15. CASE Finalize(j)
  BY <1>15 DEF Finalize, IfBusyOwner, BusyReleased, Status, Return
<1>16. CASE CommitRetry(j)
  BY <1>16, <1>r, <1>s DEF CommitRetry
<1> QED
  BY <1>1, <1>2, <1>3, <1>4, <1>5, <1>6, <1>7, <1>8, <1>9, <1>10, <1>11,
     <1>12, <1>13, <1>14, <1>15, <1>16

LEMMA ScanKept ==
    ASSUME IInv, NEW j \in Job,
           \/ ScanReserve(j) \/ ScanPublish(j) \/ ResetAcquire(j)
           \/ ResetHolds(j) \/ Discovered(j) \/ ScanRelease(j)
           \/ ScanProbe(j)
    PROVE  Kept'
<1> DEFINE s == Reconcile(status)
<1>r. /\ s \in Status /\ TokensHeld(s)
      /\ ~overridden => Reflects(s) /\ FreezeOwned(s) /\ BusyOwned(s)
  BY ReconcileKept
<1>s. s = Reconcile(status)
  OBVIOUS
<1> HIDE DEF s
<1> USE DEF Step, IInv, TypeOK, Kept, TokensHeld, ReturnsToScan,
      HandoffReturns, ScanReturns, Reflects, Apart, FreezeOwned, BusyOwned,
      Working, ScanHolds, Frozen,
      EnqueueWork, BusyWork, RunStage, ResetStage, DestroyStage, SdkStage,
      Confirmed, Leaked
<1>1. CASE ScanReserve(j)
  <2>1. CASE CanScan(s)
    <3>1. /\ Step(j, "scan", "scanPublish")
          /\ status' = [s EXCEPT !.scanning = TRUE, !.exclusive = TRUE,
                              !.scanOwner = j]
          /\ UNCHANGED <<retries, ret, req, overridden>>
      BY <1>1, <2>1 DEF ScanReserve, Acquire, s
    <3> QED
      BY <1>r, <2>1, <3>1 DEF CanScan, Status
  <2>2. CASE ~CanScan(s)
    <3>1. /\ Step(j, "scan", "done")
          /\ status' = s
          /\ UNCHANGED <<retries, ret, req, overridden>>
      BY <1>1, <2>2 DEF ScanReserve, Acquire, s
    <3> QED
      BY <1>r, <2>2, <3>1 DEF Status
  <2> QED
    BY <2>1, <2>2
<1>2. CASE ScanPublish(j)
  BY <1>2 DEF ScanPublish
<1>3. CASE ResetAcquire(j)
  <2>1. CASE s.recovery \/ (s.exclusive /\ s.scanOwner # j) \/ s.busy
    <3>1. /\ Step(j, "resetAcquire", "scanRelease")
          /\ \E d : status' = [s EXCEPT !.deferred = d]
          /\ UNCHANGED <<retries, ret, req, overridden>>
      BY <1>3, <2>1 DEF ResetAcquire, s
    <3> QED
      BY <1>r, <2>1, <3>1 DEF Status
  <2>2. CASE ~(s.recovery \/ (s.exclusive /\ s.scanOwner # j) \/ s.busy)
    <3>1. /\ Step(j, "resetAcquire", "resetTaken")
          /\ \E d : status' = [Processing(j, s) EXCEPT !.deferred = d]
          /\ UNCHANGED <<retries, ret, req, overridden>>
      BY <1>3, <2>2 DEF ResetAcquire, s
    <3> QED
      BY <1>r, <2>2, <3>1 DEF Processing, Status
  <2> QED
    BY <2>1, <2>2
<1>4. CASE ResetHolds(j)
  BY <1>4 DEF ResetHolds
<1>5. CASE Discovered(j)
  BY <1>5 DEF Discovered, Status
<1>6. CASE ScanRelease(j)
  BY <1>6 DEF ScanRelease, ScanReleased, Status
<1>7. CASE ScanProbe(j)
  BY <1>7 DEF ScanProbe
<1> QED
  BY <1>1, <1>2, <1>3, <1>4, <1>5, <1>6, <1>7

LEMMA DestroyKept ==
    ASSUME IInv, NEW j \in Job,
           \/ DestroyReserve(j) \/ NameJob(j) \/ ClearMailbox(j)
           \/ Destroyed(j) \/ DestroyRelease(j)
    PROVE  Kept'
<1> DEFINE s == Reconcile(status)
<1>r. /\ s \in Status /\ TokensHeld(s)
      /\ ~overridden => Reflects(s) /\ FreezeOwned(s) /\ BusyOwned(s)
  BY ReconcileKept
<1>s. s = Reconcile(status)
  OBVIOUS
<1> HIDE DEF s
<1> USE DEF Step, IInv, TypeOK, Kept, TokensHeld, ReturnsToScan,
      HandoffReturns, ScanReturns, Reflects, Apart, FreezeOwned, BusyOwned,
      Working, ScanHolds, Frozen,
      EnqueueWork, BusyWork, RunStage, ResetStage, DestroyStage, SdkStage,
      Confirmed, Leaked
<1>1. CASE DestroyReserve(j)
  <2>1. CASE CanDestroy(s)
    <3>1. /\ \/ /\ Step(j, "clear", "clearStart")
                /\ status' = Destroying(j, s, "clear")
             \/ /\ Step(j, "delete", "deleteStart")
                /\ status' = Destroying(j, s, "delete")
          /\ UNCHANGED <<retries, ret, req, overridden>>
      BY <1>1, <2>1 DEF DestroyReserve, Acquire, s
    <3>2. /\ status'.busy /\ status'.busyOwner = j /\ status'.destructive
          /\ status'.scanning = s.scanning /\ status'.exclusive = s.exclusive
          /\ status'.scanOwner = s.scanOwner /\ status'.tokens = s.tokens
          /\ status'.phase = s.phase
      BY <1>r, <3>1 DEF Destroying, Status
    <3>3. CASE stage[j] = "clear"
      BY <1>r, <2>1, <3>1, <3>2, <3>3 DEF CanDestroy
    <3>4. CASE stage[j] = "delete"
      BY <1>r, <2>1, <3>1, <3>2, <3>4 DEF CanDestroy
    <3> QED
      BY <3>1, <3>3, <3>4
  <2>2. CASE ~CanDestroy(s)
    <3>1. /\ Step(j, "clear", "done") \/ Step(j, "delete", "done")
          /\ status' = s
          /\ UNCHANGED <<retries, ret, req, overridden>>
      BY <1>1, <2>2 DEF DestroyReserve, Acquire, s
    <3> QED
      BY <1>r, <2>2, <3>1 DEF Status
  <2> QED
    BY <2>1, <2>2
<1>2. CASE NameJob(j)
  BY <1>2 DEF NameJob, Status
<1>3. CASE ClearMailbox(j) \/ Destroyed(j)
  BY <1>3 DEF ClearMailbox, Destroyed
<1>4. CASE DestroyRelease(j)
  BY <1>4 DEF DestroyRelease, IfBusyOwner, BusyReleased, Status
<1> QED
  BY <1>1, <1>2, <1>3, <1>4

LEMMA SdkKept ==
    ASSUME IInv, NEW j \in Job,
           \/ SdkDeleteReserve(j) \/ JoinedDelete(j) \/ CustomReserve(j)
           \/ SdkWritten(j) \/ BusyExit(j) \/ Backstop(j)
    PROVE  Kept'
<1> DEFINE s == Reconcile(status)
<1>r. /\ s \in Status /\ TokensHeld(s)
      /\ ~overridden => Reflects(s) /\ FreezeOwned(s) /\ BusyOwned(s)
  BY ReconcileKept
<1>s. s = Reconcile(status)
  OBVIOUS
<1> HIDE DEF s
<1> USE DEF Step, IInv, TypeOK, Kept, TokensHeld, ReturnsToScan,
      HandoffReturns, ScanReturns, Reflects, Apart, FreezeOwned, BusyOwned,
      Working, ScanHolds, Frozen,
      EnqueueWork, BusyWork, RunStage, ResetStage, DestroyStage, SdkStage,
      Confirmed, Leaked
<1>1. CASE SdkDeleteReserve(j)
  <2>1. CASE s.busy \/ s.recovery
    <3>1. /\ Step(j, "sdkDelete", "joined") \/ Step(j, "sdkDelete", "done")
          /\ status' = s
          /\ UNCHANGED <<retries, ret, req, overridden>>
      BY <1>1, <2>1 DEF SdkDeleteReserve, s
    <3> QED
      BY <1>r, <2>1, <3>1 DEF Status
  <2>2. CASE ~(s.busy \/ s.recovery)
    <3>1. /\ Step(j, "sdkDelete", "sdkDeleting")
          /\ status' = [s EXCEPT !.busy = TRUE, !.busyOwner = j,
                              !.busyKind = "delete", !.deleting = FALSE]
          /\ UNCHANGED <<retries, ret, req, overridden>>
      BY <1>1, <2>2 DEF SdkDeleteReserve, s
    <3> QED
      BY <1>r, <2>2, <3>1 DEF Status
  <2> QED
    BY <2>1, <2>2
<1>2. CASE CustomReserve(j)
  <2>1. CASE ~s.recovery /\ ~s.busy /\ ~s.scanning
    <3>1. /\ Step(j, "custom", "inserting")
          /\ status' = [s EXCEPT !.busy = TRUE, !.busyOwner = j,
                              !.busyKind = "custom_chunks",
                              !.deleting = FALSE]
          /\ UNCHANGED <<retries, ret, req, overridden>>
      BY <1>2, <2>1 DEF CustomReserve, Acquire, s
    <3> QED
      BY <1>r, <2>1, <3>1 DEF Status
  <2>2. CASE ~(~s.recovery /\ ~s.busy /\ ~s.scanning)
    <3>1. /\ Step(j, "custom", "done")
          /\ status' = s
          /\ UNCHANGED <<retries, ret, req, overridden>>
      BY <1>2, <2>2 DEF CustomReserve, Acquire, s
    <3> QED
      BY <1>r, <2>2, <3>1 DEF Status
  <2> QED
    BY <2>1, <2>2
<1>3. CASE JoinedDelete(j) \/ SdkWritten(j)
  BY <1>3 DEF JoinedDelete, SdkWritten
<1>4. CASE BusyExit(j)
  <2>1. CASE Step(j, "busyExit", "handoff")
    BY <1>4, <2>1 DEF BusyExit
  <2>2. CASE Step(j, "busyExit", "backstop")
    <3>1. /\ IfBusyOwner(j, BusyReleased)
          /\ ret' = [ret EXCEPT ![j] = "backstop"]
          /\ UNCHANGED <<retries, req, overridden>>
      BY <1>4, <2>2 DEF BusyExit
    <3>2. CASE status.busyOwner = j
      <4>1. /\ ~status'.busy /\ status'.phase = status.phase
            /\ status'.destructive = status.destructive
            /\ status'.scanning = status.scanning
            /\ status'.exclusive = status.exclusive
            /\ status'.scanOwner = status.scanOwner
            /\ status'.tokens = status.tokens
        BY <3>1, <3>2 DEF IfBusyOwner, BusyReleased, Status
      <4> QED
        BY <2>2, <3>1, <3>2, <4>1
    <3>3. CASE status.busyOwner # j
      BY <2>2, <3>1, <3>3 DEF IfBusyOwner
    <3> QED
      BY <3>2, <3>3
  <2> QED
    BY <1>4, <2>1, <2>2 DEF BusyExit
<1>5. CASE Backstop(j)
  BY <1>5 DEF Backstop, IfBusyOwner, BusyReleased, Status
<1> QED
  BY <1>1, <1>2, <1>3, <1>4, <1>5

LEMMA AccidentKept ==
    ASSUME IInv, NEW j \in Job,
           \/ Abort(j) \/ Crash(j)
    PROVE  Kept'
<1> USE DEF Step, IInv, TypeOK, Kept, TokensHeld, ReturnsToScan,
      HandoffReturns, ScanReturns, Reflects, Apart, FreezeOwned, BusyOwned,
      Working, ScanHolds, Frozen,
      EnqueueWork, BusyWork, RunStage, ResetStage, DestroyStage, SdkStage,
      Confirmed, Leaked
<1>1. CASE Abort(j)
  BY <1>1 DEF Abort, AbortTo, Abortable, Return
<1>2. CASE Crash(j)
  BY <1>2 DEF Crash, Entry
<1> QED
  BY <1>1, <1>2

LEMMA ForceResetKept ==
    ASSUME IInv, ForceReset PROVE Kept'
<1>1. CASE overridden' 
  BY <1>1
  DEF ForceReset, Idle, Status, IInv, TypeOK, Kept, TokensHeld, ReturnsToScan,
      HandoffReturns, ScanReturns
<1>2. CASE ~overridden'
  BY <1>2
  DEF ForceReset, Engaged, Idle, Status, IInv, TypeOK, ScanStage, Kept,
      TokensHeld, ReturnsToScan, HandoffReturns, ScanReturns, Reflects, Apart,
      FreezeOwned, BusyOwned, Working, ScanHolds, Frozen, EnqueueWork,
      BusyWork, RunStage, ResetStage, DestroyStage, SdkStage, Confirmed,
      Leaked
<1> QED
  BY <1>1, <1>2

LEMMA NextKept == IInv /\ [Next]_vars => Kept'
<1> SUFFICES ASSUME IInv, [Next]_vars PROVE Kept'
  OBVIOUS
<1>1. ASSUME NEW j \in Job, Advance(j) PROVE Kept'
  BY <1>1, EnqueueKept, RunKept, ScanKept, DestroyKept, SdkKept DEF Advance
<1>2. ASSUME NEW j \in Job, \/ MoreToDrain(j) \/ FenceDrain(j)
                            \/ Abort(j) \/ Crash(j)
      PROVE  Kept'
  BY <1>2, RunKept, AccidentKept
<1>3. CASE ForceReset
  BY <1>3, ForceResetKept
<1>4. CASE UNCHANGED vars
  BY <1>4
  DEF vars, IInv, Kept, TokensHeld, ReturnsToScan, HandoffReturns, ScanReturns,
      Reflects, Apart, FreezeOwned, BusyOwned, Working, ScanHolds
<1> QED
  BY <1>1, <1>2, <1>3, <1>4 DEF Next

\* What a job's stage says and what pipeline_status says agree, through every
\* acquire, release, reclaim, hand-off, cancellation and kill.
THEOREM Invariance == Spec => []IInv
<1>1. IInv /\ [Next]_vars => IInv'
  BY NextTypeOK, NextKept DEF IInv
<1> QED
  BY InitIInv, <1>1, PTL DEF Spec

-----------------------------------------------------------------------------
(* Safety                                                                  *)

\* At most one job at a time works under the busy slot.
THEOREM OneWriter == Spec => []SingleWriter
<1>1. IInv => SingleWriter
  BY DEF IInv, Kept, Reflects, Working, SingleWriter
<1> QED
  BY <1>1, Invariance, PTL

\* Nobody enqueues and no scan is at work while storage is being dropped.
THEOREM NobodyBesidesDestruction == Spec => []DestructionAlone
<1>1. IInv => DestructionAlone
  BY DEF IInv, Kept, Apart, ScanHolds, DestructionAlone, EnqueueWork,
         DestroyStage
<1> QED
  BY <1>1, Invariance, PTL

\* The FAILED -> PENDING reset of a run or of a scan has no enqueue in flight.
THEOREM NoProducerInReset == Spec => []ResetWithoutProducers
<1>1. IInv => ResetWithoutProducers
  BY DEF IInv, Kept, Apart, Confirmed, ResetWithoutProducers
<1> QED
  BY <1>1, Invariance, PTL

\* Nor has the classification of files by a scan.
THEOREM NoProducerInScan == Spec => []ClassifyWithoutProducers
<1>1. IInv => ClassifyWithoutProducers
  BY DEF IInv, Kept, Apart, ScanHolds, ClassifyWithoutProducers
<1> QED
  BY <1>1, Invariance, PTL

\* A freeze always has a run behind it that takes it down, or a dead one.
THEOREM FreezeHasOwner == Spec => []FreezeBacked
<1>1. IInv => FreezeBacked
  BY ReservationAssumption DEF IInv, Kept, FreezeOwned, FreezeBacked
<1> QED
  BY <1>1, Invariance, PTL

\* The slot stays with a live job that will not give it back only after a
\* scan's reset was cancelled before it knew that it had taken it.
THEOREM OneLeak == Spec => []LeakOnlyFromScanReset
<1>1. IInv => LeakOnlyFromScanReset
  BY DEF IInv, Kept, BusyOwned, LeakOnlyFromScanReset, Leaked
<1> QED
  BY <1>1, Invariance, PTL

-----------------------------------------------------------------------------
(* The recovery fence                                                      *)

\* Reconciling takes reservations away, gives none, and keeps the fence.
LEMMA ReconcileShrinks ==
    ASSUME NEW s \in Status
    PROVE  /\ Reconcile(s).tokens \subseteq s.tokens
           /\ Reconcile(s).busyOwner \in {s.busyOwner, NoJob}
           /\ Reconcile(s).scanOwner \in {s.scanOwner, NoJob}
           /\ s.recovery => Reconcile(s).recovery
<1>1. Reconcile(s).tokens \subseteq s.tokens
  BY ReconcileTokens
<1>2. /\ ReapBusy(s).busyOwner \in {s.busyOwner, NoJob}
      /\ ReapBusy(s).scanOwner = s.scanOwner
      /\ s.recovery => ReapBusy(s).recovery
  <2>1. CASE (s.busy \/ s.destructive) /\ s.busyOwner # NoJob
               /\ Dead(s.busyOwner)
    BY <2>1 DEF ReapBusy, Status
  <2>2. CASE ~((s.busy \/ s.destructive) /\ s.busyOwner # NoJob
                 /\ Dead(s.busyOwner))
    BY <2>2 DEF ReapBusy
  <2> QED
    BY <2>1, <2>2
<1>3. ASSUME NEW r \in Status
      PROVE  ReapScan(r).scanOwner \in {r.scanOwner, NoJob}
  BY DEF ReapScan, Status, Dead
<1>4. Reconcile(s).scanOwner = ReapScan(ReapBusy(s)).scanOwner
  BY ReapBusyInStatus, ReapScanInStatus DEF Reconcile, ReapTokens, Status
<1> QED
  BY <1>1, <1>2, <1>3, <1>4, ReapBusyInStatus, ReconcilePhase

\* No reservation of t is new.
NoneNew(t) == /\ t.tokens \subseteq status.tokens
              /\ t.busyOwner \in {status.busyOwner, NoJob}
              /\ t.scanOwner \in {status.scanOwner, NoJob}

\* Behind the fence an acquire helper refuses and only reconciles.
LEMMA AcquiresRefused ==
    ASSUME TypeOK, status.recovery, NEW j \in Job,
           \/ UploadReserve(j) \/ InsertReserve(j) \/ Drive(j) \/ Handoff(j)
           \/ CommitRetry(j) \/ ScanReserve(j) \/ ResetAcquire(j)
           \/ DestroyReserve(j) \/ SdkDeleteReserve(j) \/ CustomReserve(j)
           \/ DrainWait(j) \/ ScanConfirm(j)
    PROVE  NoneNew(status')
<1> DEFINE s == Reconcile(status)
<1>1. s \in Status /\ NoneNew(s) /\ s.recovery
  BY ReconcileInStatus, ReconcileShrinks DEF TypeOK, NoneNew
<1>2. \/ status' = s \/ UNCHANGED status
      \/ \E d : status' = [s EXCEPT !.deferred = d]
  BY <1>1
  DEF UploadReserve, InsertReserve, ReserveEnqueue, CanEnqueue, Drive,
      DriveRefused, Handoff, CommitRetry, ScanReserve, CanScan, ResetAcquire,
      DestroyReserve, CanDestroy, SdkDeleteReserve, CustomReserve, DrainWait,
      ScanConfirm, Acquire
<1> HIDE DEF s
<1> QED
  BY <1>1, <1>2 DEF NoneNew, Status, TypeOK

LEMMA OthersReserveNothing ==
    ASSUME TypeOK, NEW j \in Job,
           \/ UploadWritten(j) \/ InsertWritten(j) \/ DropToken(j)
           \/ PeekRequest(j) \/ StartSweep(j) \/ BeginDrain(j)
           \/ DrainedIdle(j) \/ MoreToDrain(j) \/ FenceDrain(j)
           \/ ConfirmDrained(j) \/ EnterReset(j) \/ ResetPages(j)
           \/ EndDrain(j) \/ Quiesce(j) \/ Finalize(j) \/ ScanPublish(j)
           \/ ResetHolds(j) \/ Discovered(j) \/ ScanRelease(j) \/ ScanProbe(j)
           \/ NameJob(j) \/ ClearMailbox(j) \/ Destroyed(j)
           \/ DestroyRelease(j) \/ JoinedDelete(j) \/ SdkWritten(j)
           \/ BusyExit(j) \/ Backstop(j) \/ Abort(j) \/ Crash(j)
    PROVE  NoneNew(status')
<1> USE DEF NoneNew, TypeOK
<1>1. CASE \/ UploadWritten(j) \/ PeekRequest(j) \/ StartSweep(j)
           \/ DrainedIdle(j) \/ MoreToDrain(j) \/ ConfirmDrained(j)
           \/ ResetPages(j) \/ ScanPublish(j) \/ ResetHolds(j) \/ ScanProbe(j)
           \/ ClearMailbox(j) \/ Destroyed(j) \/ JoinedDelete(j)
           \/ SdkWritten(j) \/ Abort(j) \/ Crash(j)
  BY <1>1
  DEF UploadWritten, PeekRequest, StartSweep, DrainedIdle, MoreToDrain,
      ConfirmDrained, ResetPages, ScanPublish, ResetHolds, ScanProbe,
      ClearMailbox, Destroyed, JoinedDelete, SdkWritten, Abort, Crash
<1>2. CASE InsertWritten(j) \/ DropToken(j)
  BY <1>2 DEF InsertWritten, DropToken, Status
<1>3. CASE BeginDrain(j) \/ EnterReset(j) \/ EndDrain(j) \/ FenceDrain(j)
  BY <1>3 DEF BeginDrain, EnterReset, EndDrain, FenceDrain, IfBusyOwner,
              Status
<1>4. CASE \/ Quiesce(j) \/ Finalize(j) \/ DestroyRelease(j) \/ BusyExit(j)
           \/ Backstop(j)
  BY <1>4 DEF Quiesce, Finalize, DestroyRelease, BusyExit, Backstop,
              IfBusyOwner, BusyReleased, Status
<1>5. CASE Discovered(j) \/ ScanRelease(j) \/ NameJob(j)
  BY <1>5 DEF Discovered, ScanRelease, ScanReleased, NameJob, Status
<1> QED
  BY <1>1, <1>2, <1>3, <1>4, <1>5

\* Behind the recovery fence nobody gets a new reservation.
THEOREM FenceRespected == Spec => FenceHolds
<1> DEFINE P == (status.recovery /\ status'.recovery) =>
                  /\ status'.tokens \subseteq status.tokens
                  /\ status'.busyOwner \in {status.busyOwner, NoJob}
                  /\ status'.scanOwner \in {status.scanOwner, NoJob}
<1>1. TypeOK /\ [Next]_vars => [P]_vars
  <2> SUFFICES ASSUME TypeOK, [Next]_vars, status.recovery, status'.recovery
               PROVE  NoneNew(status')
    BY DEF NoneNew
  <2>1. ASSUME NEW j \in Job, \/ Advance(j) \/ MoreToDrain(j)
                              \/ FenceDrain(j) \/ Abort(j) \/ Crash(j)
        PROVE  NoneNew(status')
    BY <2>1, AcquiresRefused, OthersReserveNothing DEF Advance
  <2>2. CASE ForceReset
    BY <2>2 DEF ForceReset, Idle, Status, TypeOK, NoneNew
  <2>3. CASE UNCHANGED vars
    BY <2>3 DEF vars, NoneNew
  <2> QED
    BY <2>1, <2>2, <2>3 DEF Next
<1> QED
  BY <1>1, TypeCorrect, PTL DEF Spec, FenceHolds

-----------------------------------------------------------------------------
(* Half-done work of a dead owner                                          *)

\* Where a job is sure of its slot: in a run that has not come to its end, and
\* on the way into one.
AtWork == (RunStage \ {"finalize"}) \cup {"handoff", "resetTaken"}

\* An owner is written together with busy.
OwnerIsBusy(t) == t.busyOwner # NoJob => t.busy

\* A run owns the slot from acquisition to finalisation, and no fence is up.
RunsOwn(t) ==
    \A j \in Job : stage[j] \in AtWork => t.busyOwner = j /\ ~t.recovery

\* The fence comes up as a run gives up, or as a dead owner is reclaimed: no
\* other live job owns the slot behind it.
FencedOwner(t) ==
    t.recovery => \A j \in Job : t.busyOwner = j
                                   => stage[j] \in {"finalize", "dead"}

OwnerKnown(t) == OwnerIsBusy(t) /\ RunsOwn(t) /\ FencedOwner(t)

\* Reconciling leaves the slot and the fence alone, or it takes the slot from
\* a dead owner and raises the fence unless the work can be run again.
LEMMA ReconcileOwner ==
    ASSUME NEW s \in Status
    PROVE  \/ /\ Reconcile(s).busy = s.busy
              /\ Reconcile(s).busyOwner = s.busyOwner
              /\ Reconcile(s).recovery = s.recovery
           \/ /\ s.busyOwner # NoJob /\ Dead(s.busyOwner)
              /\ ~Reconcile(s).busy
              /\ Reconcile(s).busyOwner = NoJob
              /\ s.busyKind \notin Rerunnable => Reconcile(s).recovery
<1> DEFINE reaped == (s.busy \/ s.destructive) /\ s.busyOwner # NoJob
                       /\ Dead(s.busyOwner)
           fence == s.recovery \/ s.busyKind \notin Rerunnable
<1>1. CASE reaped
  <2>1. ReapBusy(s) =
          [s EXCEPT !.busy = FALSE, !.destructive = FALSE, !.busyOwner = NoJob,
                    !.busyKind = "none", !.phase = "IDLE", !.request = NoJob,
                    !.recovery = fence]
    BY <1>1 DEF ReapBusy
  <2>2. s.busyKind \notin Rerunnable => fence
    OBVIOUS
  <2> HIDE DEF fence
  <2>3. /\ ~ReapBusy(s).busy /\ ReapBusy(s).busyOwner = NoJob
        /\ ReapBusy(s).recovery = fence
    BY <2>1 DEF Status
  <2> QED
    BY <1>1, <2>2, <2>3, ReconcilePhase
<1>2. CASE ~reaped
  BY <1>2, ReconcilePhase DEF ReapBusy
<1> QED
  BY <1>1, <1>2

\* A dead owner is in no run, so what is known of the owner survives.
LEMMA ReconcileKnown ==
    ASSUME TypeOK, OwnerKnown(status)
    PROVE  Reconcile(status) \in Status /\ OwnerKnown(Reconcile(status))
<1>1. status \in Status /\ Reconcile(status) \in Status
  BY ReconcileInStatus DEF TypeOK
<1> QED
  BY <1>1, ReconcileOwner, ReservationAssumption
  DEF OwnerKnown, OwnerIsBusy, RunsOwn, FencedOwner, Dead, AtWork, RunStage,
      ResetStage

\* A job moves on and leaves the slot and the fence as they are.
LEMMA SlotLeftAlone ==
    ASSUME TypeOK, NEW t, OwnerKnown(t), NEW j \in Job, NEW to,
           stage' = [stage EXCEPT ![j] = to],
           status'.busy = t.busy, status'.busyOwner = t.busyOwner,
           status'.recovery = t.recovery,
           to \in AtWork => t.busyOwner = j /\ ~t.recovery,
           t.recovery /\ t.busyOwner = j => to \in {"finalize", "dead"}
    PROVE  OwnerKnown(status)'
BY DEF TypeOK, OwnerKnown, OwnerIsBusy, RunsOwn, FencedOwner

\* A job takes a slot that was free.
LEMMA SlotTaken ==
    ASSUME TypeOK, NEW t, OwnerKnown(t), NEW j \in Job, NEW to,
           stage' = [stage EXCEPT ![j] = to],
           ~t.busy \/ t.busyOwner = j, ~t.recovery,
           status'.busy, status'.busyOwner = j, ~status'.recovery
    PROVE  OwnerKnown(status)'
BY ReservationAssumption
DEF TypeOK, OwnerKnown, OwnerIsBusy, RunsOwn, FencedOwner

\* A job gives back a slot of its own and is not at work any more.
LEMMA SlotGivenBack ==
    ASSUME TypeOK, OwnerKnown(status), NEW j \in Job, NEW to, to \notin AtWork,
           stage' = [stage EXCEPT ![j] = to], status.busyOwner = j,
           status'.busyOwner = NoJob
    PROVE  OwnerKnown(status)'
BY ReservationAssumption
DEF TypeOK, OwnerKnown, OwnerIsBusy, RunsOwn, FencedOwner

LEMMA EnqueueOwner ==
    ASSUME TypeOK, OwnerKnown(status), NEW j \in Job,
           \/ UploadReserve(j) \/ InsertReserve(j) \/ UploadWritten(j)
           \/ InsertWritten(j) \/ DropToken(j)
    PROVE  OwnerKnown(status)'
<1> DEFINE s == Reconcile(status)
<1>s. s \in Status /\ OwnerKnown(s)
  BY ReconcileKnown
<1> HIDE DEF s
<1> USE DEF Step, TypeOK, AtWork, RunStage, ResetStage, FencedOwner
<1>1. ASSUME NEW at \in {"upload", "insert"},
             NEW next \in {"uploadWrite", "insertWrite"},
             ReserveEnqueue(j, at, next)
      PROVE  OwnerKnown(status)'
  <2>1. CASE CanEnqueue(s)
    <3>1. /\ Step(j, at, next) /\ ~s.recovery
          /\ status' = [s EXCEPT !.tokens = @ \cup {j}]
      BY <1>1, <2>1 DEF ReserveEnqueue, Acquire, CanEnqueue, s
    <3> QED
      BY <1>s, <3>1, SlotLeftAlone DEF Status
  <2>2. CASE ~CanEnqueue(s)
    <3>1. Step(j, at, "done") /\ status' = s
      BY <1>1, <2>2 DEF ReserveEnqueue, Acquire, s
    <3> QED
      BY <1>s, <3>1, SlotLeftAlone DEF OwnerKnown
  <2> QED
    BY <2>1, <2>2
<1>2. CASE UploadReserve(j) \/ InsertReserve(j)
  BY <1>1, <1>2 DEF UploadReserve, InsertReserve
<1>3. CASE UploadWritten(j)
  BY <1>3, SlotLeftAlone DEF UploadWritten, OwnerKnown
<1>4. CASE InsertWritten(j) \/ DropToken(j)
  BY <1>4, SlotLeftAlone DEF InsertWritten, DropToken, OwnerKnown, Status
<1> QED
  BY <1>2, <1>3, <1>4

LEMMA RunOwner ==
    ASSUME TypeOK, OwnerKnown(status), NEW j \in Job,
           \/ Drive(j) \/ Handoff(j) \/ PeekRequest(j) \/ StartSweep(j)
           \/ BeginDrain(j) \/ DrainWait(j) \/ DrainedIdle(j)
           \/ MoreToDrain(j) \/ FenceDrain(j) \/ ConfirmDrained(j)
           \/ ScanConfirm(j) \/ EnterReset(j) \/ ResetPages(j)
           \/ EndDrain(j) \/ Quiesce(j) \/ Finalize(j) \/ CommitRetry(j)
    PROVE  OwnerKnown(status)'
<1> DEFINE s == Reconcile(status)
<1>s. s \in Status /\ OwnerKnown(s)
  BY ReconcileKnown
<1>t. s = Reconcile(status)
  OBVIOUS
<1> HIDE DEF s
<1> USE DEF Step, TypeOK, Return, AtWork, RunStage, ResetStage
<1>1. CASE Drive(j)
  <2>1. CASE s.recovery \/ s.exclusive \/ s.busy
    <3>1. /\ Step(j, "drive", ret[j])
          /\ \E d : status' = [s EXCEPT !.deferred = d]
      BY <1>1, <2>1 DEF Drive, DriveRefused, s
    <3>2. /\ status'.busy = s.busy /\ status'.busyOwner = s.busyOwner
          /\ status'.recovery = s.recovery
      BY <1>s, <3>1 DEF Status
    <3> QED
      BY <1>s, <3>1, <3>2, SlotLeftAlone DEF OwnerKnown, FencedOwner
  <2>2. CASE ~(s.recovery \/ s.exclusive \/ s.busy)
    <3>1. Step(j, "drive", "taken") /\ status' = Processing(j, s)
      BY <1>1, <2>2 DEF Drive, s
    <3>2. status'.busy /\ status'.busyOwner = j /\ ~status'.recovery
      BY <1>s, <2>2, <3>1 DEF Processing, Status
    <3> QED
      BY <1>s, <2>2, <3>1, <3>2, SlotTaken
  <2> QED
    BY <2>1, <2>2
<1>2. CASE Handoff(j)
  <2>1. stage[j] = "handoff"
    BY <1>2 DEF Handoff, Acquire
  <2>2. s.busyOwner = j /\ ~s.recovery
    BY <1>s, <2>1 DEF OwnerKnown, RunsOwn
  <2>3. Step(j, "handoff", "taken") /\ status' = Processing(j, s)
    BY <1>2, <1>t, <2>2 DEF Handoff, Acquire
  <2>4. status'.busy /\ status'.busyOwner = j /\ ~status'.recovery
    BY <1>s, <2>2, <2>3 DEF Processing, Status
  <2> QED
    BY <1>s, <2>2, <2>3, <2>4, SlotTaken
<1>3. CASE \/ PeekRequest(j) \/ StartSweep(j) \/ DrainedIdle(j)
           \/ MoreToDrain(j) \/ ConfirmDrained(j) \/ ResetPages(j)
  <2>1. UNCHANGED status /\ stage[j] \in AtWork
    BY <1>3
    DEF PeekRequest, StartSweep, DrainedIdle, MoreToDrain, ConfirmDrained,
        ResetPages
  <2>2. status.busyOwner = j /\ ~status.recovery
    BY <2>1 DEF OwnerKnown, RunsOwn
  <2>3. \E to : stage' = [stage EXCEPT ![j] = to]
    BY <1>3
    DEF PeekRequest, StartSweep, DrainedIdle, MoreToDrain, ConfirmDrained,
        ResetPages, LostReset
  <2> QED
    BY <2>1, <2>2, <2>3, SlotLeftAlone
<1>4. CASE BeginDrain(j) \/ EnterReset(j) \/ EndDrain(j)
  <2>1. stage[j] \in AtWork
    BY <1>4 DEF BeginDrain, EnterReset, EndDrain
  <2>2. status.busyOwner = j /\ ~status.recovery
    BY <2>1 DEF OwnerKnown, RunsOwn
  <2>3. PICK to : stage' = [stage EXCEPT ![j] = to]
    BY <1>4 DEF BeginDrain, EnterReset, EndDrain, LostReset
  <2>4. /\ status'.busy = status.busy /\ status'.busyOwner = status.busyOwner
        /\ status'.recovery = status.recovery
    BY <1>4 DEF BeginDrain, EnterReset, EndDrain, IfBusyOwner, Status
  <2> QED
    BY <2>2, <2>3, <2>4, SlotLeftAlone
<1>5. CASE DrainWait(j)
  <2>1. UNCHANGED stage /\ status' = s
    BY <1>5, <1>t DEF DrainWait
  <2> QED
    BY <1>s, <2>1 DEF OwnerKnown, OwnerIsBusy, RunsOwn, FencedOwner
<1>6. CASE FenceDrain(j)
  <2>1. /\ Step(j, "confirm", "finalize")
        /\ status'.busy = status.busy /\ status'.busyOwner = status.busyOwner
    BY <1>6 DEF FenceDrain, Status
  <2> QED
    BY <2>1 DEF OwnerKnown, OwnerIsBusy, RunsOwn, FencedOwner
<1>7. CASE ScanConfirm(j)
  <2>1. stage[j] = "confirm"
    BY <1>7 DEF ScanConfirm
  <2>2. /\ status.busyOwner = j /\ ~status.recovery
        /\ s.busyOwner = j /\ ~s.recovery
    BY <1>s, <2>1 DEF OwnerKnown, RunsOwn
  <2>3. CASE UNCHANGED stage /\ status' = s
    BY <1>s, <2>3 DEF OwnerKnown, OwnerIsBusy, RunsOwn, FencedOwner
  <2>4. CASE UNCHANGED status /\ \E to : stage' = [stage EXCEPT ![j] = to]
    BY <2>2, <2>4, SlotLeftAlone
  <2> QED
    BY <1>7, <1>t, <2>3, <2>4 DEF ScanConfirm
<1>8. CASE Quiesce(j)
  <2>1. Step(j, "run", ret[j]) /\ status' = BusyReleased
    BY <1>8 DEF Quiesce
  <2>2. status.busyOwner = j /\ status'.busyOwner = NoJob
    BY <2>1 DEF OwnerKnown, RunsOwn, BusyReleased, Status
  <2> QED
    BY <2>1, <2>2, SlotGivenBack
<1>9. CASE Finalize(j)
  <2>1. CASE status.busyOwner = j
    <3>1. Step(j, "finalize", ret[j]) /\ status'.busyOwner = NoJob
      BY <1>9, <2>1 DEF Finalize, IfBusyOwner, BusyReleased, Status
    <3> QED
      BY <2>1, <3>1, SlotGivenBack
  <2>2. CASE status.busyOwner # j
    <3>1. Step(j, "finalize", ret[j]) /\ UNCHANGED status
      BY <1>9, <2>2 DEF Finalize, IfBusyOwner
    <3> QED
      BY <2>2, <3>1, SlotLeftAlone
  <2> QED
    BY <2>1, <2>2
<1>10. CASE CommitRetry(j)
  <2>1. /\ status' = s
        /\ Step(j, "retry", "drive") \/ Step(j, "retry", "done")
    BY <1>10, <1>t DEF CommitRetry
  <2> QED
    BY <1>s, <2>1, SlotLeftAlone DEF OwnerKnown, FencedOwner
<1> QED
  BY <1>1, <1>2, <1>3, <1>4, <1>5, <1>6, <1>7, <1>8, <1>9, <1>10

LEMMA ScanOwner ==
    ASSUME TypeOK, OwnerKnown(status), NEW j \in Job,
           \/ ScanReserve(j) \/ ScanPublish(j) \/ ResetAcquire(j)
           \/ ResetHolds(j) \/ Discovered(j) \/ ScanRelease(j)
           \/ ScanProbe(j)
    PROVE  OwnerKnown(status)'
<1> DEFINE s == Reconcile(status)
<1>s. s \in Status /\ OwnerKnown(s)
  BY ReconcileKnown
<1>t. s = Reconcile(status)
  OBVIOUS
<1> HIDE DEF s
<1> USE DEF Step, TypeOK, AtWork, RunStage, ResetStage
<1>1. CASE ScanReserve(j)
  <2>1. /\ Step(j, "scan", "scanPublish") \/ Step(j, "scan", "done")
        /\ \/ status' = s
           \/ status' = [s EXCEPT !.scanning = TRUE, !.exclusive = TRUE,
                                  !.scanOwner = j]
    BY <1>1, <1>t DEF ScanReserve, Acquire
  <2>2. /\ status'.busy = s.busy /\ status'.busyOwner = s.busyOwner
        /\ status'.recovery = s.recovery
    BY <1>s, <2>1 DEF Status
  <2> QED
    BY <1>s, <2>1, <2>2, SlotLeftAlone DEF OwnerKnown, FencedOwner
<1>2. CASE ScanPublish(j) \/ ScanProbe(j)
  BY <1>2, SlotLeftAlone
  DEF ScanPublish, ScanProbe, OwnerKnown, FencedOwner
<1>3. CASE ResetAcquire(j)
  <2> DEFINE fenced == s.exclusive /\ s.scanOwner # j
  <2>1. CASE s.recovery \/ fenced \/ s.busy
    <3>1. /\ Step(j, "resetAcquire", "scanRelease")
          /\ \E d : status' = [s EXCEPT !.deferred = d]
      BY <1>3, <1>t, <2>1 DEF ResetAcquire
    <3>2. /\ status'.busy = s.busy /\ status'.busyOwner = s.busyOwner
          /\ status'.recovery = s.recovery
      BY <1>s, <3>1 DEF Status
    <3> QED
      BY <1>s, <3>1, <3>2, SlotLeftAlone DEF OwnerKnown, FencedOwner
  <2>2. CASE ~(s.recovery \/ fenced \/ s.busy)
    <3>1. /\ Step(j, "resetAcquire", "resetTaken")
          /\ \E d : status' = [Processing(j, s) EXCEPT !.deferred = d]
      BY <1>3, <1>t, <2>2 DEF ResetAcquire
    <3>2. status'.busy /\ status'.busyOwner = j /\ ~status'.recovery
      BY <1>s, <2>2, <3>1 DEF Processing, Status
    <3> QED
      BY <1>s, <2>2, <3>1, <3>2, SlotTaken
  <2> QED
    BY <2>1, <2>2
<1>4. CASE ResetHolds(j)
  <2>1. Step(j, "resetTaken", "freeze") /\ UNCHANGED status
    BY <1>4 DEF ResetHolds
  <2>2. status.busyOwner = j /\ ~status.recovery
    BY <2>1 DEF OwnerKnown, RunsOwn
  <2> QED
    BY <2>1, <2>2, SlotLeftAlone
<1>5. CASE Discovered(j) \/ ScanRelease(j)
  <2>1. /\ status'.busy = status.busy /\ status'.busyOwner = status.busyOwner
        /\ status'.recovery = status.recovery
    BY <1>5 DEF Discovered, ScanRelease, ScanReleased, Status
  <2> QED
    BY <1>5, <2>1, SlotLeftAlone
    DEF Discovered, ScanRelease, OwnerKnown, FencedOwner
<1> QED
  BY <1>1, <1>2, <1>3, <1>4, <1>5

LEMMA DestroyOwner ==
    ASSUME TypeOK, OwnerKnown(status), NEW j \in Job,
           \/ DestroyReserve(j) \/ NameJob(j) \/ ClearMailbox(j)
           \/ Destroyed(j) \/ DestroyRelease(j)
    PROVE  OwnerKnown(status)'
<1> DEFINE s == Reconcile(status)
<1>s. s \in Status /\ OwnerKnown(s)
  BY ReconcileKnown
<1> HIDE DEF s
<1> USE DEF Step, TypeOK, AtWork, RunStage, ResetStage
<1>1. CASE DestroyReserve(j)
  <2>1. CASE CanDestroy(s)
    <3>1. /\ Step(j, "clear", "clearStart") \/ Step(j, "delete", "deleteStart")
          /\ \E kind : status' = Destroying(j, s, kind)
          /\ ~s.busy /\ ~s.recovery
      BY <1>1, <2>1 DEF DestroyReserve, Acquire, CanDestroy, s
    <3>2. status'.busy /\ status'.busyOwner = j /\ ~status'.recovery
      BY <1>s, <3>1 DEF Destroying, Status
    <3> QED
      BY <1>s, <3>1, <3>2, SlotTaken
  <2>2. CASE ~CanDestroy(s)
    <3>1. /\ Step(j, "clear", "done") \/ Step(j, "delete", "done")
          /\ status' = s
      BY <1>1, <2>2 DEF DestroyReserve, Acquire, s
    <3> QED
      BY <1>s, <3>1, SlotLeftAlone DEF OwnerKnown, FencedOwner
  <2> QED
    BY <2>1, <2>2
<1>2. CASE NameJob(j)
  <2>1. /\ \/ Step(j, "clearStart", "clearing")
           \/ Step(j, "deleteStart", "deleting")
        /\ status'.busy = status.busy /\ status'.busyOwner = status.busyOwner
        /\ status'.recovery = status.recovery
    BY <1>2 DEF NameJob, Status
  <2> QED
    BY <2>1, SlotLeftAlone DEF OwnerKnown, FencedOwner
<1>3. CASE ClearMailbox(j) \/ Destroyed(j)
  BY <1>3, SlotLeftAlone
  DEF ClearMailbox, Destroyed, OwnerKnown, FencedOwner
<1>4. CASE DestroyRelease(j)
  <2>1. \/ Step(j, "clearRelease", "done") \/ Step(j, "deleteRelease", "done")
        \/ Step(j, "deleteRelease", "drive")
    BY <1>4 DEF DestroyRelease
  <2>2. CASE status.busyOwner = j
    <3>1. status'.busyOwner = NoJob
      BY <1>4, <2>2 DEF DestroyRelease, IfBusyOwner, BusyReleased, Status
    <3> QED
      BY <2>1, <2>2, <3>1, SlotGivenBack
  <2>3. CASE status.busyOwner # j
    BY <1>4, <2>1, <2>3, SlotLeftAlone DEF DestroyRelease, IfBusyOwner
  <2> QED
    BY <2>2, <2>3
<1> QED
  BY <1>1, <1>2, <1>3, <1>4

LEMMA SdkOwner ==
    ASSUME TypeOK, OwnerKnown(status), NEW j \in Job,
           \/ SdkDeleteReserve(j) \/ JoinedDelete(j) \/ CustomReserve(j)
           \/ SdkWritten(j) \/ BusyExit(j) \/ Backstop(j)
    PROVE  OwnerKnown(status)'
<1> DEFINE s == Reconcile(status)
<1>s. s \in Status /\ OwnerKnown(s)
  BY ReconcileKnown
<1> HIDE DEF s
<1> USE DEF Step, TypeOK, AtWork, RunStage, ResetStage
<1>1. CASE SdkDeleteReserve(j)
  <2>1. CASE s.busy \/ s.recovery
    <3>1. /\ Step(j, "sdkDelete", "joined") \/ Step(j, "sdkDelete", "done")
          /\ status' = s
      BY <1>1, <2>1 DEF SdkDeleteReserve, s
    <3> QED
      BY <1>s, <3>1, SlotLeftAlone DEF OwnerKnown, FencedOwner
  <2>2. CASE ~(s.busy \/ s.recovery)
    <3>1. /\ Step(j, "sdkDelete", "sdkDeleting")
          /\ status' = [s EXCEPT !.busy = TRUE, !.busyOwner = j,
                              !.busyKind = "delete", !.deleting = FALSE]
      BY <1>1, <2>2 DEF SdkDeleteReserve, s
    <3>2. status'.busy /\ status'.busyOwner = j /\ ~status'.recovery
      BY <1>s, <2>2, <3>1 DEF Status
    <3> QED
      BY <1>s, <2>2, <3>1, <3>2, SlotTaken
  <2> QED
    BY <2>1, <2>2
<1>2. CASE CustomReserve(j)
  <2>1. CASE ~s.recovery /\ ~s.busy /\ ~s.scanning
    <3>1. /\ Step(j, "custom", "inserting")
          /\ status' = [s EXCEPT !.busy = TRUE, !.busyOwner = j,
                              !.busyKind = "custom_chunks",
                              !.deleting = FALSE]
      BY <1>2, <2>1 DEF CustomReserve, Acquire, s
    <3>2. status'.busy /\ status'.busyOwner = j /\ ~status'.recovery
      BY <1>s, <2>1, <3>1 DEF Status
    <3> QED
      BY <1>s, <2>1, <3>1, <3>2, SlotTaken
  <2>2. CASE ~(~s.recovery /\ ~s.busy /\ ~s.scanning)
    <3>1. Step(j, "custom", "done") /\ status' = s
      BY <1>2, <2>2 DEF CustomReserve, Acquire, s
    <3> QED
      BY <1>s, <3>1, SlotLeftAlone DEF OwnerKnown, FencedOwner
  <2> QED
    BY <2>1, <2>2
<1>3. CASE JoinedDelete(j) \/ SdkWritten(j)
  BY <1>3, SlotLeftAlone
  DEF JoinedDelete, SdkWritten, OwnerKnown, FencedOwner
<1>4. CASE BusyExit(j)
  <2>1. CASE /\ Step(j, "busyExit", "handoff")
             /\ status.busyOwner = j /\ UNCHANGED status
    BY <2>1, SlotLeftAlone DEF OwnerKnown, FencedOwner
  <2>2. CASE Step(j, "busyExit", "backstop") /\ IfBusyOwner(j, BusyReleased)
    <3>1. CASE status.busyOwner = j
      BY <2>2, <3>1, SlotGivenBack DEF IfBusyOwner, BusyReleased, Status
    <3>2. CASE status.busyOwner # j
      BY <2>2, <3>2, SlotLeftAlone DEF IfBusyOwner
    <3> QED
      BY <3>1, <3>2
  <2> QED
    BY <1>4, <2>1, <2>2 DEF BusyExit
<1>5. CASE Backstop(j)
  <2>1. CASE status.busyOwner = j
    BY <1>5, <2>1, SlotGivenBack
    DEF Backstop, IfBusyOwner, BusyReleased, Status
  <2>2. CASE status.busyOwner # j
    BY <1>5, <2>2, SlotLeftAlone DEF Backstop, IfBusyOwner
  <2> QED
    BY <2>1, <2>2
<1> QED
  BY <1>1, <1>2, <1>3, <1>4, <1>5

LEMMA AccidentOwner ==
    ASSUME TypeOK, OwnerKnown(status), NEW j \in Job, Abort(j) \/ Crash(j)
    PROVE  OwnerKnown(status)'
<1>1. CASE Abort(j)
  <2>1. /\ stage[j] \notin {"finalize", "dead"} /\ UNCHANGED status
        /\ stage' = [stage EXCEPT ![j] = AbortTo(j)]
    BY <1>1 DEF Abort, Abortable, RunStage, ResetStage
  <2>2. AbortTo(j) \notin AtWork
    BY DEF AbortTo, TypeOK, Return, AtWork, RunStage, ResetStage
  <2> QED
    BY <2>1, <2>2, SlotLeftAlone DEF OwnerKnown, FencedOwner
<1>2. CASE Crash(j)
  BY <1>2, SlotLeftAlone DEF Crash, AtWork, RunStage, ResetStage
<1> QED
  BY <1>1, <1>2

LEMMA ForceResetOwner ==
    ASSUME TypeOK, OwnerKnown(status), ForceReset
    PROVE  OwnerKnown(status)'
<1>1. /\ status'.busyOwner = NoJob /\ ~status'.recovery
      /\ status.recovery /\ UNCHANGED stage
  BY DEF ForceReset, Idle
<1> QED
  BY <1>1, ReservationAssumption
  DEF OwnerKnown, OwnerIsBusy, RunsOwn, FencedOwner

\* A run owns its slot and no fence is up beside it, whatever the operator
\* does.
THEOREM RunsOwnTheirSlot == Spec => []OwnerKnown(status)
<1>1. Init => OwnerKnown(status)
  BY ReservationAssumption
  DEF Init, Idle, OwnerKnown, OwnerIsBusy, RunsOwn, FencedOwner, AtWork,
      RunStage, ResetStage, Entry
<1>2. TypeOK /\ OwnerKnown(status) /\ [Next]_vars => OwnerKnown(status)'
  <2> SUFFICES ASSUME TypeOK, OwnerKnown(status), [Next]_vars
               PROVE  OwnerKnown(status)'
    OBVIOUS
  <2>1. ASSUME NEW j \in Job, \/ Advance(j) \/ MoreToDrain(j)
                              \/ FenceDrain(j) \/ Abort(j) \/ Crash(j)
        PROVE  OwnerKnown(status)'
    BY <2>1, EnqueueOwner, RunOwner, ScanOwner, DestroyOwner, SdkOwner,
       AccidentOwner
    DEF Advance
  <2>2. CASE UNCHANGED vars
    BY <2>2 DEF vars, OwnerKnown, OwnerIsBusy, RunsOwn, FencedOwner
  <2> QED
    BY <2>1, <2>2, ForceResetOwner DEF Next
<1> QED
  BY <1>1, <1>2, TypeCorrect, PTL DEF Spec

\* The record of a dead owner of half-done work goes away only into the fence
\* or under it: reconciliation raises the fence, and a live job takes or gives
\* back the slot in its own name.
LEMMA HalfDoneStep ==
    ASSUME TypeOK, OwnerKnown(status), [Next]_vars, NEW d \in Job,
           status.busyOwner = d, Dead(d), status.busyKind # "processing",
           ~status.recovery
    PROVE  status'.busyOwner = d \/ status'.recovery
<1> DEFINE s == Reconcile(status)
<1>s. /\ s \in Status
      /\ (s.busyOwner = d /\ s.busy) \/ s.recovery
  BY ReconcileInStatus, ReconcileOwner, ReservationAssumption
  DEF TypeOK, OwnerKnown, OwnerIsBusy, Rerunnable
<1>t. s = Reconcile(status)
  OBVIOUS
<1> HIDE DEF s
<1>r. ASSUME NEW j \in Job, stage[j] \in AtWork PROVE FALSE
  BY <1>r, ReservationAssumption
  DEF OwnerKnown, RunsOwn, Dead, AtWork, RunStage, ResetStage
<1>u. ASSUME status'.busyOwner = s.busyOwner, status'.recovery = s.recovery
      PROVE  status'.busyOwner = d \/ status'.recovery
  BY <1>s, <1>u
<1>1. ASSUME NEW j \in Job,
             \/ UploadReserve(j) \/ InsertReserve(j) \/ Drive(j)
             \/ CommitRetry(j) \/ ScanReserve(j) \/ ResetAcquire(j)
             \/ DestroyReserve(j) \/ SdkDeleteReserve(j) \/ CustomReserve(j)
             \/ DrainWait(j)
      PROVE  status'.busyOwner = d \/ status'.recovery
  <2>1. CASE UploadReserve(j) \/ InsertReserve(j)
    <3>1. status' = s \/ status' = [s EXCEPT !.tokens = @ \cup {j}]
      BY <1>t, <2>1 DEF UploadReserve, InsertReserve, ReserveEnqueue, Acquire
    <3> QED
      BY <1>s, <1>u, <3>1 DEF Status
  <2>2. CASE Drive(j) \/ ResetAcquire(j)
    <3>1. s.busy \/ s.recovery
      BY <1>s
    <3>2. \E e : status' = [s EXCEPT !.deferred = e]
      BY <1>t, <2>2, <3>1 DEF Drive, DriveRefused, ResetAcquire
    <3>3. status'.busyOwner = s.busyOwner /\ status'.recovery = s.recovery
      BY <1>s, <3>2 DEF Status
    <3> QED
      BY <1>u, <3>3
  <2>3. CASE CommitRetry(j) \/ DrainWait(j)
    BY <1>s, <1>t, <2>3 DEF CommitRetry, DrainWait
  <2>4. CASE ScanReserve(j)
    BY <1>s, <1>t, <2>4 DEF ScanReserve, Acquire, CanScan
  <2>5. CASE DestroyReserve(j)
    BY <1>s, <1>t, <2>5 DEF DestroyReserve, Acquire, CanDestroy
  <2>6. CASE SdkDeleteReserve(j)
    BY <1>s, <1>t, <2>6 DEF SdkDeleteReserve
  <2>7. CASE CustomReserve(j)
    BY <1>s, <1>t, <2>7 DEF CustomReserve, Acquire
  <2> QED
    BY <1>1, <2>1, <2>2, <2>3, <2>4, <2>5, <2>6, <2>7
<1>2. ASSUME NEW j \in Job,
             \/ BeginDrain(j) \/ EnterReset(j) \/ EndDrain(j) \/ Finalize(j)
             \/ DestroyRelease(j) \/ BusyExit(j) \/ Backstop(j)
             \/ FenceDrain(j)
      PROVE  status'.busyOwner = d \/ status'.recovery
  <2>1. j # d
    BY <1>2, <1>r
    DEF BeginDrain, EnterReset, EndDrain, Finalize, DestroyRelease, BusyExit,
        Backstop, FenceDrain, Step, Dead
  <2>2. CASE FenceDrain(j)
    BY <2>2 DEF FenceDrain, TypeOK, Status
  <2>3. CASE ~FenceDrain(j)
    BY <1>2, <2>1, <2>3
    DEF BeginDrain, EnterReset, EndDrain, Finalize, DestroyRelease, BusyExit,
        Backstop, IfBusyOwner
  <2> QED
    BY <2>2, <2>3
<1>3. ASSUME NEW j \in Job,
             \/ Handoff(j) \/ PeekRequest(j) \/ StartSweep(j)
             \/ DrainedIdle(j) \/ MoreToDrain(j) \/ ConfirmDrained(j)
             \/ ScanConfirm(j) \/ ResetPages(j) \/ Quiesce(j)
             \/ ResetHolds(j)
      PROVE  FALSE
  <2>1. stage[j] \in AtWork
    BY <1>3 DEF Handoff, Acquire, PeekRequest, StartSweep, DrainedIdle,
                MoreToDrain, ConfirmDrained, ScanConfirm, ResetPages, Quiesce,
                ResetHolds, Step, AtWork, RunStage, ResetStage
  <2> QED
    BY <1>r, <2>1
<1>4. ASSUME NEW j \in Job,
             \/ UploadWritten(j) \/ InsertWritten(j) \/ DropToken(j)
             \/ ScanPublish(j) \/ Discovered(j) \/ ScanRelease(j)
             \/ ScanProbe(j) \/ NameJob(j) \/ ClearMailbox(j) \/ Destroyed(j)
             \/ JoinedDelete(j) \/ SdkWritten(j) \/ Abort(j) \/ Crash(j)
      PROVE  status'.busyOwner = d
  BY <1>4
  DEF UploadWritten, InsertWritten, DropToken, ScanPublish, Discovered,
      ScanRelease, ScanReleased, ScanProbe, NameJob, ClearMailbox, Destroyed,
      JoinedDelete, SdkWritten, Abort, Crash, TypeOK, Status
<1>5. CASE UNCHANGED vars
  BY <1>5 DEF vars
<1>6. ~ForceReset
  BY DEF ForceReset
<1>7. ASSUME NEW j \in Job, \/ Advance(j) \/ MoreToDrain(j) \/ FenceDrain(j)
                            \/ Abort(j) \/ Crash(j)
      PROVE  status'.busyOwner = d \/ status'.recovery
  BY <1>1, <1>2, <1>3, <1>4, <1>7 DEF Advance
<1> QED
  BY <1>5, <1>6, <1>7 DEF Next

\* A kill in the middle of a clear, delete or custom-chunks insert is never
\* forgotten: the owner record goes away only into the fence or by force.
THEOREM HalfDoneStaysFenced == Spec => HalfDoneIsFenced
<1> DEFINE P == \A j \in Job :
                  (status.busyOwner = j /\ Dead(j)
                     /\ status.busyKind # "processing")
                    => \/ status'.busyOwner = j
                       \/ status'.recovery
                       \/ status.recovery
<1>1. TypeOK /\ OwnerKnown(status) /\ [Next]_vars => [P]_vars
  BY HalfDoneStep
<1> QED
  BY <1>1, TypeCorrect, RunsOwnTheirSlot, PTL DEF Spec, HalfDoneIsFenced

=============================================================================
