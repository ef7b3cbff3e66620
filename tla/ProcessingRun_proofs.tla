------------------------ MODULE ProcessingRun_proofs ------------------------
(***************************************************************************)
(* Proofs about ProcessingRun for every number of calls, of documents and  *)
(* of kills, and for every page size and capacity of the mailbox.          *)
(*                                                                         *)
(* IInv is inductive.  What the holder of the slot has established is a    *)
(* predicate of the step it is about to take: the phase it is in           *)
(* (PhaseAt), what its locals and doc_status say to each other (ReadyFor), *)
(* and which signals it has taken out of the mailbox and still answers for *)
(* (AnswersFor).  The rest is about the calls that do not hold the slot:   *)
(* whose documents and tokens there are (OwnDocuments) and which requests  *)
(* (Requests).  Signalled and Quiet, which need more than IInv, are proved *)
(* on top of it.                                                           *)
(***************************************************************************)
EXTENDS ProcessingRun, FiniteSetTheorems, WellFoundedInduction,
        SequenceTheorems, TLAPS

Mail == [documents : SUBSET Doc, auto : BOOLEAN, manual : Seq(Job)]

Status == [busyOwner : Job \cup {NoJob}, destructive : BOOLEAN,
           phase : {"IDLE", "DRAIN", "RESET"}, request : Job \cup {NoJob},
           cancel : BOOLEAN, tokens : SUBSET Job]

Locals == [todo : SUBSET Doc, cursor : 0..END, wake : BOOLEAN,
           request : Job \cup {NoJob}, seen : SUBSET Doc,
           finished : SUBSET Doc, held : SUBSET Doc,
           deferred : SUBSET Doc, feeder : {"on", "stopping", "off"}]

HoldStage == RunStage \cup {"sdkDeleting", "deleting", "handoff"}

Runs(j) == stage[j] \in RunStage
Holds(j) == stage[j] \in HoldStage

OneHolder == \A j \in Job : Holds(j) => status.busyOwner = j

IdleWhenFree == status.busyOwner = NoJob => status.phase = "IDLE"

\* The phases in which the holder of the slot may take a step of its code.
PhaseAt(s) ==
    IF s \in {"start", "beginDrain", "sdkDeleting", "deleting", "handoff"}
    THEN {"IDLE"}
    ELSE IF s \in {"wait", "confirm", "enterReset"} THEN {"DRAIN"}
    ELSE IF s \in {"reset", "ack", "endDrain"} THEN {"RESET"}
    ELSE IF s = "final" THEN {"IDLE", "DRAIN", "RESET"}
    ELSE {"IDLE", "DRAIN"}

PhaseFits == \A j \in Job : Holds(j) => status.phase \in PhaseAt(stage[j])

\* An enqueue that has not persisted its row holds a token, and its document
\* is its own.
OwnDocuments ==
    /\ \A j, k \in Job : mine[j] = mine[k] /\ mine[j] # NoDoc => j = k
    /\ \A j \in Job : stage[j] \in {"insert", "enqueue"} => mine[j] = NoDoc
    /\ \A j \in Job : stage[j] \in EnqueueStage => mine[j] \in Doc
    /\ \A j \in Job : stage[j] = "persist" =>
          j \in status.tokens /\ row[mine[j]] = "none" /\ mine[j] \notin announced
    /\ \A d \in Doc : d > OldDocs /\ (\A k \in Job : mine[k] # d) =>
          row[d] = "none" /\ d \notin announced

Requests ==
    /\ \A i, k \in DOMAIN mail.manual : mail.manual[i] = mail.manual[k] => i = k
    /\ \A i \in DOMAIN mail.manual : stage[mail.manual[i]] # "retry"
    /\ status.request # NoJob => stage[status.request] # "retry"

Owed == \A r \in Job : owes[r] \subseteq Failed

IdleReset ==
    status.phase = "RESET" /\ ~Dead(status.busyOwner) =>
        status.tokens = {} /\ Unfinished \subseteq granted[status.request]

\* What the run has established when it is about to take the step s.
ReadyFor(s) ==
    /\ s \in {"top", "validate"} => run.todo \subseteq Unfinished
    /\ s \in {"batch", "decide", "fetchPage", "wait"} => run.todo = {}
    /\ s = "beginDrain" => run.request # NoJob /\ stage[run.request] # "retry"
    /\ s \in {"confirm", "enterReset"} => status.tokens = {}
    /\ s = "enterReset" => Unfinished = {}
    /\ s \in {"reset", "ack"} => run.request = status.request
    /\ s = "reset" => \A d \in owes[run.request] : run.cursor < d
    /\ s = "ack" => owes[run.request] = {}

\* What it has drained from the mailbox and answers for.
AnswersFor(s) ==
    /\ run.wake => \/ s \in {"sweep", "final"}
                   \/ s \in {"top", "validate"} /\ run.todo # {}
    /\ s \notin {"batch", "rescan"} => run.held = {}
    /\ s # "batch" \/ run.feeder = "off" => run.deferred = {}
    /\ s = "batch" /\ run.feeder = "off" => run.held = {}

Ready == \A j \in Job : Runs(j) => ReadyFor(stage[j]) /\ AnswersFor(stage[j])

IInv == /\ TypeOK /\ OneHolder /\ IdleWhenFree /\ PhaseFits /\ OwnDocuments
        /\ Requests /\ Owed /\ RetryHonoured /\ IdleReset /\ Ready

\* Where the cursor is not that of the sweep.
ResetStage == {"reset", "ack", "endDrain"}

\* A signal the run has taken out of the mailbox and still answers for: until
\* a page is read by the flag, after that by the page and by the cursor.
Carries(j, d) == \/ d \in run.held \cup run.deferred
                 \/ stage[j] \in {"fetchAuto", "rescan"}
                 \/ run.wake /\ stage[j] \notin {"top", "validate"}
                 \/ d \in RestOfSweep /\ stage[j] \notin ResetStage

Lit(d) == \/ d \in mail.documents \/ mail.auto
          \/ \E j \in Job : Runs(j) /\ Carries(j, d)

Signalled ==
    \/ LockExitCancel \/ \E j \in Job : Dead(j)
    \/ \A d \in announced \cap Unfinished : Lit(d)

\* A step that puts out no signal of a document that still waits.
Relays == \A d \in announced' \cap Unfinished' :
              Lit(d)' \/ (d \in announced \cap Unfinished /\ ~Lit(d))

\* A workspace in which nothing fails and nobody cancels: there every step
\* goes on from where the last one ended.
Undisturbed == /\ ~MayFail /\ ~LockExitCancel /\ MaxCrashes = 0
               /\ Calls \cap {"enqueue", "cancel"} = {}

Quiet == ~status.cancel /\ \A j \in Job :
            /\ stage[j] \notin {"final", "dead", "enqueue", "cancel"}
            /\ stage[j] \in EnqueueStage \cup {"insert"} => call[j] = "insert"

-----------------------------------------------------------------------------
(* Pages                                                                   *)

\* There are finitely many documents, and they are numbers.
LEMMA DocsAreFinite ==
    ASSUME NEW S \in SUBSET Doc
    PROVE  IsFiniteSet(S) /\ S \subseteq Nat
<1>1. IsFiniteSet(Doc)
  BY RunAssumption, 1 \in Int, MaxDoc \in Int, FS_Interval DEF Doc
<1>2. Doc \subseteq Nat
  BY RunAssumption DEF Doc
<1> QED BY <1>1, <1>2, FS_Subset

\* A set of numbers has a first one.
LEMMA FirstOf ==
    ASSUME NEW S \in SUBSET Nat, S # {}
    PROVE  \E d \in S : \A e \in S : d <= e
<1>1. \E d \in S : \A e \in S : <<e, d>> \notin OpToRel(<, Nat)
  BY NatLessThanWellFounded, WFMin
<1>2. ASSUME NEW d \in S, NEW e \in S, <<e, d>> \notin OpToRel(<, Nat)
      PROVE  d <= e
  <2>1. ~(e < d)
    BY <1>2 DEF OpToRel
  <2> QED BY <2>1
<1> QED BY <1>1, <1>2

\* A set of documents has a last one.
LEMMA LastOf ==
    ASSUME NEW S \in SUBSET Doc, S # {}
    PROVE  \E d \in S : \A e \in S : e <= d
<1> DEFINE back == {MaxDoc - d : d \in S}
<1>1. \A d \in S : MaxDoc - d \in Nat /\ d \in Nat
  BY RunAssumption DEF Doc
<1>2. back \in SUBSET Nat /\ back # {}
  BY <1>1
<1>3. PICK b \in back : \A c \in back : b <= c
  BY <1>2, FirstOf
<1>4. PICK d \in S : b = MaxDoc - d
  BY <1>3
<1>5. ASSUME NEW e \in S PROVE e <= d
  <2>1. MaxDoc - d <= MaxDoc - e
    BY <1>3, <1>4
  <2> QED BY <1>1, <2>1, RunAssumption
<1> QED BY <1>5

\* The documents of S between the cursor and d.
Before(S, cursor, d) == {e \in S : cursor < e /\ e < d}

\* A page is taken from what is asked for; there is a next cursor only after
\* a full page, and it is a document of that page (the paged fetches).
LEMMA PageType ==
    ASSUME NEW S \in SUBSET Doc, NEW c \in 0..END
    PROVE  /\ Page(S, c) \in SUBSET S
           /\ NextCursor(S, c) \in 0..END
           /\ NextCursor(S, c) # END => NextCursor(S, c) \in Page(S, c)
           /\ NextCursor(S, c) = END => Cardinality(Page(S, c)) < PageSize
<1>1. Page(S, c) \in SUBSET S
  BY DEF Page
<1>2. CASE Cardinality(Page(S, c)) < PageSize
  <2>1. NextCursor(S, c) = END
    BY <1>2 DEF NextCursor
  <2> QED BY <1>1, <1>2, <2>1, RunAssumption DEF END
<1>3. CASE ~(Cardinality(Page(S, c)) < PageSize)
  <2>1. Page(S, c) # {}
    BY <1>3, FS_EmptySet, RunAssumption
  <2>2. \E d \in Page(S, c) : \A e \in Page(S, c) : e <= d
    BY <1>1, <2>1, LastOf
  <2>3. NextCursor(S, c) \in Page(S, c)
    BY <1>3, <2>2 DEF NextCursor
  <2>4. NextCursor(S, c) \in 1..MaxDoc
    BY <1>1, <2>3 DEF Doc
  <2> QED BY <1>1, <2>3, <2>4, RunAssumption DEF END
<1> QED BY <1>2, <1>3

\* Paging misses nothing: what a page leaves out after its cursor comes after
\* the next cursor, and the last page leaves nothing out.
LEMMA PageMissesNothing ==
    ASSUME NEW S \in SUBSET Doc, NEW c \in 0..END,
           NEW d \in S, c < d, d \notin Page(S, c)
    PROVE  NextCursor(S, c) # END /\ NextCursor(S, c) < d
<1> DEFINE left == {e \in S : c < e /\ e \notin Page(S, c)}
<1>1. S \subseteq Nat /\ c \in Nat /\ Page(S, c) \in SUBSET S
      /\ PageSize \in Nat
  BY DocsAreFinite, PageType, RunAssumption DEF END
<1>2. PICK f \in left : \A e \in left : f <= e
  <2>1. left \in SUBSET Nat /\ left # {}
    BY <1>1
  <2> QED BY <2>1, FirstOf
<1>3. f \in S /\ c < f /\ f \notin Page(S, c)
  BY <1>2
<1>4. Before(S, c, f) \subseteq Page(S, c)
  <2> SUFFICES ASSUME NEW e \in S, c < e, e < f, e \notin Page(S, c)
               PROVE  FALSE
    BY DEF Before
  <2>1. f <= e
    BY <1>2
  <2> QED BY <1>1, <1>3, <2>1
<1>5. ~(Cardinality(Before(S, c, f)) < PageSize)
  BY <1>3 DEF Page, Before
<1>6. Cardinality(Before(S, c, f)) <= Cardinality(Page(S, c))
      /\ Cardinality(Page(S, c)) \in Nat /\ Cardinality(Before(S, c, f)) \in Nat
  <2>1. IsFiniteSet(Page(S, c)) /\ IsFiniteSet(Before(S, c, f))
    BY <1>1, <1>4, DocsAreFinite, FS_Subset
  <2> QED BY <1>4, <2>1, FS_Subset, FS_CardinalityType
<1>7. NextCursor(S, c) # END
  BY <1>1, <1>5, <1>6, PageType
<1> DEFINE n == NextCursor(S, c)
<1>8. n \in Page(S, c) /\ n \in S /\ n \in Nat /\ d \in Nat
  BY <1>1, <1>7, PageType
<1> HIDE DEF n
<1>9. ASSUME d <= n PROVE FALSE
  <2>1. Before(S, c, d) \subseteq Before(S, c, n)
    <3> SUFFICES ASSUME NEW e \in S, e < d PROVE e < n
      BY DEF Before
    <3> QED BY <1>1, <1>8, <1>9
  <2>2. Cardinality(Before(S, c, n)) < PageSize
    BY <1>8 DEF Page, Before
  <2>3. Before(S, c, n) \in SUBSET S
    BY DEF Before
  <2>4. IsFiniteSet(Before(S, c, n)) /\ IsFiniteSet(Before(S, c, d))
    BY <2>1, <2>3, DocsAreFinite, FS_Subset
  <2>5. Cardinality(Before(S, c, d)) <= Cardinality(Before(S, c, n))
        /\ Cardinality(Before(S, c, d)) \in Nat
        /\ Cardinality(Before(S, c, n)) \in Nat
    BY <2>1, <2>4, FS_Subset, FS_CardinalityType
  <2>6. Cardinality(Before(S, c, d)) < PageSize
    BY <1>1, <2>2, <2>5
  <2> QED BY <2>6 DEF Page, Before
<1>10. n < d
  BY <1>8, <1>9
<1> QED BY <1>7, <1>10 DEF n

\* An empty first page means that there is nothing.
LEMMA EmptyPage ==
    ASSUME NEW S \in SUBSET Doc, Page(S, 0) = {}
    PROVE  S = {}
<1>1. ASSUME NEW d \in S PROVE FALSE
  <2>1. 0 < d
    BY RunAssumption DEF Doc
  <2>2. 0 \in 0..END
    BY RunAssumption DEF END
  <2>3. NextCursor(S, 0) # END
    BY <2>1, <2>2, PageMissesNothing
  <2> QED BY <2>2, <2>3, PageType
<1> QED BY <1>1

-----------------------------------------------------------------------------
(* The mailbox                                                             *)

\* Nothing that is put into the mailbox goes unannounced.
LEMMA PutAnnounces ==
    ASSUME NEW m \in Mail, NEW D \in SUBSET Doc, NEW n \in Put(m, D)
    PROVE  /\ n \in Mail
           /\ n.manual = m.manual
           /\ m.documents \subseteq n.documents
           /\ m.auto => n.auto
           /\ \A d \in D : d \in n.documents \/ n.auto
<1>1. PICK E \in SUBSET D :
         n = [m EXCEPT !.documents = @ \cup E, !.auto = @ \/ E # D]
  BY DEF Put
<1>2. /\ n.documents = m.documents \cup E
      /\ n.auto = (m.auto \/ E # D)
      /\ n.manual = m.manual
  BY <1>1 DEF Mail
<1>3. n \in Mail
  <2>1. m.documents \cup E \in SUBSET Doc /\ (m.auto \/ E # D) \in BOOLEAN
    BY DEF Mail
  <2> QED BY <1>1, <2>1 DEF Mail
<1> QED BY <1>2, <1>3

\* ack_manual_retry takes the acknowledged request out of the queue and leaves
\* the others in it.
LEMMA WithoutRemoves ==
    ASSUME NEW s \in Seq(Job), NEW r,
           \A i, k \in DOMAIN s : s[i] = s[k] => i = k,
           NEW rest, rest = Without(s, r)
    PROVE  /\ rest \in Seq(Job)
           /\ \A i \in DOMAIN rest :
                 rest[i] # r /\ \E k \in DOMAIN s : rest[i] = s[k]
           /\ \A k \in DOMAIN s :
                 s[k] # r => \E i \in DOMAIN rest : rest[i] = s[k]
           /\ \A i, k \in DOMAIN rest : rest[i] = rest[k] => i = k
<1> DEFINE at == {i \in DOMAIN s : s[i] = r}
           k == CHOOSE i \in at : TRUE
<1>0. Len(s) \in Nat /\ DOMAIN s = 1..Len(s) /\ \A i \in 1..Len(s) : s[i] \in Job
  OBVIOUS
<1>1. CASE at = {}
  <2>1. Without(s, r) = s
    BY <1>1 DEF Without
  <2> QED BY <1>1, <2>1
<1>2. CASE at # {}
  <2> DEFINE a == SubSeq(s, 1, k - 1)
             b == SubSeq(s, k + 1, Len(s))
             t == a \o b
  <2>1. k \in 1..Len(s) /\ s[k] = r
    BY <1>0, <1>2
  <2>2. Without(s, r) = t
    BY <1>2 DEF Without
  <2> HIDE DEF k
  <2>3. a \in Seq(Job) /\ Len(a) = k - 1 /\ \A i \in 1..k - 1 : a[i] = s[i]
    <3>1. k - 1 \in Int /\ 1 \in Int /\ \A i \in 1..k-1 : s[i] \in Job
      BY <1>0, <2>1
    <3> HIDE DEF a
    <3>2. a = SubSeq(s, 1, k - 1)
      BY DEF a
    <3> QED BY <2>1, <3>1, <3>2, SubSeqProperties
  <2>4. b \in Seq(Job) /\ Len(b) = Len(s) - k
        /\ \A i \in 1..Len(s) - k : b[i] = s[k + i]
    <3>1. k + 1 \in Int /\ Len(s) \in Int /\ \A i \in k+1..Len(s) : s[i] \in Job
      BY <1>0, <2>1
    <3> HIDE DEF b
    <3>2. b = SubSeq(s, k + 1, Len(s))
      BY DEF b
    <3>3. b \in Seq(Job) /\ Len(b) = (IF k+1 <= Len(s) THEN Len(s)-(k+1)+1 ELSE 0)
          /\ \A i \in 1 .. Len(s)-(k+1)+1 : b[i] = s[(k+1)+i-1]
      BY <3>1, <3>2, SubSeqProperties
    <3>4. Len(b) = Len(s) - k
      <4>1. CASE k < Len(s)
        <5>1. k + 1 <= Len(s) /\ Len(s) - (k + 1) + 1 = Len(s) - k
          BY <1>0, <2>1, <4>1
        <5> QED BY <3>3, <5>1
      <4>2. CASE k = Len(s)
        <5>1. ~(k + 1 <= Len(s)) /\ Len(s) - k = 0
          BY <1>0, <2>1, <4>2
        <5> QED BY <3>3, <5>1
      <4>3. Len(s) \in Nat /\ k \in 1..Len(s)
        BY <1>0, <2>1
      <4>4. k < Len(s) \/ k = Len(s)
        BY ONLY <4>3
      <4> QED BY <4>1, <4>2, <4>4
    <3>5. ASSUME NEW i \in 1..Len(s) - k PROVE b[i] = s[k + i]
      <4>1. i \in 1 .. Len(s)-(k+1)+1 /\ (k+1)+i-1 = k + i
        BY <1>0, <2>1
      <4> QED BY <3>3, <4>1
    <3> QED BY <3>3, <3>4, <3>5
  <2> HIDE DEF a, b
  <2>5. t \in Seq(Job) /\ Len(t) = Len(s) - 1 /\ DOMAIN t = 1..Len(s) - 1
        /\ \A i \in 1..Len(s) - 1 : t[i] = IF i < k THEN s[i] ELSE s[i + 1]
    <3>1. t \in Seq(Job) /\ Len(t) = Len(a) + Len(b)
          /\ \A i \in 1 .. Len(a) + Len(b) :
                t[i] = IF i <= Len(a) THEN a[i] ELSE b[i - Len(a)]
      BY <2>3, <2>4, ConcatProperties
    <3> HIDE DEF t
    <3>2. Len(t) = Len(s) - 1 /\ DOMAIN t = 1..Len(s) - 1
      BY <1>0, <2>1, <2>3, <2>4, <3>1
    <3>3. ASSUME NEW i \in 1..Len(s) - 1
          PROVE  t[i] = IF i < k THEN s[i] ELSE s[i + 1]
      <4>1. CASE i < k
        <5>1. i \in 1..k - 1 /\ i <= Len(a) /\ i \in 1..Len(a) + Len(b)
          BY <1>0, <2>1, <2>3, <2>4, <4>1
        <5> QED BY <2>3, <3>1, <4>1, <5>1
      <4>2. CASE ~(i < k)
        <5>1. i - (k - 1) \in 1..Len(s) - k /\ k + (i - (k - 1)) = i + 1
          BY <1>0, <2>1, <4>2
        <5>2. t[i] = b[i - (k - 1)]
          <6>1. /\ i \in 1 .. Len(a) + Len(b) /\ ~(i <= Len(a))
                /\ i - Len(a) = i - (k - 1)
            BY <1>0, <2>1, <2>3, <2>4, <4>2
          <6>2. t[i] = b[i - Len(a)]
            BY <3>1, <6>1
          <6> QED BY <6>1, <6>2
        <5> QED BY <2>4, <4>2, <5>1, <5>2
      <4> QED BY <4>1, <4>2
    <3> QED BY <3>1, <3>2, <3>3
  <2> HIDE DEF t
  <2>6. \A i \in DOMAIN s : i # k => s[i] # r
    BY <1>0, <2>1
  <2>7. ASSUME NEW i \in DOMAIN t
        PROVE  t[i] # r /\ \E m \in DOMAIN s : t[i] = s[m]
    <3>1. i \in 1..Len(s) - 1
      BY <2>5
    <3>2. CASE i < k
      <4>1. i \in DOMAIN s /\ i # k /\ t[i] = s[i]
        BY <1>0, <2>1, <2>5, <3>1, <3>2
      <4> QED BY <2>6, <4>1
    <3>3. CASE ~(i < k)
      <4>1. i + 1 \in DOMAIN s /\ i + 1 # k /\ t[i] = s[i + 1]
        BY <1>0, <2>1, <2>5, <3>1, <3>3
      <4> QED BY <2>6, <4>1
    <3> QED BY <3>2, <3>3
  <2>8. ASSUME NEW m \in DOMAIN s, s[m] # r PROVE \E i \in DOMAIN t : t[i] = s[m]
    <3>1. m < k \/ m > k
      BY <1>0, <2>1, <2>8
    <3>2. CASE m < k
      BY <1>0, <2>1, <2>5, <3>2
    <3>3. CASE m > k
      <4>1. m - 1 \in 1..Len(s) - 1 /\ ~(m - 1 < k) /\ (m - 1) + 1 = m
        BY <1>0, <2>1, <3>3
      <4> QED BY <2>5, <4>1
    <3> QED BY <3>1, <3>2, <3>3
  <2>9. ASSUME NEW i \in DOMAIN t, NEW m \in DOMAIN t, t[i] = t[m] PROVE i = m
    BY <1>0, <2>1, <2>5, <2>9
  <2> QED BY <2>2, <2>5, <2>7, <2>8, <2>9
<1> QED BY <1>1, <1>2

-----------------------------------------------------------------------------
(* Frames                                                                  *)

\* The type invariant, part by part.
LEMMA TypeParts ==
    TypeOK <=> /\ row \in [Doc -> Row] /\ mail \in Mail /\ status \in Status
               /\ status.phase = "IDLE" <=> status.request = NoJob
               /\ call \in [Job -> Entry] /\ stage \in [Job -> Stage]
               /\ mine \in [Job -> Doc \cup {NoDoc}] /\ run \in Locals
               /\ run.finished \subseteq run.seen
               /\ announced \in SUBSET Doc
               /\ owes \in [Job -> SUBSET Doc] /\ granted \in [Job -> SUBSET Doc]
BY DEF TypeOK, Mail, Status, Locals

\* A step to the stage to of the holder of the slot, or of a job that takes
\* the slot when nobody holds it.
HolderMove(j, to) ==
    /\ Holds(j) \/ \A k \in Job : ~Holds(k)
    /\ to \in Stage /\ to \notin EnqueueStage \cup {"insert", "enqueue", "retry"}
    /\ stage' = [stage EXCEPT ![j] = to]
    /\ UNCHANGED <<call, mine>>
    /\ row' \in [Doc -> Row]
    /\ \A d \in Doc : row[d] = "none" => row'[d] = "none"
    /\ announced' \subseteq announced
    /\ owes' \in [Job -> SUBSET Doc] /\ granted' \in [Job -> SUBSET Doc]
    /\ \A r \in Job : owes'[r] \subseteq owes[r] \cap Failed'
    /\ mail' \in Mail
    /\ mail'.manual = mail.manual \/ (Requests' /\ RetryHonoured')
    /\ status' \in Status
    /\ status'.phase = "IDLE" <=> status'.request = NoJob
    /\ IdleWhenFree'
    /\ status'.request # NoJob => stage[status'.request] # "retry"
    /\ \A k \in status.tokens : Dead(k) \/ k \in status'.tokens
    /\ to \in HoldStage => status'.busyOwner = j /\ status'.phase \in PhaseAt(to)
    /\ to \in RunStage => ReadyFor(to)' /\ AnswersFor(to)'
    /\ run' \in Locals /\ run'.finished \subseteq run'.seen
    /\ IdleReset'

\* Such a step of the holder of the slot preserves the invariant.
LEMMA HolderMoveInv ==
    ASSUME IInv, NEW j \in Job, NEW to, HolderMove(j, to)
    PROVE  IInv'
<1>1. /\ stage \in [Job -> Stage] /\ mine \in [Job -> Doc \cup {NoDoc}]
      /\ mail \in Mail /\ status \in Status /\ TypeOK
      /\ announced \in SUBSET Doc /\ owes \in [Job -> SUBSET Doc]
  BY TypeParts DEF IInv
<1>2. stage'[j] = to /\ \A k \in Job \ {j} : stage'[k] = stage[k]
  BY <1>1 DEF HolderMove
<1>3. ASSUME NEW k \in Job, stage'[k] \in HoldStage PROVE k = j
  BY <1>2, <1>3 DEF HolderMove, Holds, IInv, OneHolder
<1>4. TypeOK'
  <2>1. stage' \in [Job -> Stage]
    BY <1>1 DEF HolderMove
  <2>2. /\ row' \in [Doc -> Row] /\ mail' \in Mail /\ status' \in Status
        /\ (status'.phase = "IDLE" <=> status'.request = NoJob)
        /\ UNCHANGED <<call, mine>> /\ run' \in Locals
        /\ run'.finished \subseteq run'.seen
        /\ announced' \in SUBSET Doc
        /\ owes' \in [Job -> SUBSET Doc] /\ granted' \in [Job -> SUBSET Doc]
    BY <1>1 DEF HolderMove
  <2>3. call \in [Job -> Entry]
    BY <1>1 DEF TypeOK
  <2> QED BY <1>1, <2>1, <2>2, <2>3 DEF TypeOK, Mail, Status, Locals
<1>5. OneHolder' /\ PhaseFits'
  BY <1>2, <1>3 DEF HolderMove, OneHolder, PhaseFits, Holds
<1>6. OwnDocuments'
  <2>1. \A k \in Job : /\ stage'[k] \in EnqueueStage => stage[k] = stage'[k]
                       /\ stage'[k] \in {"insert", "enqueue"} => stage[k] = stage'[k]
                       /\ stage[k] = "persist" => ~Dead(k)
    BY <1>2 DEF HolderMove, Dead
  <2>2. UNCHANGED mine /\ announced' \subseteq announced
        /\ (\A d \in Doc : row[d] = "none" => row'[d] = "none")
        /\ (\A k \in status.tokens : Dead(k) \/ k \in status'.tokens)
    BY DEF HolderMove
  <2>3. OwnDocuments
    BY DEF IInv
  <2>4. \A k \in Job : stage'[k] = "persist" =>
          k \in status'.tokens /\ row'[mine[k]] = "none" /\ mine[k] \notin announced'
    BY <2>1, <2>2, <2>3 DEF OwnDocuments, EnqueueStage
  <2> QED BY <2>1, <2>2, <2>3, <2>4 DEF OwnDocuments
<1>7. Requests'
  <2>1. CASE mail'.manual = mail.manual
    <3>1. \A i \in DOMAIN mail.manual : mail.manual[i] \in Job
      BY <1>1 DEF Mail
    <3>2. status'.request # NoJob => status'.request \in Job
      BY DEF HolderMove, Status
    <3>3. \A k \in Job : stage[k] # "retry" => stage'[k] # "retry"
      BY <1>2 DEF HolderMove
    <3> QED BY <2>1, <3>1, <3>2, <3>3 DEF HolderMove, IInv, Requests
  <2> QED BY <2>1 DEF HolderMove
<1>8. Owed' /\ RetryHonoured'
  BY DEF HolderMove, IInv, Owed, RetryHonoured
<1>9. Ready'
  <2> SUFFICES ASSUME NEW k \in Job, stage'[k] \in RunStage
               PROVE  ReadyFor(stage[k])' /\ AnswersFor(stage[k])'
    BY DEF Ready, Runs
  <2>1. k = j /\ stage'[k] = to
    BY <1>2, <1>3 DEF HoldStage
  <2> QED BY <2>1 DEF HolderMove, ReadyFor, AnswersFor
<1> QED BY <1>4, <1>5, <1>6, <1>7, <1>8, <1>9 DEF IInv, HolderMove

\* The steps of a run that leave doc_status and pipeline_status alone.
RunMove(j, to) ==
    /\ Runs(j) /\ to \in RunStage
    /\ stage' = [stage EXCEPT ![j] = to]
    /\ UNCHANGED <<row, status, call, mine, owes, granted>>
    /\ announced' \subseteq announced
    /\ mail' \in Mail /\ mail'.manual = mail.manual
    /\ run' \in Locals /\ run'.finished \subseteq run'.seen
    /\ status.phase \in PhaseAt(to)
    /\ ReadyFor(to)' /\ AnswersFor(to)'

\* Such a step of a run preserves the invariant.
LEMMA RunMoveInv ==
    ASSUME IInv, NEW j \in Job, NEW to, RunMove(j, to)
    PROVE  IInv'
<1>1. HolderMove(j, to)
  <2>1. Holds(j) /\ status.busyOwner = j
    BY DEF RunMove, Holds, HoldStage, Runs, IInv, OneHolder
  <2>2. to \in Stage /\ to \notin EnqueueStage \cup {"insert", "enqueue", "retry"}
    BY DEF RunMove, Stage, EnqueueStage, RunStage, FetchStage
  <2>3. IdleWhenFree' /\ status \in Status
        /\ (status.phase = "IDLE" <=> status.request = NoJob)
        /\ row \in [Doc -> Row]
        /\ owes \in [Job -> SUBSET Doc] /\ granted \in [Job -> SUBSET Doc]
    BY TypeParts DEF RunMove, IInv, IdleWhenFree
  <2>4. status.request # NoJob => stage[status.request] # "retry"
    BY DEF IInv, Requests
  <2>5. \A r \in Job : owes[r] \subseteq Failed /\ Failed' = Failed
    BY DEF RunMove, IInv, Owed, Failed
  <2>6. IdleReset'
    <3>1. ~Dead(j)
      BY DEF RunMove, Runs, Dead, RunStage, FetchStage
    <3> QED BY <2>1, <3>1 DEF RunMove, IInv, IdleReset, Unfinished
  <2>7. \A r \in Job : owes'[r] \subseteq owes[r] \cap Failed'
    BY <2>5 DEF RunMove
  <2>8. UNCHANGED <<row, status, call, mine, owes, granted>>
        /\ stage' = [stage EXCEPT ![j] = to]
        /\ announced' \subseteq announced
        /\ mail' \in Mail /\ mail'.manual = mail.manual
        /\ run' \in Locals /\ run'.finished \subseteq run'.seen
        /\ status.phase \in PhaseAt(to) /\ ReadyFor(to)' /\ AnswersFor(to)'
    BY DEF RunMove
  <2>9. /\ (status'.phase = "IDLE" <=> status'.request = NoJob)
        /\ (status'.request # NoJob => stage[status'.request] # "retry")
        /\ (\A k \in status.tokens : Dead(k) \/ k \in status'.tokens)
        /\ status' \in Status
        /\ status'.busyOwner = j /\ status'.phase \in PhaseAt(to)
    BY <2>1, <2>3, <2>4, <2>8
  <2>10. /\ row' \in [Doc -> Row]
         /\ owes' \in [Job -> SUBSET Doc] /\ granted' \in [Job -> SUBSET Doc]
         /\ (\A d \in Doc : row[d] = "none" => row'[d] = "none")
         /\ UNCHANGED <<call, mine>>
    BY <2>3, <2>8
  <2> QED BY <2>1, <2>2, <2>3, <2>6, <2>7, <2>8, <2>9, <2>10 DEF HolderMove
<1> QED BY <1>1, HolderMoveInv

-----------------------------------------------------------------------------
(* The steps of a run that leave doc_status and pipeline_status alone      *)

\* What the invariant says of a running call.
LEMMA RunFacts ==
    ASSUME IInv, NEW j \in Job, Runs(j)
    PROVE  /\ run \in Locals /\ mail \in Mail /\ status \in Status
           /\ row \in [Doc -> Row] /\ stage \in [Job -> Stage]
           /\ run.finished \subseteq run.seen
           /\ Holds(j) /\ ~Dead(j) /\ status.busyOwner = j
           /\ status.phase \in PhaseAt(stage[j])
           /\ ReadyFor(stage[j]) /\ AnswersFor(stage[j])
           /\ Failed \in SUBSET Doc /\ Unfinished \in SUBSET Doc
<1>1. Holds(j) /\ ~Dead(j)
  BY DEF Runs, Holds, HoldStage, Dead, RunStage, FetchStage
<1> QED BY <1>1, TypeParts DEF IInv, OneHolder, PhaseFits, Ready, Failed, Unfinished

\* The request a run turns to is in the mailbox, so it was committed.
LEMMA HeadIsCommitted ==
    ASSUME IInv, mail.manual # <<>>
    PROVE  Head(mail.manual) \in Job /\ stage[Head(mail.manual)] # "retry"
<1>1. mail.manual \in Seq(Job)
  BY TypeParts DEF IInv, Mail
<1>2. Head(mail.manual) = mail.manual[1] /\ 1 \in DOMAIN mail.manual
  BY <1>1
<1> QED BY <1>1, <1>2, HeadTailProperties DEF IInv, Requests

\* The run's entry into its loop (_pipeline_run).
LEMMA StartInv ==
    ASSUME IInv, NEW j \in Job, Start(j)
    PROVE  IInv'
<1> USE DEF RunMove, PhaseAt, ReadyFor, AnswersFor
<1>0. Runs(j) /\ stage[j] = "start"
  BY DEF Start, Step, Runs, RunStage
<1>1. CASE mail.manual # <<>>
  <2>1. /\ stage' = [stage EXCEPT ![j] = "beginDrain"]
        /\ run' = [run EXCEPT !.request = Head(mail.manual)]
        /\ UNCHANGED <<mail, row, status, call, mine, history>>
    BY <1>1 DEF Start, Step
  <2>2. RunMove(j, "beginDrain")
    <3>1. stage'[Head(mail.manual)] # "retry"
      BY <1>0, <1>1, <2>1, RunFacts, HeadIsCommitted
    <3> QED BY <1>0, <1>1, <2>1, <3>1, RunFacts, HeadIsCommitted, RunAssumption
            DEF RunStage, Locals, history
  <2> QED BY <2>2, RunMoveInv
<1>2. CASE ~(mail.manual # <<>>)
  <2>1. /\ stage' = [stage EXCEPT ![j] = "sweep"]
        /\ run' = [run EXCEPT !.wake = mail.auto]
        /\ mail' = [mail EXCEPT !.auto = FALSE]
        /\ UNCHANGED <<row, status, call, mine, history>>
    BY <1>2 DEF Start, Step
  <2>2. mail.auto \in BOOLEAN
    BY <1>0, RunFacts DEF Mail
  <2>3. RunMove(j, "sweep")
    BY <1>0, <2>1, <2>2, RunFacts DEF RunStage, Locals, Mail, history
  <2> QED BY <2>3, RunMoveInv
<1> QED BY <1>1, <1>2

\* A page of what is to be done is a page of documents that wait.
LEMMA WithPageFacts ==
    ASSUME run \in Locals, NEW cursor \in 0..END, NEW wake \in BOOLEAN,
           Unfinished \in SUBSET Doc
    PROVE  LET after == WithPage(Unfinished, cursor, wake)
           IN  /\ after \in Locals
               /\ after.todo \subseteq Unfinished
               /\ after.wake => wake /\ after.todo # {}
               /\ wake /\ cursor = 0 /\ Unfinished # {} => after.wake
               /\ after.held = run.held /\ after.deferred = run.deferred
               /\ after.feeder = run.feeder /\ after.request = run.request
               /\ after.finished = run.finished /\ after.seen = run.seen
               /\ \A d \in Unfinished : cursor < d =>
                     \/ d \in after.todo
                     \/ 0 < after.cursor /\ after.cursor < d
<1> DEFINE page == Page(Unfinished, cursor)
           next == NextCursor(Unfinished, cursor)
           after == WithPage(Unfinished, cursor, wake)
<1>1. page \in SUBSET Unfinished /\ next \in 0..END
  BY PageType
<1>2. cursor = 0 /\ Unfinished # {} => page # {}
  BY EmptyPage
<1>3. after = [run EXCEPT !.todo = page, !.cursor = next,
                          !.wake = wake /\ page # {}]
  BY DEF WithPage
<1>7. ASSUME NEW d \in Unfinished, cursor < d, d \notin page
      PROVE  0 < next /\ next < d
  <2>1. next # END /\ next < d
    BY <1>7, PageMissesNothing
  <2>2. next \in page
    BY <2>1, PageType
  <2> QED BY <1>1, <2>1, <2>2, RunAssumption DEF Doc
<1> HIDE DEF page, next, after
<1>4. (wake /\ page # {}) \in BOOLEAN /\ page \in SUBSET Doc
  BY <1>1
<1>5. /\ after.todo = page /\ after.wake = (wake /\ page # {})
      /\ after.cursor = next
      /\ after.held = run.held /\ after.deferred = run.deferred
      /\ after.feeder = run.feeder /\ after.request = run.request
      /\ after.finished = run.finished /\ after.seen = run.seen
  BY <1>3 DEF Locals
<1>6. after \in Locals
  BY <1>1, <1>3, <1>4 DEF Locals
<1>8. \A d \in Unfinished : cursor < d =>
         d \in after.todo \/ (0 < after.cursor /\ after.cursor < d)
  BY <1>5, <1>7
<1> QED BY <1>1, <1>2, <1>5, <1>6, <1>8 DEF after

\* The first and the last cursor are cursors.
LEMMA CursorRange == 0 \in 0..END /\ END \in 0..END
BY RunAssumption DEF END

\* The paged sweep over doc_status, and the fetches that start one.
LEMMA SweepInv ==
    ASSUME IInv, NEW j \in Job,
           Sweep(j) \/ FetchPage(j) \/ FetchAuto(j) \/ Rescan(j)
    PROVE  IInv'
<1>0. Runs(j) /\ stage[j] \in {"sweep", "fetchPage", "fetchAuto", "rescan"}
  BY DEF Sweep, FetchPage, FetchAuto, Rescan, Step, Runs, RunStage, FetchStage
<1>1. /\ stage' = [stage EXCEPT ![j] = "top"]
      /\ UNCHANGED <<row, mail, status, call, mine, history>>
  BY DEF Sweep, FetchPage, FetchAuto, Rescan, Step
<1>2. PICK cursor \in 0..END, wake \in BOOLEAN :
         \/ run' = WithPage(Unfinished, cursor, wake) /\ stage[j] # "rescan"
         \/ run' = [WithPage(Unfinished, cursor, wake) EXCEPT !.held = {}]
  <2>1. run.cursor \in 0..END /\ run.wake \in BOOLEAN
    BY <1>0, RunFacts DEF Locals
  <2> QED BY <2>1, CursorRange DEF Sweep, FetchPage, FetchAuto, Rescan, Step
<1> DEFINE after == WithPage(Unfinished, cursor, wake)
<1>3. /\ after \in Locals
      /\ after.todo \subseteq Unfinished
      /\ after.wake => after.todo # {}
      /\ after.held = run.held /\ after.deferred = run.deferred
      /\ after.feeder = run.feeder
      /\ after.finished = run.finished /\ after.seen = run.seen
  BY <1>0, RunFacts, WithPageFacts
<1> HIDE DEF after
<1>4. /\ run' \in Locals /\ run'.finished \subseteq run'.seen
      /\ run'.todo \subseteq Unfinished
      /\ run'.wake => run'.todo # {}
      /\ run'.held = {} /\ run'.deferred = {}
  <2>1. run.deferred = {} /\ (stage[j] # "rescan" => run.held = {})
    BY <1>0, RunFacts DEF AnswersFor
  <2> QED BY <1>0, <1>2, <1>3, <2>1, RunFacts DEF after, Locals
<1>5. RunMove(j, "top")
  BY <1>0, <1>1, <1>4, RunFacts
  DEF RunMove, RunStage, PhaseAt, ReadyFor, AnswersFor, Unfinished, history
<1> QED BY <1>5, RunMoveInv

\* What the invariant says while a batch runs.
LEMMA BatchFacts ==
    ASSUME IInv, NEW j \in Job, stage[j] = "batch"
    PROVE  /\ Runs(j) /\ run.todo = {} /\ ~run.wake
           /\ status.phase \in {"IDLE", "DRAIN"}
           /\ run.feeder = "off" => run.held = {} /\ run.deferred = {}
           /\ "batch" \in RunStage /\ stage = [stage EXCEPT ![j] = "batch"]
<1>1. Runs(j) /\ "batch" \in RunStage
  BY DEF Runs, RunStage
<1> QED BY <1>1, RunFacts DEF PhaseAt, ReadyFor, AnswersFor

\* What a step of the batch that leaves the rows alone has to show.
LEMMA BatchMove ==
    ASSUME IInv, NEW j \in Job, stage[j] = "batch",
           UNCHANGED <<row, status, call, stage, mine, owes, granted>>,
           announced' \subseteq announced,
           mail' \in Mail, mail'.manual = mail.manual,
           run' \in Locals, run'.finished \subseteq run'.seen,
           run'.todo = {}, ~run'.wake,
           run'.feeder = "off" => run'.held = {} /\ run'.deferred = {}
    PROVE  IInv'
<1>1. RunMove(j, "batch")
  BY BatchFacts DEF RunMove, PhaseAt, ReadyFor, AnswersFor
<1> QED BY <1>1, RunMoveInv

\* The feeder, which drains the mailbox while a batch runs.
LEMMA FeederInv ==
    ASSUME IInv, NEW j \in Job, Feeder(j)
    PROVE  IInv'
<1>0. /\ stage[j] = "batch"
      /\ run \in Locals /\ mail \in Mail /\ run.finished \subseteq run.seen
      /\ run.todo = {} /\ ~run.wake
      /\ run.feeder = "off" => run.held = {} /\ run.deferred = {}
  BY BatchFacts, RunFacts DEF Feeder, FeedDrain, FeedRetry, FeedRoute, At
<1>1. CASE FeedDrain(j)
  <2>1. PICK D \in SUBSET mail.documents :
           /\ mail' = [mail EXCEPT !.documents = @ \ D]
           /\ run' = [run EXCEPT !.held = D]
    BY <1>1 DEF FeedDrain
  <2>2. run.feeder # "off"
        /\ UNCHANGED <<row, status, call, stage, mine, history>>
    BY <1>1 DEF FeedDrain
  <2>3. mail' \in Mail /\ mail'.manual = mail.manual
    BY <1>0, <2>1 DEF Mail
  <2>4. /\ run' \in Locals /\ run'.finished \subseteq run'.seen
        /\ run'.todo = {} /\ ~run'.wake /\ run'.feeder # "off"
    BY <1>0, <2>1, <2>2 DEF Locals, Mail
  <2> QED BY <1>0, <2>2, <2>3, <2>4, BatchMove DEF history
<1>2. CASE FeedRetry(j)
  <2>1. /\ mail' \in Put(mail, run.held)
        /\ run' = [run EXCEPT !.held = {}]
        /\ UNCHANGED <<row, status, call, stage, mine, history>>
    BY <1>2 DEF FeedRetry
  <2>2. mail' \in Mail /\ mail'.manual = mail.manual
    BY <1>0, <2>1, PutAnnounces DEF Locals
  <2>3. /\ run' \in Locals /\ run'.finished \subseteq run'.seen
        /\ run'.todo = {} /\ ~run'.wake
        /\ run'.feeder = "off" => run'.held = {} /\ run'.deferred = {}
    BY <1>0, <2>1 DEF Locals
  <2> QED BY <1>0, <2>1, <2>2, <2>3, BatchMove DEF history
<1>3. ASSUME NEW d \in Doc, FeedRoute(j, d) PROVE IInv'
  <2> DEFINE rest == [run EXCEPT !.held = @ \ {d}]
  <2>1. /\ d \in run.held
        /\ UNCHANGED <<row, status, call, stage, mine, owes, granted>>
        /\ announced' \subseteq announced
        /\ \/ run' = rest /\ mail' = mail
           \/ run' = [rest EXCEPT !.seen = @ \cup {d}] /\ mail' = mail
           \/ /\ run' = [rest EXCEPT !.deferred = @ \cup {d}]
              /\ mail' = [mail EXCEPT !.auto = TRUE]
    BY <1>3 DEF FeedRoute
  <2>2. run.feeder # "off"
    BY <1>0, <2>1
  <2>3. mail' \in Mail /\ mail'.manual = mail.manual
    BY <1>0, <2>1 DEF Mail
  <2>4. /\ rest \in Locals /\ rest.finished = run.finished
        /\ rest.seen = run.seen /\ rest.todo = {} /\ ~rest.wake
        /\ rest.feeder # "off"
    BY <1>0, <2>2 DEF Locals
  <2> HIDE DEF rest
  <2>5. /\ run' \in Locals /\ run'.finished \subseteq run'.seen
        /\ run'.todo = {} /\ ~run'.wake /\ run'.feeder # "off"
    BY <1>0, <2>1, <2>4 DEF Locals
  <2> QED BY <1>0, <2>1, <2>3, <2>5, BatchMove
<1> QED BY <1>1, <1>2, <1>3 DEF Feeder

\* The end of a batch: its queues are joined, the feeder is stopped, what is
\* held is put back.
LEMMA BatchEndInv ==
    ASSUME IInv, NEW j \in Job, BatchJoined(j) \/ FeederStop(j) \/ BatchDone(j)
    PROVE  IInv'
<1>0. /\ stage[j] = "batch"
      /\ run \in Locals /\ mail \in Mail /\ run.finished \subseteq run.seen
      /\ run.todo = {} /\ ~run.wake /\ Runs(j)
      /\ status.phase \in {"IDLE", "DRAIN"}
      /\ run.feeder = "off" => run.held = {} /\ run.deferred = {}
  BY BatchFacts, RunFacts DEF BatchJoined, FeederStop, BatchDone, At, Step
<1>1. CASE BatchJoined(j)
  <2>1. /\ run' = [run EXCEPT !.feeder = "stopping"]
        /\ UNCHANGED <<row, mail, status, call, stage, mine, history>>
    BY <1>1 DEF BatchJoined
  <2>2. /\ run' \in Locals /\ run'.finished \subseteq run'.seen
        /\ run'.todo = {} /\ ~run'.wake /\ run'.feeder # "off"
    BY <1>0, <2>1 DEF Locals
  <2> QED BY <1>0, <2>1, <2>2, BatchMove DEF history
<1>2. CASE FeederStop(j)
  <2>1. /\ mail' \in Put(mail, run.held \cup run.deferred)
        /\ run' = [run EXCEPT !.feeder = "off", !.held = {}, !.deferred = {}]
        /\ UNCHANGED <<row, status, call, stage, mine, history>>
    BY <1>2 DEF FeederStop
  <2>2. mail' \in Mail /\ mail'.manual = mail.manual
    BY <1>0, <2>1, PutAnnounces DEF Locals
  <2>3. /\ run' \in Locals /\ run'.finished \subseteq run'.seen
        /\ run'.todo = {} /\ ~run'.wake /\ run'.held = {} /\ run'.deferred = {}
    BY <1>0, <2>1 DEF Locals
  <2> QED BY <1>0, <2>1, <2>2, <2>3, BatchMove DEF history
<1>3. CASE BatchDone(j)
  <2>1. /\ run.feeder = "off" /\ stage' = [stage EXCEPT ![j] = "decide"]
        /\ run' = [run EXCEPT !.seen = {}, !.finished = {}]
        /\ UNCHANGED <<row, mail, status, call, mine, history>>
    BY <1>3 DEF BatchDone, Step
  <2>2. /\ run' \in Locals /\ run'.finished \subseteq run'.seen
        /\ run'.todo = {} /\ ~run'.wake /\ run'.held = {} /\ run'.deferred = {}
    BY <1>0, <2>1 DEF Locals
  <2>3. RunMove(j, "decide")
    BY <1>0, <2>1, <2>2
    DEF RunMove, PhaseAt, ReadyFor, AnswersFor, RunStage, history
  <2> QED BY <2>3, RunMoveInv
<1> QED BY <1>1, <1>2, <1>3

\* The decision, but for the one to release the slot.
LEMMA DecideInv ==
    ASSUME IInv, NEW j \in Job, Decide(j), ~DecideRelease(j)
    PROVE  IInv'
<1>0. /\ stage[j] = "decide" /\ Runs(j)
      /\ run \in Locals /\ mail \in Mail /\ run.finished \subseteq run.seen
      /\ run.todo = {} /\ ~run.wake /\ run.held = {} /\ run.deferred = {}
      /\ status.phase \in {"IDLE", "DRAIN"}
  <2>1. stage[j] = "decide" /\ Runs(j)
    BY DEF Decide, DecideCancelled, DecideManual, DecideContinue, DecideDrained,
       DecideRelease, Step, Runs, RunStage
  <2> QED BY <2>1, RunFacts DEF PhaseAt, ReadyFor, AnswersFor
<1>1. UNCHANGED <<row, status, call, mine, history>>
  BY DEF Decide, DecideCancelled, DecideManual, DecideContinue, DecideDrained
<1> USE DEF RunMove, PhaseAt, ReadyFor, AnswersFor, RunStage, FetchStage, history
<1>2. CASE DecideCancelled(j)
  <2>1. stage' = [stage EXCEPT ![j] = "top"] /\ UNCHANGED <<mail, run>>
    BY <1>2 DEF DecideCancelled, Step
  <2>2. RunMove(j, "top")
    BY <1>0, <1>1, <2>1
  <2> QED BY <2>2, RunMoveInv
<1>3. CASE DecideManual(j)
  <2>1. /\ mail.manual # <<>> /\ status.phase # "DRAIN"
        /\ stage' = [stage EXCEPT ![j] = "beginDrain"]
        /\ run' = [run EXCEPT !.request = Head(mail.manual)]
        /\ UNCHANGED mail
    BY <1>3 DEF DecideManual, Draining, Step
  <2>2. stage'[Head(mail.manual)] # "retry"
    BY <1>0, <2>1, RunFacts, HeadIsCommitted
  <2>3. RunMove(j, "beginDrain")
    BY <1>0, <1>1, <2>1, <2>2, HeadIsCommitted, RunAssumption DEF Locals
  <2> QED BY <2>3, RunMoveInv
<1>4. CASE DecideContinue(j)
  <2>1. /\ stage' \in {[stage EXCEPT ![j] = s] :
                          s \in {"fetchPage", "fetchAuto", "fetchDocuments"}}
        /\ mail' = [mail EXCEPT !.auto = @ /\ run.cursor # END]
        /\ UNCHANGED run
    BY <1>4 DEF DecideContinue, Step
  <2>2. PICK s \in {"fetchPage", "fetchAuto", "fetchDocuments"} :
           stage' = [stage EXCEPT ![j] = s]
    BY <2>1
  <2>3. mail' \in Mail /\ mail'.manual = mail.manual
    <3>1. (mail.auto /\ run.cursor # END) \in BOOLEAN
      OBVIOUS
    <3> QED BY <1>0, <2>1, <3>1 DEF Mail
  <2>4. RunMove(j, s)
    BY <1>0, <1>1, <2>1, <2>2, <2>3
  <2> QED BY <2>4, RunMoveInv
<1>5. CASE DecideDrained(j)
  <2>1. /\ status.phase = "DRAIN" /\ UNCHANGED <<mail, run>>
        /\ \/ stage' = [stage EXCEPT ![j] = "wait"]
           \/ stage' = [stage EXCEPT ![j] = "confirm"] /\ status.tokens = {}
    BY <1>5 DEF DecideDrained, Draining, Step
  <2>2. RunMove(j, "wait") \/ RunMove(j, "confirm")
    BY <1>0, <1>1, <2>1
  <2> QED BY <2>2, RunMoveInv
<1> QED BY <1>2, <1>3, <1>4, <1>5 DEF Decide

\* The decision to fetch the documents the mailbox names.
LEMMA FetchDocumentsInv ==
    ASSUME IInv, NEW j \in Job, FetchDocuments(j)
    PROVE  IInv'
<1>0. stage[j] = "fetchDocuments" /\ Runs(j)
  BY DEF FetchDocuments, Step, Runs, RunStage, FetchStage
<1>1. PICK D \in SUBSET mail.documents :
         /\ mail' = [mail EXCEPT !.documents = @ \ D]
         /\ run' = [run EXCEPT !.held = D]
  BY DEF FetchDocuments
<1>2. /\ stage' = [stage EXCEPT ![j] = "rescan"]
      /\ UNCHANGED <<row, status, call, mine, history>>
  BY DEF FetchDocuments, Step
<1>3. mail' \in Mail /\ mail'.manual = mail.manual
  BY <1>0, <1>1, RunFacts DEF Mail
<1>4. /\ run' \in Locals /\ run'.finished \subseteq run'.seen
      /\ run'.deferred = {} /\ ~run'.wake
  BY <1>0, <1>1, RunFacts DEF Locals, Mail, AnswersFor
<1>5. RunMove(j, "rescan")
  BY <1>0, <1>2, <1>3, <1>4, RunFacts
  DEF RunMove, PhaseAt, ReadyFor, AnswersFor, RunStage, FetchStage, history
<1> QED BY <1>5, RunMoveInv

\* The confirmation that nothing waits any more, before a reset.
LEMMA ConfirmInv ==
    ASSUME IInv, NEW j \in Job, Confirm(j)
    PROVE  IInv'
<1>0. /\ stage[j] = "confirm" /\ Runs(j) /\ run \in Locals /\ mail \in Mail
      /\ UNCHANGED <<row, mail, status, call, mine, history>>
      /\ status.phase = "DRAIN" /\ status.tokens = {}
      /\ ~run.wake /\ run.held = {} /\ run.deferred = {}
      /\ run.finished \subseteq run.seen
  <2>1. stage[j] = "confirm" /\ Runs(j)
    BY DEF Confirm, Step, Runs, RunStage
  <2> QED BY <2>1, RunFacts DEF Confirm, PhaseAt, ReadyFor, AnswersFor
<1> USE DEF RunMove, PhaseAt, ReadyFor, AnswersFor, RunStage, history
<1>1. CASE Unfinished = {}
  <2>1. stage' = [stage EXCEPT ![j] = "enterReset"] /\ UNCHANGED run
    BY <1>1 DEF Confirm, Step
  <2>2. RunMove(j, "enterReset")
    BY <1>0, <1>1, <2>1 DEF Unfinished
  <2> QED BY <2>2, RunMoveInv
<1>2. CASE Unfinished # {}
  <2>1. /\ stage' = [stage EXCEPT ![j] = "top"]
        /\ run' = WithPage(Unfinished, 0, FALSE)
    BY <1>2 DEF Confirm, Step
  <2>2. /\ run' \in Locals /\ run'.todo \subseteq Unfinished /\ ~run'.wake
        /\ run'.held = {} /\ run'.deferred = {}
        /\ run'.finished \subseteq run'.seen
    BY <1>0, <2>1, RunFacts, CursorRange, WithPageFacts
  <2>3. RunMove(j, "top")
    BY <1>0, <2>1, <2>2 DEF Unfinished
  <2> QED BY <2>3, RunMoveInv
<1> QED BY <1>1, <1>2

\* A run that raises or is cancelled goes to its finally.
LEMMA RunAbortInv ==
    ASSUME IInv, NEW j \in Job, Runs(j), stage[j] # "final",
           stage' = [stage EXCEPT ![j] = "final"],
           mail' \in Compensated(j) \cup {mail},
           run' = [run EXCEPT !.held = {}, !.deferred = {}, !.feeder = "off"],
           UNCHANGED <<row, status, call, mine, history>>
    PROVE  IInv'
<1>1. mail' \in Mail /\ mail'.manual = mail.manual
  <2>0. mail \in Mail /\ run.held \in SUBSET Doc
        /\ run.held \cup run.deferred \in SUBSET Doc
    BY RunFacts DEF Locals
  <2>1. CASE mail' = mail
    BY <2>0, <2>1
  <2>2. CASE stage[j] \in {"fetchPage", "fetchAuto"}
             /\ mail' = [mail EXCEPT !.auto = TRUE]
    BY <2>0, <2>2 DEF Mail
  <2>3. CASE stage[j] = "rescan"
             /\ mail' \in {[m EXCEPT !.auto = TRUE] : m \in Put(mail, run.held)}
    <3>1. PICK m \in Put(mail, run.held) : mail' = [m EXCEPT !.auto = TRUE]
      BY <2>3
    <3>2. m \in Mail /\ m.manual = mail.manual
      BY <2>0, PutAnnounces
    <3> QED BY <3>1, <3>2 DEF Mail
  <2>4. CASE stage[j] = "batch" /\ mail' \in Put(mail, run.held \cup run.deferred)
    BY <2>0, <2>4, PutAnnounces
  <2> QED BY <2>1, <2>2, <2>3, <2>4 DEF Compensated
<1>2. /\ run' \in Locals /\ run'.finished \subseteq run'.seen
      /\ run'.held = {} /\ run'.deferred = {}
  BY RunFacts DEF Locals
<1>3. status.phase \in {"IDLE", "DRAIN", "RESET"}
  BY RunFacts DEF Status
<1>4. RunMove(j, "final")
  BY <1>1, <1>2, <1>3
  DEF RunMove, PhaseAt, ReadyFor, AnswersFor, RunStage, history
<1> QED BY <1>4, RunMoveInv

-----------------------------------------------------------------------------
(* The steps of the holder of the slot that change pipeline_status         *)

\* A step that leaves the rows alone and the requests in the mailbox.
LEMMA StillMoveInv ==
    ASSUME IInv, NEW j \in Job, NEW to,
           Holds(j) \/ (\A k \in Job : ~Holds(k)),
           to \in HoldStage \cup {"done", "drive", "dead"},
           stage' = [stage EXCEPT ![j] = to],
           UNCHANGED <<row, call, mine, owes, granted>>, announced' \subseteq announced,
           mail' \in Mail, mail'.manual = mail.manual,
           status' \in Status, status'.phase = "IDLE" <=> status'.request = NoJob,
           IdleWhenFree', IdleReset',
           status'.request # NoJob => stage[status'.request] # "retry",
           \A k \in status.tokens : Dead(k) \/ k \in status'.tokens,
           to \in HoldStage =>
              status'.busyOwner = j /\ status'.phase \in PhaseAt(to),
           to \in RunStage => ReadyFor(to)' /\ AnswersFor(to)',
           run' \in Locals, run'.finished \subseteq run'.seen
    PROVE  IInv'
<1>1. to \in Stage /\ to \notin EnqueueStage \cup {"insert", "enqueue", "retry"}
  BY DEF HoldStage, Stage, EnqueueStage, RunStage, FetchStage
<1>2. /\ row' \in [Doc -> Row] /\ (\A d \in Doc : row[d] = "none" => row'[d] = "none")
      /\ owes' \in [Job -> SUBSET Doc] /\ granted' \in [Job -> SUBSET Doc]
      /\ announced' \subseteq announced
  BY TypeParts DEF IInv
<1>3. \A r \in Job : owes'[r] \subseteq owes[r] \cap Failed'
  BY DEF IInv, Owed, Failed
<1>4. HolderMove(j, to)
  BY <1>1, <1>2, <1>3 DEF HolderMove
<1> QED BY <1>4, HolderMoveInv

\* A run turns to a retry request.
LEMMA BeginDrainInv ==
    ASSUME IInv, NEW j \in Job, BeginDrain(j)
    PROVE  IInv'
<1>1. /\ stage[j] = "beginDrain" /\ stage' = [stage EXCEPT ![j] = "sweep"]
      /\ status' = [status EXCEPT !.phase = "DRAIN", !.request = run.request]
      /\ UNCHANGED <<row, mail, call, mine, run, history>> /\ Runs(j)
  BY DEF BeginDrain, Step, Runs, RunStage
<1>2. /\ run.request \in Job /\ run.request # NoJob /\ stage[run.request] # "retry"
      /\ ~run.wake /\ run.held = {} /\ run.deferred = {}
  BY <1>1, RunFacts DEF ReadyFor, AnswersFor, Locals
<1>3. /\ status' \in Status /\ status'.phase = "DRAIN" /\ status'.busyOwner = j
      /\ status'.request = run.request /\ status'.tokens = status.tokens
  BY <1>1, <1>2, RunFacts DEF Status
<1>4. IdleReset' /\ IdleWhenFree'
  BY <1>3, RunAssumption DEF IdleReset, IdleWhenFree
<1>5. ReadyFor("sweep")' /\ AnswersFor("sweep")'
  BY <1>1, <1>2 DEF ReadyFor, AnswersFor
<1>6. "sweep" \in HoldStage /\ status'.phase \in PhaseAt("sweep")
  BY <1>3 DEF RunStage, HoldStage, PhaseAt
<1>7. mail' \in Mail /\ run' \in Locals /\ run'.finished \subseteq run'.seen
      /\ Holds(j)
  BY <1>1, RunFacts
<1>8. (status'.phase = "IDLE" <=> status'.request = NoJob)
      /\ (status'.request # NoJob => stage[status'.request] # "retry")
      /\ (\A k \in status.tokens : Dead(k) \/ k \in status'.tokens)
  BY <1>2, <1>3
<1> QED BY <1>1, <1>3, <1>4, <1>5, <1>6, <1>7, <1>8, StillMoveInv DEF history

\* Top, a worker's storage error.
LEMMA CancelFlagInv ==
    ASSUME IInv, NEW j \in Job, Top(j) \/ InternalError(j)
    PROVE  IInv'
<1>0. stage[j] \in {"top", "batch"} /\ Runs(j)
  BY DEF Top, InternalError, Step, At, Runs, RunStage
<1>1. PICK flag \in BOOLEAN, s \in {"final", "decide", "validate", "batch"} :
         /\ status' = [status EXCEPT !.cancel = flag]
         /\ stage' = [stage EXCEPT ![j] = s]
         /\ s = "batch" <=> stage[j] = "batch"
         /\ s = "decide" => run.todo = {}
         /\ s = "validate" => run.todo # {}
  <2>1. CASE Top(j)
    BY <2>1 DEF Top, Step
  <2>2. CASE InternalError(j)
    <3>1. stage' = [stage EXCEPT ![j] = "batch"]
      BY <1>0, <2>2, RunFacts DEF InternalError, At
    <3> QED BY <1>0, <2>2, <3>1 DEF InternalError, At
  <2> QED BY <2>1, <2>2
<1>2. UNCHANGED <<row, mail, call, mine, run, history>>
  BY DEF Top, InternalError
<1>3. /\ status' \in Status /\ status'.phase = status.phase
      /\ status'.busyOwner = j /\ status.busyOwner = j
      /\ status'.request = status.request /\ status'.tokens = status.tokens
  BY <1>0, <1>1, RunFacts DEF Status
<1>4. IdleWhenFree' /\ ~Dead(j)
  BY <1>0, <1>3, RunFacts DEF IInv, IdleWhenFree
<1>5. IdleReset'
  BY <1>2, <1>3, <1>4 DEF IInv, IdleReset, Unfinished, history
<1>6. s \in RunStage /\ status'.phase \in PhaseAt(s)
  BY <1>0, <1>3, RunFacts DEF PhaseAt, RunStage
<1>7. ReadyFor(s)' /\ AnswersFor(s)'
  <2>1. ReadyFor(stage[j]) /\ AnswersFor(stage[j])
    BY <1>0, RunFacts
  <2> QED BY <1>0, <1>1, <1>2, <2>1 DEF ReadyFor, AnswersFor, Unfinished
<1>8. (status'.phase = "IDLE" <=> status'.request = NoJob)
      /\ (status'.request # NoJob => stage[status'.request] # "retry")
  BY <1>3, TypeParts DEF IInv, Requests
<1> QED BY <1>0, <1>1, <1>2, <1>3, <1>4, <1>5, <1>6, <1>7, <1>8, RunFacts,
           StillMoveInv DEF HoldStage, history

\* Reconciling spares the living: their slot and their tokens.
LEMMA ReapSpares ==
    ASSUME status \in Status
    PROVE  /\ Reap(status) \in Status
           /\ Reap(status).tokens = {t \in status.tokens : ~Dead(t)}
           /\ Reap(status).cancel = status.cancel
           /\ Reap(status).destructive = status.destructive
           /\ status.busyOwner = NoJob \/ ~Dead(status.busyOwner) =>
                 /\ Reap(status).busyOwner = status.busyOwner
                 /\ Reap(status).phase = status.phase
                 /\ Reap(status).request = status.request
           /\ status.busyOwner # NoJob /\ Dead(status.busyOwner) =>
                 /\ Reap(status).busyOwner = NoJob
                 /\ Reap(status).phase = "IDLE"
                 /\ Reap(status).request = NoJob
<1> DEFINE alive == {t \in status.tokens : ~Dead(t)}
           live == [status EXCEPT !.tokens = alive]
<1>1. alive \in SUBSET Job
  BY DEF Status
<1>2. live = [status EXCEPT !.tokens = {t \in @ : ~Dead(t)}]
  OBVIOUS
<1>3. Reap(status) = IF status.busyOwner # NoJob /\ Dead(status.busyOwner)
                     THEN [live EXCEPT !.busyOwner = NoJob, !.phase = "IDLE",
                                       !.request = NoJob]
                     ELSE live
  BY <1>2 DEF Reap
<1> HIDE DEF alive
<1>4. /\ live \in Status /\ live.tokens = alive /\ live.cancel = status.cancel
      /\ live.destructive = status.destructive /\ live.phase = status.phase
      /\ live.busyOwner = status.busyOwner /\ live.request = status.request
  BY <1>1 DEF Status
<1> HIDE DEF live
<1>5. alive = {t \in status.tokens : ~Dead(t)}
  BY DEF alive
<1>6. CASE status.busyOwner # NoJob /\ Dead(status.busyOwner)
  <2>1. Reap(status) = [live EXCEPT !.busyOwner = NoJob, !.phase = "IDLE",
                                    !.request = NoJob]
    BY <1>3, <1>6
  <2>2. /\ Reap(status) \in Status /\ Reap(status).tokens = alive
        /\ Reap(status).cancel = status.cancel
        /\ Reap(status).destructive = status.destructive
        /\ Reap(status).busyOwner = NoJob /\ Reap(status).phase = "IDLE"
        /\ Reap(status).request = NoJob
    BY <1>4, <2>1 DEF Status
  <2> QED BY <1>5, <1>6, <2>2
<1>7. CASE ~(status.busyOwner # NoJob /\ Dead(status.busyOwner))
  BY <1>3, <1>4, <1>5, <1>7
<1> QED BY <1>6, <1>7

\* A draining run waits for the enqueues in flight.
LEMMA WaitInv ==
    ASSUME IInv, NEW j \in Job, Wait(j)
    PROVE  IInv'
<1>1. /\ stage[j] = "wait" /\ stage' = [stage EXCEPT ![j] = "top"]
      /\ status' = Reap(status) /\ run' = [run EXCEPT !.todo = {}, !.wake = FALSE]
      /\ UNCHANGED <<row, mail, call, mine, history>> /\ Runs(j)
  BY DEF Wait, Step, Runs, RunStage
<1>2. /\ status.phase = "DRAIN" /\ status.busyOwner = j /\ ~Dead(j)
      /\ run.held = {} /\ run.deferred = {}
  BY <1>1, RunFacts DEF PhaseAt, AnswersFor
<1>3. /\ status' \in Status /\ status'.phase = "DRAIN" /\ status'.busyOwner = j
      /\ status'.request = status.request
      /\ status'.tokens = {t \in status.tokens : ~Dead(t)}
  BY <1>1, <1>2, RunFacts, ReapSpares
<1>4. IdleReset' /\ IdleWhenFree'
  BY <1>3, RunAssumption DEF IdleReset, IdleWhenFree
<1>5. /\ run' \in Locals /\ run'.finished \subseteq run'.seen
      /\ run'.todo = {} /\ ~run'.wake /\ run'.held = {} /\ run'.deferred = {}
  BY <1>1, <1>2, RunFacts DEF Locals
<1>6. ReadyFor("top")' /\ AnswersFor("top")'
  BY <1>5 DEF ReadyFor, AnswersFor
<1>7. "top" \in RunStage /\ status.request # NoJob
      /\ stage[status.request] # "retry"
  BY <1>2, TypeParts DEF RunStage, IInv, Requests
<1> QED BY <1>1, <1>2, <1>3, <1>4, <1>5, <1>6, <1>7, RunFacts, StillMoveInv
        DEF PhaseAt, HoldStage, history

\* A drained run goes from DRAIN to RESET.
LEMMA EnterResetInv ==
    ASSUME IInv, NEW j \in Job, EnterReset(j)
    PROVE  IInv'
<1>1. /\ stage[j] = "enterReset" /\ stage' = [stage EXCEPT ![j] = "reset"]
      /\ status' = [status EXCEPT !.phase = "RESET"]
      /\ run' = [run EXCEPT !.cursor = 0, !.request = status.request]
      /\ UNCHANGED <<row, mail, call, mine, history>> /\ Runs(j)
  BY DEF EnterReset, Step, Runs, RunStage
<1>2. /\ status.phase = "DRAIN" /\ status.tokens = {} /\ Unfinished = {}
      /\ ~run.wake /\ run.held = {} /\ run.deferred = {}
  BY <1>1, RunFacts DEF PhaseAt, ReadyFor, AnswersFor
<1>3. /\ status' \in Status /\ status'.phase = "RESET" /\ status'.busyOwner = j
      /\ status'.request = status.request /\ status'.tokens = {}
  BY <1>1, <1>2, RunFacts DEF Status
<1>4. IdleReset' /\ IdleWhenFree'
  BY <1>1, <1>2, <1>3, RunAssumption DEF IdleReset, IdleWhenFree, Unfinished
<1>5. status.request # NoJob /\ status.request \in Job
      /\ stage[status.request] # "retry"
  BY <1>1, <1>2, TypeParts, RunFacts DEF IInv, Requests, Status
<1>6. /\ run' \in Locals /\ run'.finished \subseteq run'.seen
      /\ run'.cursor = 0 /\ run'.request = status.request
      /\ ~run'.wake /\ run'.held = {} /\ run'.deferred = {}
  BY <1>1, <1>2, <1>5, RunFacts, CursorRange DEF Locals
<1>7. ReadyFor("reset")' /\ AnswersFor("reset")'
  <2>1. \A d \in owes[status.request] : 0 < d
    BY <1>5, TypeParts, RunAssumption DEF IInv, Doc
  <2> QED BY <1>1, <1>3, <1>6, <2>1 DEF ReadyFor, AnswersFor, history
<1>8. "reset" \in HoldStage /\ status'.phase \in PhaseAt("reset")
  BY <1>3 DEF RunStage, HoldStage, PhaseAt
<1>9. mail' \in Mail /\ Holds(j)
  BY <1>1, RunFacts
<1>10. (status'.phase = "IDLE" <=> status'.request = NoJob)
       /\ (status'.request # NoJob => stage[status'.request] # "retry")
       /\ (\A k \in status.tokens : Dead(k) \/ k \in status'.tokens)
  BY <1>2, <1>3, <1>5
<1> QED BY <1>1, <1>3, <1>4, <1>6, <1>7, <1>8, <1>9, <1>10, StillMoveInv DEF history

\* A run that has acknowledged the request goes back to IDLE.
LEMMA EndDrainInv ==
    ASSUME IInv, NEW j \in Job, EndDrain(j)
    PROVE  IInv'
<1>1. /\ stage[j] = "endDrain" /\ stage' = [stage EXCEPT ![j] = "sweep"]
      /\ status' = [status EXCEPT !.phase = "IDLE", !.request = NoJob]
      /\ run' = [run EXCEPT !.wake = FALSE]
      /\ UNCHANGED <<row, mail, call, mine, history>> /\ Runs(j)
  BY DEF EndDrain, Step, Runs, RunStage
<1>2. run.held = {} /\ run.deferred = {}
  BY <1>1, RunFacts DEF AnswersFor
<1>3. /\ status' \in Status /\ status'.phase = "IDLE" /\ status'.busyOwner = j
      /\ status'.request = NoJob /\ status'.tokens = status.tokens
  BY <1>1, RunFacts DEF Status
<1>4. IdleReset' /\ IdleWhenFree'
  BY <1>3 DEF IdleReset, IdleWhenFree
<1>5. /\ run' \in Locals /\ run'.finished \subseteq run'.seen
      /\ ~run'.wake /\ run'.held = {} /\ run'.deferred = {}
  BY <1>1, <1>2, RunFacts DEF Locals
<1>6. ReadyFor("sweep")' /\ AnswersFor("sweep")'
  BY <1>5 DEF ReadyFor, AnswersFor
<1>7. "sweep" \in HoldStage /\ status'.phase \in PhaseAt("sweep")
  BY <1>3 DEF RunStage, HoldStage, PhaseAt
<1>8. mail' \in Mail /\ Holds(j)
  BY <1>1, RunFacts
<1>9. (status'.phase = "IDLE" <=> status'.request = NoJob)
      /\ (status'.request # NoJob => stage[status'.request] # "retry")
      /\ (\A k \in status.tokens : Dead(k) \/ k \in status'.tokens)
  BY <1>3
<1> QED BY <1>1, <1>3, <1>4, <1>5, <1>6, <1>7, <1>8, <1>9, StillMoveInv DEF history

-----------------------------------------------------------------------------
(* Taking the slot and giving it back                                      *)

\* What the invariant says of the holder of the slot.
LEMMA HoldFacts ==
    ASSUME IInv, NEW j \in Job, Holds(j)
    PROVE  /\ status \in Status /\ mail \in Mail /\ run \in Locals
           /\ run.finished \subseteq run.seen
           /\ status.busyOwner = j /\ ~Dead(j)
           /\ status.phase \in PhaseAt(stage[j])
           /\ (status.request # NoJob => stage[status.request] # "retry")
           /\ (status.phase = "IDLE" <=> status.request = NoJob)
<1>1. ~Dead(j)
  BY DEF Holds, HoldStage, Dead, RunStage, FetchStage
<1> QED BY <1>1, TypeParts DEF IInv, OneHolder, PhaseFits, Requests

\* When nobody alive owns the slot, nobody holds it.
LEMMA FreeSlot ==
    ASSUME IInv, Reap(status).busyOwner = NoJob
    PROVE  /\ \A k \in Job : ~Holds(k)
           /\ Reap(status).phase = "IDLE" /\ Reap(status).request = NoJob
           /\ Reap(status) \in Status
           /\ Reap(status).tokens = {t \in status.tokens : ~Dead(t)}
<1>1. status \in Status /\ (status.phase = "IDLE" <=> status.request = NoJob)
  BY TypeParts DEF IInv
<1>2. ASSUME NEW k \in Job, Holds(k) PROVE FALSE
  <2>1. status.busyOwner = k /\ ~Dead(k) /\ k # NoJob
    BY <1>2, HoldFacts, RunAssumption
  <2> QED BY <1>1, <2>1, ReapSpares
<1>3. Reap(status).phase = "IDLE" /\ Reap(status).request = NoJob
  BY <1>1, ReapSpares DEF IInv, IdleWhenFree
<1> QED BY <1>1, <1>2, <1>3, ReapSpares

\* A new run has drained nothing.
LEMMA NewRunFacts ==
    /\ NewRun \in Locals /\ NewRun.finished \subseteq NewRun.seen
    /\ NewRun.held = {} /\ NewRun.deferred = {} /\ ~NewRun.wake
    /\ NewRun.todo = {}
BY CursorRange DEF NewRun, Locals

\* What a step has to show that leaves the slot free or idle.
LEMMA SlotMoveInv ==
    ASSUME IInv, NEW j \in Job, NEW to,
           Holds(j) \/ (\A k \in Job : ~Holds(k)),
           to \in {"start", "sdkDeleting", "deleting", "handoff", "done", "drive"},
           stage' = [stage EXCEPT ![j] = to],
           UNCHANGED <<row, call, mine, owes, granted>>, announced' \subseteq announced,
           mail' \in Mail, mail'.manual = mail.manual,
           status' \in Status, status'.phase = "IDLE", status'.request = NoJob,
           \A k \in status.tokens : Dead(k) \/ k \in status'.tokens,
           to \notin {"done", "drive"} => status'.busyOwner = j,
           run' = NewRun \/ (run' = run /\ to # "start")
    PROVE  IInv'
<1>1. to \in HoldStage \cup {"done", "drive", "dead"}
      /\ (to \in RunStage => to = "start")
      /\ (to \in HoldStage => to \notin {"done", "drive"})
      /\ status'.phase \in PhaseAt(to)
  BY DEF HoldStage, RunStage, FetchStage, PhaseAt
<1>2. IdleWhenFree' /\ IdleReset'
  BY DEF IdleWhenFree, IdleReset
<1>3. run' \in Locals /\ run'.finished \subseteq run'.seen
  BY NewRunFacts, TypeParts DEF IInv
<1>4. to \in RunStage => ReadyFor(to)' /\ AnswersFor(to)'
  BY <1>1, NewRunFacts DEF ReadyFor, AnswersFor
<1> QED BY <1>1, <1>2, <1>3, <1>4, StillMoveInv

\* A driver that gets the slot.
LEMMA DriveTakesInv ==
    ASSUME IInv, NEW j \in Job, Drive(j), Reap(status).busyOwner = NoJob
    PROVE  IInv'
<1>1. /\ stage' = [stage EXCEPT ![j] = "start"]
      /\ status' = [Reap(status) EXCEPT !.busyOwner = j, !.cancel = FALSE]
      /\ run' = NewRun /\ UNCHANGED <<row, call, mine, mail, history>>
  BY DEF Drive, Step
<1>2. /\ status' \in Status /\ status'.phase = "IDLE" /\ status'.request = NoJob
      /\ status'.busyOwner = j
      /\ status'.tokens = {t \in status.tokens : ~Dead(t)}
  BY <1>1, FreeSlot DEF Status
<1>3. mail' \in Mail
  BY <1>1, TypeParts DEF IInv
<1> QED BY <1>1, <1>2, <1>3, FreeSlot, SlotMoveInv DEF history

\* A deletion that gets the slot.
LEMMA TakeSlotTakesInv ==
    ASSUME IInv, NEW j \in Job, TakeSlot(j),
           stage'[j] \in {"sdkDeleting", "deleting"}
    PROVE  IInv'
<1>0. stage \in [Job -> Stage] /\ mail \in Mail
  BY TypeParts DEF IInv
<1>1. /\ Reap(status).busyOwner = NoJob
      /\ UNCHANGED <<row, call, mine, mail, run, history>>
      /\ \/ /\ stage' = [stage EXCEPT ![j] = "sdkDeleting"]
            /\ status' = [Reap(status) EXCEPT !.busyOwner = j, !.cancel = FALSE]
         \/ /\ stage' = [stage EXCEPT ![j] = "deleting"]
            /\ status' = [Reap(status) EXCEPT !.busyOwner = j, !.cancel = FALSE,
                                              !.destructive = TRUE]
  BY <1>0 DEF TakeSlot, Step
<1>2. /\ status' \in Status /\ status'.phase = "IDLE" /\ status'.request = NoJob
      /\ status'.busyOwner = j
      /\ status'.tokens = {t \in status.tokens : ~Dead(t)}
  BY <1>1, FreeSlot DEF Status
<1>3. PICK to \in {"sdkDeleting", "deleting"} : stage' = [stage EXCEPT ![j] = to]
  BY <1>1
<1> QED BY <1>0, <1>1, <1>2, <1>3, FreeSlot, SlotMoveInv DEF history

\* A deletion that gives the slot back, or hands it to a run.
LEMMA GiveBackInv ==
    ASSUME IInv, NEW j \in Job, GiveBack(j) \/ Handoff(j)
    PROVE  IInv'
<1>1. stage[j] \in {"sdkDeleting", "deleting", "handoff"} /\ Holds(j)
  BY DEF GiveBack, Handoff, Step, Holds, HoldStage
<1>2. /\ status \in Status /\ status.phase = "IDLE" /\ status.request = NoJob
      /\ status.busyOwner = j /\ ~Dead(j) /\ mail \in Mail
  BY <1>1, HoldFacts DEF PhaseAt
<1>3. CASE GiveBack(j)
  <2>1. UNCHANGED <<row, call, mine, mail, run, history>>
    BY <1>3 DEF GiveBack
  <2>2. PICK to \in {"handoff", "done", "drive"} :
           /\ stage' = [stage EXCEPT ![j] = to]
           /\ \/ to = "handoff" /\ status' = [status EXCEPT !.cancel = FALSE]
              \/ /\ to # "handoff"
                 /\ status' = [status EXCEPT !.busyOwner = NoJob,
                                    !.cancel = FALSE, !.destructive = FALSE]
    BY <1>3 DEF GiveBack, Step
  <2>3. /\ status' \in Status /\ status'.phase = "IDLE" /\ status'.request = NoJob
        /\ to = "handoff" => status'.busyOwner = j
        /\ status'.tokens = status.tokens
    BY <1>2, <2>2 DEF Status
  <2> QED BY <1>1, <1>2, <2>1, <2>2, <2>3, SlotMoveInv DEF history
<1>4. CASE Handoff(j)
  <2>1. /\ stage' = [stage EXCEPT ![j] = "start"]
        /\ status' = [Reap(status) EXCEPT !.cancel = FALSE]
        /\ run' = NewRun /\ UNCHANGED <<row, call, mine, mail, history>>
    BY <1>4 DEF Handoff, Step
  <2>2. /\ status' \in Status /\ status'.phase = "IDLE" /\ status'.request = NoJob
        /\ status'.busyOwner = j
        /\ status'.tokens = {t \in status.tokens : ~Dead(t)}
    BY <1>2, <2>1, ReapSpares DEF Status
  <2> QED BY <1>1, <1>2, <2>1, <2>2, SlotMoveInv DEF history
<1> QED BY <1>3, <1>4

\* A run that releases the slot, in its finally or by its last decision.
LEMMA RunEndsInv ==
    ASSUME IInv, NEW j \in Job, Final(j) \/ (Decide(j) /\ DecideRelease(j))
    PROVE  IInv'
<1>0. stage[j] \in {"final", "decide"} /\ Holds(j)
  BY DEF Final, DecideRelease, Step, Holds, HoldStage, RunStage
<1>1. CASE Final(j)
  <2>1. /\ stage' = [stage EXCEPT ![j] = "done"]
        /\ mail' = [mail EXCEPT !.auto = @ \/ run.wake]
        /\ status' = [status EXCEPT !.busyOwner = NoJob, !.phase = "IDLE",
                                    !.request = NoJob, !.cancel = FALSE]
        /\ run' = NewRun /\ UNCHANGED <<row, call, mine, owes, granted>>
        /\ announced' \subseteq announced
    BY <1>1 DEF Final, Step
  <2>2. mail' \in Mail /\ mail'.manual = mail.manual
    <3>1. (mail.auto \/ run.wake) \in BOOLEAN
      OBVIOUS
    <3> QED BY <1>0, <2>1, <3>1, HoldFacts DEF Mail
  <2>3. /\ status' \in Status /\ status'.phase = "IDLE" /\ status'.request = NoJob
        /\ status'.tokens = status.tokens
    BY <1>0, <2>1, HoldFacts DEF Status
  <2> QED BY <1>0, <2>1, <2>2, <2>3, SlotMoveInv DEF history
<1>2. CASE Decide(j) /\ DecideRelease(j)
  <2>1. /\ stage' = [stage EXCEPT ![j] = "done"]
        /\ status' = [status EXCEPT !.busyOwner = NoJob]
        /\ run' = NewRun /\ status.phase # "DRAIN" /\ stage[j] = "decide"
        /\ UNCHANGED <<row, call, mine, mail, history>>
    BY <1>2 DEF Decide, DecideRelease, Draining, Step
  <2>2. status.phase = "IDLE" /\ status.request = NoJob /\ mail' \in Mail
    BY <1>0, <2>1, HoldFacts DEF PhaseAt
  <2>3. /\ status' \in Status /\ status'.phase = "IDLE" /\ status'.request = NoJob
        /\ status'.tokens = status.tokens
    BY <1>0, <2>1, <2>2, HoldFacts DEF Status
  <2> QED BY <1>0, <2>1, <2>2, <2>3, SlotMoveInv DEF history
<1> QED BY <1>1, <1>2

\* A kill of the holder leaves everything as it is, to be reclaimed later.
LEMMA HolderCrashInv ==
    ASSUME IInv, NEW j \in Job, Crash(j), Holds(j)
    PROVE  IInv'
<1>1. /\ stage' = [stage EXCEPT ![j] = "dead"]
      /\ UNCHANGED <<row, mail, status, call, mine, run, history>>
  BY DEF Crash
<1>2. status.busyOwner = j /\ stage'[j] = "dead"
  BY <1>1, HoldFacts, TypeParts DEF IInv
<1>3. IdleReset' /\ IdleWhenFree'
  BY <1>1, <1>2 DEF IInv, IdleReset, IdleWhenFree, Dead
<1>4. "dead" \notin HoldStage /\ "dead" \notin RunStage
  BY DEF HoldStage, RunStage, FetchStage
<1> QED BY <1>1, <1>3, <1>4, HoldFacts, StillMoveInv DEF history

\* A run that is cancelled in the exit of the lock, after its last decision.
LEMMA LostDecisionInv ==
    ASSUME IInv, NEW j \in Job, LostDecision(j)
    PROVE  IInv'
<1>1. /\ stage[j] = "fetchAuto" /\ stage' = [stage EXCEPT ![j] = "final"]
      /\ UNCHANGED <<row, mail, status, call, mine, run, history>> /\ Runs(j)
  BY DEF LostDecision, Step, Runs, RunStage, FetchStage
<1>2. RunMove(j, "final")
  BY <1>1, RunFacts
  DEF RunMove, PhaseAt, ReadyFor, AnswersFor, RunStage, history
<1> QED BY <1>2, RunMoveInv

-----------------------------------------------------------------------------
(* The steps of a run that change doc_status, and the acknowledgement      *)

\* A batch changes the rows that wait, and no other.
LEMMA BatchRowsInv ==
    ASSUME IInv, NEW j \in Job, stage[j] \in {"validate", "batch"},
           stage' = [stage EXCEPT ![j] = "batch"],
           row' \in [Doc -> Row],
           \A d \in Doc : \/ row'[d] = row[d]
                          \/ row[d] \in {"PENDING", "ACTIVE"} /\ row'[d] # "none",
           announced' \subseteq announced,
           UNCHANGED <<mail, status, call, mine, owes, granted>>,
           run' \in Locals, run'.finished \subseteq run'.seen,
           run'.todo = {}, ~run'.wake,
           run'.feeder = "off" => run'.held = {} /\ run'.deferred = {}
    PROVE  IInv'
<1>1. Runs(j) /\ "batch" \in RunStage /\ "batch" \in HoldStage
  BY DEF Runs, RunStage, HoldStage
<1>2. /\ status.phase \in {"IDLE", "DRAIN"} /\ status.busyOwner = j /\ Holds(j)
      /\ status \in Status /\ mail \in Mail
      /\ (status.phase = "IDLE" <=> status.request = NoJob)
      /\ (status.request # NoJob => stage[status.request] # "retry")
      /\ owes \in [Job -> SUBSET Doc] /\ granted \in [Job -> SUBSET Doc]
  BY <1>1, RunFacts, HoldFacts, TypeParts DEF PhaseAt, IInv
<1>3. "batch" \in Stage /\ "batch" \notin EnqueueStage \cup {"insert", "enqueue", "retry"}
  BY DEF Stage, EnqueueStage, RunStage
<1>5. \A d \in Doc : row[d] = "none" => row'[d] = "none"
  OBVIOUS
<1>6. \A r \in Job : owes'[r] \subseteq owes[r] \cap Failed'
  BY DEF IInv, Owed, Failed
<1>7. IdleWhenFree' /\ IdleReset'
  BY <1>2, RunAssumption DEF IdleWhenFree, IdleReset
<1>8. status'.phase \in PhaseAt("batch") /\ ReadyFor("batch")' /\ AnswersFor("batch")'
  BY <1>2 DEF PhaseAt, ReadyFor, AnswersFor
<1>9. HolderMove(j, "batch")
  BY <1>1, <1>2, <1>3, <1>5, <1>6, <1>7, <1>8 DEF HolderMove
<1> QED BY <1>9, HolderMoveInv

\* The validation of what is to be done, before a batch.
LEMMA ValidateInv ==
    ASSUME IInv, NEW j \in Job, Validate(j)
    PROVE  IInv'
<1>1. /\ stage[j] = "validate" /\ stage' = [stage EXCEPT ![j] = "batch"]
      /\ row' = [d \in Doc |-> IF d \in run.todo THEN "PENDING" ELSE row[d]]
      /\ run' = [run EXCEPT !.todo = {}, !.wake = FALSE, !.seen = run.todo,
                            !.finished = {}, !.feeder = "on"]
      /\ announced' \subseteq announced
      /\ UNCHANGED <<mail, status, call, mine, owes, granted>>
  BY DEF Validate, Step
<1>2. Runs(j)
  BY <1>1 DEF Runs, RunStage
<1>3. run.todo \subseteq Unfinished /\ run \in Locals /\ row \in [Doc -> Row]
  BY <1>1, <1>2, RunFacts DEF ReadyFor
<1>4. /\ run' \in Locals /\ run'.finished = {} /\ run'.todo = {} /\ ~run'.wake
      /\ run'.feeder # "off"
  BY <1>1, <1>3 DEF Locals
<1>5. row' \in [Doc -> Row]
  BY <1>1, <1>3 DEF Row
<1>6. \A d \in Doc : \/ row'[d] = row[d]
                     \/ row[d] \in {"PENDING", "ACTIVE"} /\ row'[d] # "none"
  BY <1>1, <1>3 DEF Unfinished
<1> QED BY <1>1, <1>4, <1>5, <1>6, BatchRowsInv DEF Row

\* A worker starts or finishes a document.
LEMMA WorkerInv ==
    ASSUME IInv, NEW j \in Job, NEW d \in Doc, StartDoc(j, d) \/ FinishDoc(j, d)
    PROVE  IInv'
<1>1. /\ stage[j] = "batch" /\ UNCHANGED <<mail, status, call, stage, mine, history>>
      /\ d \in run.seen /\ row[d] \in {"PENDING", "ACTIVE"}
      /\ run' = run \/ run' = [run EXCEPT !.finished = @ \cup {d}]
  BY DEF StartDoc, FinishDoc, At
<1>2. PICK s \in {"PROCESSED", "FAILED", "ACTIVE"} : row' = [row EXCEPT ![d] = s]
  BY DEF StartDoc, FinishDoc
<1>3. /\ Runs(j) /\ stage' = [stage EXCEPT ![j] = "batch"]
      /\ run.todo = {} /\ ~run.wake
      /\ run.feeder = "off" => run.held = {} /\ run.deferred = {}
  BY <1>1, BatchFacts
<1>4. run \in Locals /\ row \in [Doc -> Row] /\ run.finished \subseteq run.seen
  BY <1>3, RunFacts
<1>5. row' \in [Doc -> Row]
  BY <1>2, <1>4 DEF Row
<1>6. \A e \in Doc : \/ row'[e] = row[e]
                     \/ row[e] \in {"PENDING", "ACTIVE"} /\ row'[e] # "none"
  BY <1>1, <1>2, <1>4
<1>7. /\ run' \in Locals /\ run'.finished \subseteq run'.seen
      /\ run'.todo = {} /\ ~run'.wake
      /\ run'.feeder = "off" => run'.held = {} /\ run'.deferred = {}
  BY <1>1, <1>3, <1>4 DEF Locals
<1> QED BY <1>1, <1>3, <1>5, <1>6, <1>7, BatchRowsInv DEF Row, history

\* A page of FAILED documents is reset: they are granted to the request.
LEMMA ResetPageInv ==
    ASSUME IInv, NEW j \in Job, ResetPage(j)
    PROVE  IInv'
<1> DEFINE page == Page(Failed, run.cursor)
           next == NextCursor(Failed, run.cursor)
<1>0. PICK to \in {"ack", "reset"} : to = IF next = END THEN "ack" ELSE "reset"
  OBVIOUS
<1>1. /\ stage[j] = "reset" /\ stage' = [stage EXCEPT ![j] = to]
      /\ row' = [d \in Doc |-> IF d \in page THEN "PENDING" ELSE row[d]]
      /\ owes' = [r \in Job |-> owes[r] \ page]
      /\ granted' = [granted EXCEPT ![run.request] = @ \cup page]
      /\ announced' = announced \ page
      /\ run' = [run EXCEPT !.cursor = next]
      /\ UNCHANGED <<mail, status, call, mine>>
  BY <1>0 DEF ResetPage, Step
<1>2. Runs(j)
  BY <1>1 DEF Runs, RunStage
<1>3. /\ status.phase = "RESET" /\ status.busyOwner = j /\ ~Dead(j) /\ Holds(j)
      /\ status \in Status /\ mail \in Mail /\ run \in Locals
      /\ row \in [Doc -> Row] /\ Failed \in SUBSET Doc
      /\ run.finished \subseteq run.seen /\ run.request = status.request
      /\ (\A d \in owes[run.request] : run.cursor < d)
      /\ ~run.wake /\ run.held = {} /\ run.deferred = {}
  BY <1>1, <1>2, RunFacts DEF PhaseAt, ReadyFor, AnswersFor
<1>4. /\ status.request # NoJob /\ run.request \in Job
      /\ stage[status.request] # "retry" /\ run.cursor \in 0..END
      /\ owes \in [Job -> SUBSET Doc] /\ granted \in [Job -> SUBSET Doc]
  BY <1>3, HoldFacts, TypeParts DEF IInv, Status, Locals
<1>5. /\ page \in SUBSET Failed /\ next \in 0..END
      /\ \A d \in Failed : run.cursor < d /\ d \notin page => next # END /\ next < d
  BY <1>3, <1>4, PageType, PageMissesNothing
<1> HIDE DEF page, next
<1>6. /\ row' \in [Doc -> Row]
      /\ owes' \in [Job -> SUBSET Doc] /\ granted' \in [Job -> SUBSET Doc]
  <2>1. row' \in [Doc -> Row]
    BY <1>1, <1>3 DEF Row
  <2>2. page \subseteq Doc
    BY <1>3, <1>5
  <2>3. owes' \in [Job -> SUBSET Doc]
    BY <1>1, <1>4
  <2>4. granted' \in [Job -> SUBSET Doc]
    BY <1>1, <1>4, <2>2
  <2> QED BY <2>1, <2>3, <2>4
<1>7. \A d \in Doc : row[d] = "none" => row'[d] = "none"
  BY <1>1, <1>5 DEF Failed
<1>8. \A r \in Job : owes'[r] \subseteq owes[r] \cap Failed'
  <2>1. \A r \in Job : owes[r] \subseteq Failed /\ owes'[r] = owes[r] \ page
    BY <1>1, <1>4 DEF IInv, Owed
  <2>2. Failed \ page \subseteq Failed'
    BY <1>1 DEF Failed
  <2> QED BY <2>1, <2>2
<1>9. IdleReset'
  <2>1. status.tokens = {} /\ Unfinished \subseteq granted[status.request]
    BY <1>3 DEF IInv, IdleReset
  <2>2. Unfinished' \subseteq Unfinished \cup page
    BY <1>1 DEF Unfinished
  <2>3. granted'[status.request] = granted[status.request] \cup page
    BY <1>1, <1>3, <1>4
  <2> QED BY <1>1, <2>1, <2>2, <2>3 DEF IdleReset
<1>10. /\ run' \in Locals /\ run'.finished \subseteq run'.seen
       /\ run'.cursor = next /\ run'.request = run.request
       /\ ~run'.wake /\ run'.held = {} /\ run'.deferred = {}
  BY <1>1, <1>3, <1>5 DEF Locals
<1>11. \A d \in owes'[run.request] : next # END /\ next < d
  <2>1. owes'[run.request] = owes[run.request] \ page
        /\ owes[run.request] \subseteq Failed
    BY <1>1, <1>4 DEF IInv, Owed
  <2> QED BY <1>3, <1>5, <2>1
<1>12. ReadyFor(to)' /\ AnswersFor(to)'
  <2>1. next = END => owes'[run.request] = {}
    BY <1>11
  <2>2. owes'[run'.request] = owes'[run.request] /\ run'.request = status'.request
    BY <1>1, <1>3, <1>10
  <2>3. to = "ack" => next = END
    BY <1>0
  <2>4. to = "reset" => \A d \in owes'[run'.request] : run'.cursor < d
    BY <1>10, <1>11
  <2>5. to = "ack" => owes'[run'.request] = {}
    BY <1>10, <2>1, <2>3
  <2>6. ReadyFor(to)'
    <3>1. CASE to = "ack"
      BY <2>2, <2>5, <3>1 DEF ReadyFor
    <3>2. CASE to = "reset"
      BY <2>2, <2>4, <3>2 DEF ReadyFor
    <3> QED BY <1>0, <3>1, <3>2
  <2>7. AnswersFor(to)'
    BY <1>0, <1>10 DEF AnswersFor
  <2> QED BY <2>6, <2>7
<1>13. /\ to \in Stage /\ to \notin EnqueueStage \cup {"insert", "enqueue", "retry"}
       /\ status'.phase \in PhaseAt(to)
  BY <1>0, <1>1, <1>3 DEF Stage, EnqueueStage, RunStage, PhaseAt
<1>14. IdleWhenFree'
  BY <1>1, <1>3, RunAssumption DEF IdleWhenFree
<1>15. /\ (status'.phase = "IDLE" <=> status'.request = NoJob)
       /\ (status'.request # NoJob => stage[status'.request] # "retry")
       /\ (\A k \in status.tokens : Dead(k) \/ k \in status'.tokens)
       /\ status' \in Status /\ status'.busyOwner = j
       /\ mail' \in Mail /\ mail'.manual = mail.manual
       /\ announced' \subseteq announced /\ UNCHANGED <<call, mine>>
  BY <1>1, <1>3, <1>4
<1>16. HolderMove(j, to)
  BY <1>1, <1>3, <1>6, <1>7, <1>8, <1>9, <1>10, <1>12, <1>13, <1>14, <1>15
  DEF HolderMove
<1> QED BY <1>16, HolderMoveInv

\* The request is acknowledged only when it owes nothing.
LEMMA AckInv ==
    ASSUME IInv, NEW j \in Job, Ack(j)
    PROVE  IInv'
<1>1. /\ stage[j] = "ack" /\ stage' = [stage EXCEPT ![j] = "endDrain"]
      /\ mail' = [mail EXCEPT !.manual = Without(@, run.request)]
      /\ UNCHANGED <<row, status, call, mine, run, history>>
  BY DEF Ack, Step
<1>2. Runs(j)
  BY <1>1 DEF Runs, RunStage
<1>3. /\ status.phase = "RESET" /\ status.busyOwner = j /\ Holds(j)
      /\ status \in Status /\ mail \in Mail /\ run \in Locals
      /\ owes[run.request] = {}
      /\ ~run.wake /\ run.held = {} /\ run.deferred = {}
      /\ run.finished \subseteq run.seen
  BY <1>1, <1>2, RunFacts DEF PhaseAt, ReadyFor, AnswersFor
<1> DEFINE rest == Without(mail.manual, run.request)
<1>4. /\ rest \in Seq(Job)
      /\ \A i \in DOMAIN rest : \E k \in DOMAIN mail.manual : rest[i] = mail.manual[k]
      /\ \A k \in DOMAIN mail.manual : mail.manual[k] # run.request =>
            \E i \in DOMAIN rest : rest[i] = mail.manual[k]
      /\ \A i, k \in DOMAIN rest : rest[i] = rest[k] => i = k
  <2>1. mail.manual \in Seq(Job)
        /\ \A i, k \in DOMAIN mail.manual : mail.manual[i] = mail.manual[k] => i = k
    BY <1>3 DEF Mail, IInv, Requests
  <2>2. rest = Without(mail.manual, run.request)
    OBVIOUS
  <2> HIDE DEF rest
  <2> QED BY <2>1, <2>2, WithoutRemoves
<1> HIDE DEF rest
<1>5. mail' \in Mail /\ mail'.manual = rest
  BY <1>1, <1>3, <1>4 DEF Mail, rest
<1>6. Requests'
  <2>1. \A i \in DOMAIN rest : stage'[rest[i]] # "retry"
    <3> SUFFICES ASSUME NEW i \in DOMAIN rest PROVE stage'[rest[i]] # "retry"
      OBVIOUS
    <3>1. PICK k \in DOMAIN mail.manual : rest[i] = mail.manual[k]
      BY <1>4
    <3>2. stage[mail.manual[k]] # "retry" /\ mail.manual[k] \in Job
      BY <1>3 DEF IInv, Requests, Mail
    <3> QED BY <1>1, <3>1, <3>2, TypeParts DEF IInv
  <2>2. status'.request # NoJob => stage'[status'.request] # "retry"
    BY <1>1, <1>3, HoldFacts, TypeParts DEF IInv, Status
  <2> QED BY <1>4, <1>5, <2>1, <2>2 DEF Requests
<1>7. RetryHonoured'
  <2> SUFFICES ASSUME NEW r \in Job, \A i \in DOMAIN rest : rest[i] # r
               PROVE  owes[r] = {}
    BY <1>1, <1>5 DEF RetryHonoured, history
  <2>1. CASE r = run.request
    BY <1>3, <2>1
  <2>2. CASE r # run.request
    <3>1. \A k \in DOMAIN mail.manual : mail.manual[k] # r
      BY <1>4, <2>2
    <3> QED BY <3>1 DEF IInv, RetryHonoured
  <2> QED BY <2>1, <2>2
<1>8. /\ "endDrain" \in Stage
      /\ "endDrain" \notin EnqueueStage \cup {"insert", "enqueue", "retry"}
      /\ status'.phase \in PhaseAt("endDrain")
      /\ ReadyFor("endDrain")' /\ AnswersFor("endDrain")'
  BY <1>1, <1>3 DEF Stage, EnqueueStage, RunStage, PhaseAt, ReadyFor, AnswersFor
<1>9. IdleWhenFree' /\ IdleReset'
  <2>1. Dead(j)' <=> Dead(j)
    BY <1>1, TypeParts DEF IInv, Dead
  <2> QED BY <1>1, <1>3, <2>1
          DEF IInv, IdleWhenFree, IdleReset, Unfinished, history
<1>10. /\ row' \in [Doc -> Row] /\ (\A d \in Doc : row[d] = "none" => row'[d] = "none")
       /\ owes' \in [Job -> SUBSET Doc] /\ granted' \in [Job -> SUBSET Doc]
       /\ announced' \subseteq announced
       /\ \A r \in Job : owes'[r] \subseteq owes[r] \cap Failed'
  BY <1>1, TypeParts DEF IInv, Owed, Failed, history
<1>11. /\ (status'.phase = "IDLE" <=> status'.request = NoJob)
       /\ (status'.request # NoJob => stage[status'.request] # "retry")
       /\ (\A k \in status.tokens : Dead(k) \/ k \in status'.tokens)
       /\ status' \in Status /\ status'.busyOwner = j
       /\ run' \in Locals /\ run'.finished \subseteq run'.seen
       /\ UNCHANGED <<call, mine>>
  BY <1>1, <1>3, HoldFacts
<1>12. HolderMove(j, "endDrain")
  BY <1>1, <1>3, <1>5, <1>6, <1>7, <1>8, <1>9, <1>10, <1>11 DEF HolderMove
<1> QED BY <1>12, HolderMoveInv

-----------------------------------------------------------------------------
(* The calls that do not hold the slot                                     *)

\* The slot, its phase and its request stay with the living; the tokens too.
SlotKept(j) ==
    /\ status' \in Status
    /\ \/ /\ status'.busyOwner = status.busyOwner
          /\ status'.phase = status.phase /\ status'.request = status.request
       \/ /\ status.busyOwner # NoJob /\ Dead(status.busyOwner)
          /\ status'.busyOwner = NoJob
          /\ status'.phase = "IDLE" /\ status'.request = NoJob
    /\ status'.tokens \subseteq status.tokens \/ status'.phase = "IDLE"
    /\ \A k \in status.tokens : k = j \/ Dead(k) \/ k \in status'.tokens

\* A step to the stage to of a call that does not hold the slot, before it or
\* after it.
CallerMove(j, to) ==
    /\ ~Holds(j) /\ ~Dead(j)
    /\ to \in Stage /\ to \notin HoldStage \cup {"insert", "enqueue", "retry"}
    /\ stage' = [stage EXCEPT ![j] = to]
    /\ UNCHANGED <<call, run, granted>>
    /\ mine' \in [Job -> Doc \cup {NoDoc}] /\ announced' \in SUBSET Doc
    /\ \/ row' = row
       \/ stage[j] = "persist" /\ row' = [row EXCEPT ![mine[j]] = "PENDING"]
    /\ \/ OwnDocuments'
       \/ /\ to # "persist" /\ mine' = mine
          /\ to \in EnqueueStage => stage[j] \in EnqueueStage
          /\ \/ announced' = announced
             \/ stage[j] \in EnqueueStage /\ announced' = announced \cup {mine[j]}
    /\ mail' \in Mail
    /\ \/ mail'.manual = mail.manual /\ owes' = owes
       \/ /\ stage[j] = "retry" /\ owes' = [owes EXCEPT ![j] = Failed]
          /\ Requests' /\ RetryHonoured'
    /\ SlotKept(j)

\* An enqueue in flight has a document of its own; before it is persisted it
\* has a token as well.
LEMMA OwnFacts ==
    ASSUME IInv, NEW j \in Job, stage[j] \in EnqueueStage
    PROVE  /\ mine[j] \in Doc
           /\ \A k \in Job : mine[k] = mine[j] => k = j
           /\ stage[j] = "persist" => j \in status.tokens /\ row[mine[j]] = "none"
<1>1. mine[j] \in Doc
  BY DEF IInv, OwnDocuments
<1>2. mine[j] # NoDoc
  BY <1>1, RunAssumption DEF Doc, NoDoc
<1> QED BY <1>1, <1>2 DEF IInv, OwnDocuments

\* What such a step does to doc_status.
LEMMA CallerRows ==
    ASSUME IInv, NEW j \in Job, NEW to, CallerMove(j, to)
    PROVE  /\ row' \in [Doc -> Row]
           /\ Failed' = Failed /\ Unfinished \subseteq Unfinished'
           /\ status.tokens = {} => row' = row
           /\ \A d \in Doc : (stage[j] \notin EnqueueStage \/ d # mine[j])
                 => row'[d] = row[d]
<1>1. row \in [Doc -> Row]
  BY TypeParts DEF IInv
<1>2. CASE row' = row
  BY <1>1, <1>2 DEF Failed, Unfinished
<1>3. CASE stage[j] = "persist" /\ row' = [row EXCEPT ![mine[j]] = "PENDING"]
  <2>1. mine[j] \in Doc /\ j \in status.tokens /\ row[mine[j]] = "none"
    BY <1>3, OwnFacts DEF EnqueueStage
  <2>2. row'[mine[j]] = "PENDING" /\ \A d \in Doc : d # mine[j] => row'[d] = row[d]
    BY <1>1, <1>3, <2>1
  <2>3. row' \in [Doc -> Row]
    BY <1>1, <1>3 DEF Row
  <2>4. Failed' = Failed /\ Unfinished \subseteq Unfinished'
    BY <2>1, <2>2 DEF Failed, Unfinished
  <2> QED BY <1>3, <2>1, <2>2, <2>3, <2>4 DEF EnqueueStage
<1> QED BY <1>2, <1>3 DEF CallerMove

\* Such a step of a call that does not hold the slot preserves the invariant.
LEMMA CallerMoveInv ==
    ASSUME IInv, NEW j \in Job, NEW to, CallerMove(j, to)
    PROVE  IInv'
<1>0. /\ stage \in [Job -> Stage] /\ status \in Status /\ run \in Locals
      /\ owes \in [Job -> SUBSET Doc]
  BY TypeParts DEF IInv
<1>1. stage'[j] = to /\ \A k \in Job \ {j} : stage'[k] = stage[k]
  BY <1>0 DEF CallerMove
<1>2. ~Holds(j) /\ ~Dead(j) /\ SlotKept(j) /\ UNCHANGED <<call, run, granted>>
      /\ to \in Stage /\ to \notin HoldStage \cup {"insert", "enqueue", "retry"}
  BY DEF CallerMove
<1>3. ASSUME NEW k \in Job, Holds(k)'
      PROVE  /\ k # j /\ Holds(k) /\ ~Dead(k) /\ stage'[k] = stage[k]
             /\ status.busyOwner = k /\ status'.busyOwner = k
             /\ status'.phase = status.phase /\ status'.request = status.request
             /\ status'.tokens \subseteq status.tokens \/ status.phase = "IDLE"
  <2>1. k # j /\ Holds(k) /\ stage'[k] = stage[k]
    BY <1>1, <1>2, <1>3 DEF Holds
  <2>2. status.busyOwner = k /\ ~Dead(k)
    BY <2>1, HoldFacts
  <2> QED BY <1>2, <2>1, <2>2 DEF SlotKept
<1>4. TypeOK'
  <2>1. stage' \in [Job -> Stage]
    BY <1>0, <1>2 DEF CallerMove
  <2>2. owes' \in [Job -> SUBSET Doc]
    BY <1>0 DEF CallerMove, Failed
  <2>3. status'.phase = "IDLE" <=> status'.request = NoJob
    BY <1>2, TypeParts DEF IInv, SlotKept
  <2>4. /\ row' \in [Doc -> Row] /\ mail' \in Mail /\ status' \in Status
        /\ mine' \in [Job -> Doc \cup {NoDoc}] /\ announced' \in SUBSET Doc
    BY <1>2, CallerRows DEF CallerMove, SlotKept
  <2>5. /\ call' \in [Job -> Entry] /\ run' \in Locals
        /\ run'.finished \subseteq run'.seen /\ granted' \in [Job -> SUBSET Doc]
    BY <1>2, TypeParts DEF IInv
  <2> QED BY <2>1, <2>2, <2>3, <2>4, <2>5 DEF TypeOK, Mail, Status, Locals
<1>5. OneHolder' /\ PhaseFits'
  BY <1>3, HoldFacts DEF OneHolder, PhaseFits
<1>6. IdleWhenFree'
  BY <1>2 DEF IInv, IdleWhenFree, SlotKept
<1>7. OwnDocuments'
  <2>1. CASE OwnDocuments'
    BY <2>1
  <2>2. CASE /\ to # "persist" /\ mine' = mine
             /\ to \in EnqueueStage => stage[j] \in EnqueueStage
             /\ \/ announced' = announced
                \/ stage[j] \in EnqueueStage /\ announced' = announced \cup {mine[j]}
    <3>1. OwnDocuments
      BY DEF IInv
    <3>2. \A d \in Doc : stage[j] \notin EnqueueStage \/ d # mine[j] =>
             row'[d] = row[d] /\ (d \in announced' <=> d \in announced)
      BY <2>2, CallerRows
    <3>3. ASSUME NEW k \in Job, stage'[k] = "persist"
          PROVE  k \in status'.tokens /\ row'[mine[k]] = "none"
                 /\ mine[k] \notin announced'
      <4>1. k # j /\ stage[k] = "persist" /\ ~Dead(k)
        BY <1>1, <2>2, <3>3 DEF Dead
      <4>2. /\ k \in status.tokens /\ row[mine[k]] = "none"
            /\ mine[k] \in Doc /\ mine[k] \notin announced
        BY <3>1, <4>1 DEF OwnDocuments, EnqueueStage
      <4>3. stage[j] \in EnqueueStage => mine[k] # mine[j]
        BY <4>1, OwnFacts
      <4> QED BY <1>2, <3>2, <4>1, <4>2, <4>3 DEF SlotKept
    <3>4. ASSUME NEW d \in Doc, d > OldDocs, \A k \in Job : mine[k] # d
          PROVE  row'[d] = "none" /\ d \notin announced'
      BY <3>1, <3>2, <3>4 DEF OwnDocuments
    <3>5. \A k \in Job :
             /\ stage'[k] \in {"insert", "enqueue"} => stage[k] \in {"insert", "enqueue"}
             /\ stage'[k] \in EnqueueStage => stage[k] \in EnqueueStage
      BY <1>1, <1>2, <2>2
    <3> QED BY <2>2, <3>1, <3>3, <3>4, <3>5 DEF OwnDocuments
  <2> QED BY <2>1, <2>2 DEF CallerMove
<1>8. Requests' /\ RetryHonoured'
  <2>1. CASE mail'.manual = mail.manual /\ owes' = owes
    <3>1. \A i \in DOMAIN mail.manual : mail.manual[i] \in Job
      BY TypeParts DEF IInv, Mail
    <3>2. status'.request # NoJob =>
             status'.request \in Job /\ status'.request = status.request
      BY <1>2 DEF SlotKept, Status
    <3>3. \A k \in Job : stage[k] # "retry" => stage'[k] # "retry"
      BY <1>1, <1>2
    <3>4. Requests'
      BY <2>1, <3>1, <3>2, <3>3 DEF IInv, Requests
    <3> QED BY <2>1, <3>4 DEF IInv, RetryHonoured
  <2> QED BY <2>1 DEF CallerMove
<1>9. Owed'
  BY <1>0, CallerRows DEF CallerMove, IInv, Owed
<1>10. IdleReset'
  <2> SUFFICES ASSUME status'.phase = "RESET",
                      stage'[status'.busyOwner] # "dead"
               PROVE  status'.tokens = {}
                      /\ Unfinished' \subseteq granted'[status'.request]
    BY DEF IdleReset, Dead
  <2>1. /\ status'.busyOwner = status.busyOwner
        /\ status'.phase = status.phase /\ status'.request = status.request
        /\ status'.tokens \subseteq status.tokens
    BY <1>2 DEF SlotKept
  <2>2. status.busyOwner \in Job
    BY <1>0, <2>1 DEF IInv, IdleWhenFree, Status
  <2>3. ~Dead(status.busyOwner)
    BY <1>1, <1>2, <2>1, <2>2 DEF Dead
  <2>4. status.tokens = {} /\ Unfinished \subseteq granted[status.request]
    BY <2>1, <2>3 DEF IInv, IdleReset
  <2>5. row' = row
    BY <2>4, CallerRows
  <2> QED BY <1>2, <2>1, <2>4, <2>5 DEF Unfinished
<1>11. Ready'
  <2> SUFFICES ASSUME NEW k \in Job, Runs(k)'
               PROVE  ReadyFor(stage[k])' /\ AnswersFor(stage[k])'
    BY DEF Ready
  <2>1. Holds(k)' /\ Runs(k)
    <3>1. Holds(k)'
      BY DEF Runs, Holds, HoldStage
    <3> QED BY <1>3, <3>1 DEF Runs
  <2>2. /\ ReadyFor(stage[k]) /\ AnswersFor(stage[k])
        /\ status.phase \in PhaseAt(stage[k])
    BY <2>1, RunFacts
  <2>3. /\ k # j /\ stage'[k] = stage[k] /\ run' = run
        /\ status'.request = status.request /\ status'.phase = status.phase
        /\ status'.tokens \subseteq status.tokens \/ status.phase = "IDLE"
    BY <1>2, <1>3, <2>1
  <2>4. AnswersFor(stage[k])'
    BY <2>2, <2>3 DEF AnswersFor
  <2>5. stage[k] = "beginDrain" => run.request # NoJob /\ stage'[run.request] # "retry"
    <3>1. stage[k] = "beginDrain" => run.request \in Job /\ run.request # NoJob
                                     /\ stage[run.request] # "retry"
      BY <1>0, <2>2 DEF ReadyFor, Locals
    <3> QED BY <1>1, <1>2, <3>1
  <2>6. stage[k] \in {"confirm", "enterReset"} => status'.tokens = {} /\ row' = row
    BY <2>2, <2>3, CallerRows DEF ReadyFor, PhaseAt
  <2>7. stage[k] \in {"reset", "ack"} =>
           /\ run.request = status.request
           /\ owes'[run.request] = owes[run.request]
    <3> SUFFICES ASSUME stage[k] \in {"reset", "ack"}
                 PROVE  /\ run.request = status.request
                        /\ owes'[run.request] = owes[run.request]
      OBVIOUS
    <3>1. run.request = status.request /\ status.phase = "RESET"
      BY <2>2 DEF ReadyFor, PhaseAt
    <3>2. /\ status.request # NoJob /\ status.request \in Job
          /\ stage[status.request] # "retry"
      BY <1>0, <3>1, TypeParts DEF IInv, Requests, Status
    <3> QED BY <1>0, <3>1, <3>2 DEF CallerMove
  <2>8. ReadyFor(stage[k])'
    <3>1. stage[k] \in {"top", "validate"} => run.todo \subseteq Unfinished'
      BY <2>2, CallerRows DEF ReadyFor
    <3>2. stage[k] = "enterReset" => Unfinished' = {}
      BY <2>2, <2>6 DEF ReadyFor, Unfinished
    <3>3. stage[k] \in {"batch", "decide", "fetchPage", "wait"} => run.todo = {}
      BY <2>2 DEF ReadyFor
    <3>4. /\ stage[k] = "reset" => \A d \in owes'[run.request] : run.cursor < d
          /\ stage[k] = "ack" => owes'[run.request] = {}
      BY <2>2, <2>7 DEF ReadyFor
    <3> QED BY <2>3, <2>5, <2>6, <2>7, <3>1, <3>2, <3>3, <3>4 DEF ReadyFor
  <2> QED BY <2>4, <2>8
<1> QED BY <1>4, <1>5, <1>6, <1>7, <1>8, <1>9, <1>10, <1>11 DEF IInv

\* Reconciling takes nothing from the living.
LEMMA ReapKept ==
    ASSUME IInv, NEW j \in Job, status' = Reap(status)
    PROVE  SlotKept(j)
BY ReapSpares, TypeParts DEF IInv, SlotKept

\* What a step has to show that leaves doc_status and the requests alone.
LEMMA CallerStays ==
    ASSUME IInv, NEW j \in Job, NEW to,
           stage[j] \in Entry \cup EnqueueStage \cup {"drive"},
           to \in {"done", "drive", "dead"} \cup (EnqueueStage \ {"persist"}),
           to \in EnqueueStage => stage[j] \in EnqueueStage,
           stage' = [stage EXCEPT ![j] = to],
           UNCHANGED <<call, mine, run, owes, granted>>,
           \/ row' = row
           \/ stage[j] = "persist" /\ row' = [row EXCEPT ![mine[j]] = "PENDING"],
           \/ announced' = announced
           \/ stage[j] \in EnqueueStage /\ announced' = announced \cup {mine[j]},
           mail' \in Mail, mail'.manual = mail.manual,
           SlotKept(j)
    PROVE  IInv'
<1>1. ~Holds(j) /\ ~Dead(j)
  BY DEF Holds, Dead, HoldStage, Entry, EnqueueStage, RunStage, FetchStage
<1>2. to \in Stage /\ to \notin HoldStage \cup {"insert", "enqueue", "retry"}
      /\ to # "persist"
  BY DEF Stage, HoldStage, EnqueueStage, RunStage, FetchStage
<1>3. mine \in [Job -> Doc \cup {NoDoc}] /\ announced \in SUBSET Doc
  BY TypeParts DEF IInv
<1>4. announced' \in SUBSET Doc
  BY <1>3, OwnFacts
<1>5. CallerMove(j, to)
  BY <1>1, <1>2, <1>3, <1>4 DEF CallerMove
<1> QED BY <1>5, CallerMoveInv

\* A call that is turned away.
LEMMA RefusedInv ==
    ASSUME IInv, NEW j \in Job,
           \/ Drive(j) /\ Reap(status).busyOwner # NoJob
           \/ TakeSlot(j) /\ stage'[j] = "done"
           \/ Reserve(j) /\ stage'[j] = "done"
           \/ CommitRetry(j) /\ stage'[j] = "done"
    PROVE  IInv'
<1>0. stage \in [Job -> Stage] /\ mail \in Mail
  BY TypeParts DEF IInv
<1>1. /\ stage[j] \in {"drive", "sdkDelete", "delete", "insert", "enqueue", "retry"}
      /\ stage' = [stage EXCEPT ![j] = "done"] /\ status' = Reap(status)
      /\ UNCHANGED <<row, call, mine, run, announced, owes, granted>>
      /\ mail' = mail \/ mail' = [mail EXCEPT !.auto = TRUE]
  <2>1. CASE Drive(j) /\ Reap(status).busyOwner # NoJob
    BY <2>1 DEF Drive, Step, history
  <2>2. CASE TakeSlot(j) /\ stage'[j] = "done"
    BY <1>0, <2>2 DEF TakeSlot, Step, history
  <2>3. CASE Reserve(j) /\ stage'[j] = "done"
    BY <1>0, <2>3 DEF Reserve, history
  <2>4. CASE CommitRetry(j) /\ stage'[j] = "done"
    BY <1>0, <2>4 DEF CommitRetry, Step
  <2> QED BY <2>1, <2>2, <2>3, <2>4
<1>2. mail' \in Mail /\ mail'.manual = mail.manual
  BY <1>0, <1>1 DEF Mail
<1> QED BY <1>1, <1>2, ReapKept, CallerStays DEF Entry, EnqueueStage

\* An enqueue that gets its token.
LEMMA ReserveInv ==
    ASSUME IInv, NEW j \in Job, Reserve(j), stage'[j] # "done"
    PROVE  IInv'
<1>0. /\ stage \in [Job -> Stage] /\ mine \in [Job -> Doc \cup {NoDoc}]
      /\ status \in Status /\ mail \in Mail /\ announced \in SUBSET Doc
  BY TypeParts DEF IInv
<1>1. PICK d \in Doc :
         /\ d > OldDocs /\ \A k \in Job : mine[k] # d
         /\ mine' = [mine EXCEPT ![j] = d]
  BY <1>0 DEF Reserve
<1>2. /\ stage[j] \in {"insert", "enqueue"}
      /\ stage' = [stage EXCEPT ![j] = "persist"]
      /\ status' = [Reap(status) EXCEPT !.tokens = @ \cup {j}]
      /\ Reap(status).phase = "IDLE"
      /\ UNCHANGED <<row, call, mail, run, announced, owes, granted>>
  BY <1>0 DEF Reserve, history
<1>3. /\ status' \in Status /\ status'.phase = "IDLE"
      /\ status'.tokens = {t \in status.tokens : ~Dead(t)} \cup {j}
      /\ status'.busyOwner = Reap(status).busyOwner
      /\ status'.request = Reap(status).request
  BY <1>0, <1>2, ReapSpares DEF Status
<1>4. SlotKept(j)
  BY <1>0, <1>2, <1>3, ReapSpares DEF SlotKept
<1>5. OwnDocuments
  BY DEF IInv
<1>6. OwnDocuments'
  <2>1. mine[j] = NoDoc /\ mine'[j] = d /\ \A k \in Job \ {j} : mine'[k] = mine[k]
    BY <1>0, <1>1, <1>2, <1>5 DEF OwnDocuments
  <2>2. stage'[j] = "persist" /\ \A k \in Job \ {j} : stage'[k] = stage[k]
    BY <1>0, <1>2
  <2>3. \A i, k \in Job : mine'[i] = mine'[k] /\ mine'[i] # NoDoc => i = k
    BY <1>1, <1>5, <2>1 DEF OwnDocuments
  <2>4. \A k \in Job : /\ stage'[k] \in {"insert", "enqueue"} => mine'[k] = NoDoc
                       /\ stage'[k] \in EnqueueStage => mine'[k] \in Doc
    BY <1>5, <2>1, <2>2 DEF OwnDocuments
  <2>5. ASSUME NEW k \in Job, stage'[k] = "persist"
        PROVE  k \in status'.tokens /\ row'[mine'[k]] = "none"
               /\ mine'[k] \notin announced'
    <3>1. CASE k = j
      BY <1>1, <1>2, <1>3, <1>5, <2>1, <3>1 DEF OwnDocuments
    <3>2. CASE k # j
      <4>1. stage[k] = "persist" /\ ~Dead(k) /\ mine'[k] = mine[k]
        BY <2>1, <2>2, <2>5, <3>2 DEF Dead
      <4> QED BY <1>2, <1>3, <1>5, <4>1 DEF OwnDocuments
    <3> QED BY <3>1, <3>2
  <2>6. ASSUME NEW e \in Doc, e > OldDocs, \A k \in Job : mine'[k] # e
        PROVE  row'[e] = "none" /\ e \notin announced'
    <3>1. e # NoDoc
      BY RunAssumption DEF Doc, NoDoc
    <3>2. \A k \in Job : mine[k] # e
      BY <2>1, <2>6, <3>1
    <3> QED BY <1>2, <1>5, <2>6, <3>2 DEF OwnDocuments
  <2> QED BY <2>3, <2>4, <2>5, <2>6 DEF OwnDocuments
<1>7. ~Holds(j) /\ ~Dead(j)
  BY <1>2 DEF Holds, Dead, HoldStage, RunStage, FetchStage
<1>8. "persist" \in Stage
      /\ "persist" \notin HoldStage \cup {"insert", "enqueue", "retry"}
  BY DEF Stage, EnqueueStage, HoldStage, RunStage, FetchStage
<1>9. mine' \in [Job -> Doc \cup {NoDoc}] /\ announced' \in SUBSET Doc
      /\ mail' \in Mail
  BY <1>0, <1>1, <1>2
<1>10. CallerMove(j, "persist")
  BY <1>2, <1>4, <1>6, <1>7, <1>8, <1>9 DEF CallerMove
<1> QED BY <1>10, CallerMoveInv

\* The steps of an enqueue after its reservation, the call that cancels a run,
\* and a kill of a call that does not hold the slot.
LEMMA EnqueueInv ==
    ASSUME IInv, NEW j \in Job,
           \/ Persist(j) \/ Rearm(j) \/ Release(j) \/ Publish(j) \/ Cancel(j)
           \/ /\ Abort(j) /\ stage[j] \in {"persist", "publish", "drive"}
           \/ /\ Crash(j) /\ ~Holds(j)
    PROVE  IInv'
<1>0. /\ stage \in [Job -> Stage] /\ status \in Status /\ mail \in Mail
  BY TypeParts DEF IInv
<1>1. status' = status => SlotKept(j)
  BY <1>0 DEF SlotKept
<1> USE DEF Step, history, Entry, EnqueueStage
<1>2. CASE Persist(j)
  <2>1. /\ stage[j] = "persist"
        /\ UNCHANGED <<call, mine, run, announced, owes, granted, mail, status>>
        /\ row' = row \/ row' = [row EXCEPT ![mine[j]] = "PENDING"]
    BY <1>2 DEF Persist
  <2>2. PICK to \in {"release", "rearm"} : stage' = [stage EXCEPT ![j] = to]
    BY <1>2 DEF Persist
  <2> QED BY <1>0, <1>1, <2>1, <2>2, CallerStays
<1>3. CASE Rearm(j)
  <2>1. /\ stage[j] = "rearm"
        /\ UNCHANGED <<row, call, mine, run, owes, granted, status>>
        /\ announced' = announced \cup {mine[j]}
        /\ mail' = [mail EXCEPT !.auto = TRUE]
    BY <1>3 DEF Rearm
  <2>2. PICK to \in {"releaseDrive", "releaseDone"} : stage' = [stage EXCEPT ![j] = to]
    BY <1>3 DEF Rearm
  <2>3. mail' \in Mail /\ mail'.manual = mail.manual
    BY <1>0, <2>1 DEF Mail
  <2> QED BY <1>0, <1>1, <2>1, <2>2, <2>3, CallerStays
<1>4. CASE Release(j)
  <2>1. /\ stage[j] \in {"release", "releaseDrive", "releaseDone"}
        /\ UNCHANGED <<row, call, mail, mine, run, announced, owes, granted>>
        /\ status' = [status EXCEPT !.tokens = @ \ {j}]
    BY <1>4 DEF Release
  <2>2. PICK to \in {"publish", "drive", "done"} : stage' = [stage EXCEPT ![j] = to]
    BY <1>4 DEF Release
  <2>3. SlotKept(j)
    BY <1>0, <2>1 DEF SlotKept, Status
  <2> QED BY <1>0, <2>1, <2>2, <2>3, CallerStays
<1>5. CASE Publish(j)
  <2>1. /\ stage[j] = "publish" /\ mail' \in Put(mail, {mine[j]})
        /\ UNCHANGED <<row, call, mine, run, owes, granted, status>>
        /\ announced' = announced \cup {mine[j]}
    BY <1>5 DEF Publish
  <2>2. PICK to \in {"drive", "done"} : stage' = [stage EXCEPT ![j] = to]
    BY <1>5 DEF Publish
  <2>3. {mine[j]} \in SUBSET Doc
    BY <2>1, OwnFacts
  <2>4. mail' \in Mail /\ mail'.manual = mail.manual
    BY <1>0, <2>1, <2>3, PutAnnounces
  <2> QED BY <1>0, <1>1, <2>1, <2>2, <2>4, CallerStays
<1>6. CASE Cancel(j)
  <2>1. /\ stage[j] = "cancel" /\ stage' = [stage EXCEPT ![j] = "done"]
        /\ UNCHANGED <<row, call, mail, mine, run, announced, owes, granted>>
        /\ status' = [status EXCEPT !.cancel = @ \/ status.busyOwner # NoJob]
    BY <1>6 DEF Cancel
  <2>2. (status.cancel \/ status.busyOwner # NoJob) \in BOOLEAN
    OBVIOUS
  <2>3. SlotKept(j)
    BY <1>0, <2>1, <2>2 DEF SlotKept, Status
  <2> QED BY <1>0, <2>1, <2>3, CallerStays
<1>7. CASE Abort(j) /\ stage[j] \in {"persist", "publish", "drive"}
  <2>1. /\ UNCHANGED <<call, mine, run, announced, owes, granted, mail, status>>
        /\ \/ row' = row
           \/ stage[j] = "persist" /\ row' = [row EXCEPT ![mine[j]] = "PENDING"]
    BY <1>7 DEF Abort, RunStage, FetchStage
  <2>2. PICK to \in {"releaseDone", "done"} :
           /\ stage' = [stage EXCEPT ![j] = to]
           /\ to = "releaseDone" => stage[j] = "persist"
    BY <1>7 DEF Abort, RunStage, FetchStage
  <2> QED BY <1>0, <1>1, <1>7, <2>1, <2>2, CallerStays
<1>8. CASE Crash(j) /\ ~Holds(j)
  <2>1. /\ stage' = [stage EXCEPT ![j] = "dead"]
        /\ stage[j] \in EnqueueStage \cup {"drive"}
        /\ UNCHANGED <<row, mail, status, call, mine, run, announced, owes, granted>>
    BY <1>8 DEF Crash, Holds, HoldStage
  <2> QED BY <1>0, <1>1, <2>1, CallerStays
<1> QED BY <1>2, <1>3, <1>4, <1>5, <1>6, <1>7, <1>8

\* A request that is accepted goes behind the others and owes what is FAILED.
LEMMA CommitRetryInv ==
    ASSUME IInv, NEW j \in Job, CommitRetry(j), stage'[j] # "done"
    PROVE  IInv'
<1>0. /\ stage \in [Job -> Stage] /\ mail \in Mail /\ status \in Status
      /\ owes \in [Job -> SUBSET Doc] /\ mine \in [Job -> Doc \cup {NoDoc}]
      /\ announced \in SUBSET Doc
  BY TypeParts DEF IInv
<1>1. /\ stage[j] = "retry" /\ stage' = [stage EXCEPT ![j] = "drive"]
      /\ status' = Reap(status)
      /\ mail' = [mail EXCEPT !.manual = Append(@, j)]
      /\ owes' = [owes EXCEPT ![j] = Failed]
      /\ UNCHANGED <<row, call, mine, run, announced, granted>>
  BY <1>0 DEF CommitRetry, Step
<1>2. mail.manual \in Seq(Job) /\ Requests /\ RetryHonoured
  BY <1>0 DEF Mail, IInv
<1>3. mail' \in Mail /\ mail'.manual = Append(mail.manual, j)
  <2>1. Append(mail.manual, j) \in Seq(Job)
    BY <1>2
  <2> QED BY <1>0, <1>1, <2>1 DEF Mail
<1>4. /\ DOMAIN mail'.manual = 1..Len(mail.manual) + 1
      /\ DOMAIN mail.manual = 1..Len(mail.manual) /\ Len(mail.manual) \in Nat
      /\ mail'.manual[Len(mail.manual) + 1] = j
      /\ \A i \in DOMAIN mail.manual : mail'.manual[i] = mail.manual[i]
  BY <1>2, <1>3
<1>5. \A i \in DOMAIN mail.manual : mail.manual[i] # j /\ mail.manual[i] \in Job
  BY <1>1, <1>2 DEF Requests
<1>6. \A i \in DOMAIN mail'.manual : i \in DOMAIN mail.manual \/ i = Len(mail.manual) + 1
  BY <1>4
<1>7. SlotKept(j)
  BY <1>1, ReapKept
<1>8. Requests'
  <2>1. \A i, k \in DOMAIN mail'.manual : mail'.manual[i] = mail'.manual[k] => i = k
    BY <1>2, <1>4, <1>5, <1>6 DEF Requests
  <2>2. \A i \in DOMAIN mail'.manual : stage'[mail'.manual[i]] # "retry"
    BY <1>0, <1>1, <1>2, <1>4, <1>5, <1>6 DEF Requests
  <2>3. status'.request # NoJob =>
           status'.request \in Job /\ status'.request = status.request
    BY <1>7 DEF SlotKept, Status
  <2>4. status'.request # NoJob => stage'[status'.request] # "retry"
    BY <1>0, <1>1, <1>2, <2>3 DEF Requests
  <2> QED BY <2>1, <2>2, <2>4 DEF Requests
<1>9. RetryHonoured'
  <2> SUFFICES ASSUME NEW r \in Job, \A i \in DOMAIN mail'.manual : mail'.manual[i] # r
               PROVE  owes'[r] = {}
    BY DEF RetryHonoured
  <2>1. r # j /\ owes'[r] = owes[r]
    <3>1. Len(mail.manual) + 1 \in DOMAIN mail'.manual
      BY <1>4
    <3> QED BY <1>0, <1>1, <1>4, <3>1
  <2>2. \A i \in DOMAIN mail.manual : mail.manual[i] # r
    <3>1. \A i \in DOMAIN mail.manual : i \in DOMAIN mail'.manual
      BY <1>4
    <3> QED BY <1>4, <3>1
  <2> QED BY <1>2, <2>1, <2>2 DEF RetryHonoured
<1>10. /\ ~Holds(j) /\ ~Dead(j) /\ "drive" \in Stage
       /\ "drive" \notin HoldStage \cup {"insert", "enqueue", "retry"}
       /\ "drive" # "persist" /\ "drive" \notin EnqueueStage
  BY <1>1 DEF Holds, Dead, HoldStage, Stage, EnqueueStage, RunStage, FetchStage
<1>11. CallerMove(j, "drive")
  BY <1>0, <1>1, <1>3, <1>7, <1>8, <1>9, <1>10 DEF CallerMove
<1> QED BY <1>11, CallerMoveInv

-----------------------------------------------------------------------------
(* The invariant                                                           *)

\* The invariant holds in the initial states,
LEMMA InitIInv == Init => IInv
<1> SUFFICES ASSUME Init PROVE IInv
  OBVIOUS
<1>1. /\ row \in [Doc -> {"none", "FAILED", "ACTIVE"}]
      /\ \A d \in Doc : row[d] = "none" <=> d > OldDocs
      /\ mail = [documents |-> {}, auto |-> FALSE, manual |-> <<>>]
      /\ status = [busyOwner |-> NoJob, destructive |-> FALSE, phase |-> "IDLE",
                   request |-> NoJob, cancel |-> FALSE, tokens |-> {}]
      /\ call \in [Job -> Calls] /\ stage = call
      /\ mine = [j \in Job |-> NoDoc] /\ run = NewRun /\ announced = {}
      /\ owes = [r \in Job |-> {}] /\ granted = [r \in Job |-> {}]
  BY DEF Init
<1>2. \A j \in Job : stage[j] \in Entry
  BY <1>1, RunAssumption
<1>3. \A j \in Job : ~Holds(j) /\ ~Runs(j) /\ stage[j] \notin EnqueueStage
  BY <1>2 DEF Holds, Runs, HoldStage, Entry, EnqueueStage, RunStage, FetchStage
<1>4. mail \in Mail /\ mail.manual = <<>>
  BY <1>1 DEF Mail
<1>5. /\ status \in Status /\ status.busyOwner = NoJob /\ status.phase = "IDLE"
      /\ status.request = NoJob /\ status.tokens = {}
  BY <1>1 DEF Status
<1>6. TypeOK
  <2>1. row \in [Doc -> Row]
    BY <1>1 DEF Row
  <2>2. call \in [Job -> Entry] /\ stage \in [Job -> Stage]
    BY <1>1, RunAssumption DEF Stage
  <2>3. mine \in [Job -> Doc \cup {NoDoc}] /\ announced \in SUBSET Doc
        /\ owes \in [Job -> SUBSET Doc] /\ granted \in [Job -> SUBSET Doc]
    BY <1>1
  <2> QED BY <1>1, <1>4, <1>5, <2>1, <2>2, <2>3, NewRunFacts, TypeParts
<1>7. OneHolder /\ IdleWhenFree /\ PhaseFits /\ IdleReset /\ Ready
  BY <1>3, <1>5 DEF OneHolder, IdleWhenFree, PhaseFits, IdleReset, Ready
<1>8. OwnDocuments
  BY <1>1, <1>3 DEF OwnDocuments, EnqueueStage
<1>9. Requests /\ Owed /\ RetryHonoured
  BY <1>1, <1>4, <1>5 DEF Requests, Owed, RetryHonoured
<1> QED BY <1>6, <1>7, <1>8, <1>9 DEF IInv

\* is preserved when nothing happens,
LEMMA StutterIInv ==
    ASSUME IInv, UNCHANGED vars PROVE IInv'
<1> USE DEF vars, history
<1>1. UNCHANGED <<row, mail, status, call, stage, mine, run, announced, owes, granted>>
  OBVIOUS
<1>2. TypeOK'
  BY <1>1 DEF IInv, TypeOK
<1>3. (OneHolder /\ IdleWhenFree /\ PhaseFits /\ Owed /\ RetryHonoured /\ IdleReset)'
  BY <1>1 DEF IInv, OneHolder, IdleWhenFree, PhaseFits, Owed, RetryHonoured,
              IdleReset, Holds, Dead, Failed, Unfinished
<1>4. OwnDocuments'
  BY <1>1 DEF IInv, OwnDocuments
<1>5. Requests'
  BY <1>1 DEF IInv, Requests
<1>6. Ready'
  BY <1>1 DEF IInv, Ready, Runs, ReadyFor, AnswersFor, Unfinished
<1> QED BY <1>2, <1>3, <1>4, <1>5, <1>6 DEF IInv

\* and by every step.
LEMMA NextIInv ==
    ASSUME IInv, Next PROVE IInv'
<1>1. PICK j \in Job : Advance(j) \/ Feeder(j) \/ Accident(j)
  BY DEF Next
<1>2. CASE Reserve(j) \/ CommitRetry(j) \/ Drive(j) \/ TakeSlot(j)
  <2>1. TakeSlot(j) => stage'[j] \in {"done", "sdkDeleting", "deleting"}
    BY TypeParts DEF IInv, TakeSlot, Step
  <2> QED BY <1>2, <2>1, RefusedInv, ReserveInv, CommitRetryInv, DriveTakesInv,
             TakeSlotTakesInv
<1>3. CASE Persist(j) \/ Rearm(j) \/ Release(j) \/ Publish(j) \/ Cancel(j)
  BY <1>3, EnqueueInv
<1>4. CASE GiveBack(j) \/ Handoff(j) \/ Final(j)
  BY <1>4, GiveBackInv, RunEndsInv
<1>5. CASE Decide(j)
  BY <1>5, RunEndsInv, DecideInv
<1>6. CASE \/ Start(j) \/ BeginDrain(j) \/ Sweep(j) \/ Top(j) \/ Validate(j)
           \/ BatchJoined(j) \/ FeederStop(j) \/ BatchDone(j)
           \/ FetchPage(j) \/ FetchAuto(j) \/ FetchDocuments(j) \/ Rescan(j)
  BY <1>6, StartInv, BeginDrainInv, SweepInv, CancelFlagInv, ValidateInv,
     BatchEndInv, FetchDocumentsInv
<1>7. CASE \/ Wait(j) \/ Confirm(j) \/ EnterReset(j) \/ ResetPage(j) \/ Ack(j)
           \/ EndDrain(j) \/ \E d \in Doc : StartDoc(j, d) \/ FinishDoc(j, d)
  BY <1>7, WaitInv, ConfirmInv, EnterResetInv, ResetPageInv, AckInv, EndDrainInv,
     WorkerInv
<1>8. CASE Feeder(j) \/ InternalError(j) \/ LostDecision(j)
  BY <1>8, FeederInv, CancelFlagInv, LostDecisionInv
<1>9. CASE Crash(j)
  BY <1>9, HolderCrashInv, EnqueueInv
<1>10. CASE Abort(j)
  <2>1. CASE stage[j] \in RunStage \ {"final"}
    <3>1. stage[j] \notin {"persist", "publish", "drive"}
      BY <2>1 DEF RunStage, FetchStage
    <3>2. /\ stage' = [stage EXCEPT ![j] = "final"] /\ mail' \in Compensated(j)
          /\ run' = [run EXCEPT !.held = {}, !.deferred = {}, !.feeder = "off"]
          /\ UNCHANGED <<row, status, call, mine, history>>
      BY <1>10, <3>1 DEF Abort, Step
    <3> QED BY <2>1, <3>2, RunAbortInv DEF Runs
  <2>2. CASE stage[j] \notin RunStage \ {"final"}
    <3>1. stage[j] \in {"persist", "publish", "drive"}
      BY <1>10, <2>2 DEF Abort, Step
    <3> QED BY <1>10, <3>1, EnqueueInv
  <2> QED BY <2>1, <2>2
<1> QED BY <1>1, <1>2, <1>3, <1>4, <1>5, <1>6, <1>7, <1>8, <1>9, <1>10
        DEF Advance, Accident

\* The inductive invariant of the processing run.
THEOREM Invariance == Spec => []IInv
<1>1. IInv /\ [Next]_vars => IInv'
  BY NextIInv, StutterIInv
<1> QED BY <1>1, InitIInv, PTL DEF Spec

\* Type correctness of the run, of the mailbox and of pipeline_status.
THEOREM TypesHold == Spec => []TypeOK
<1>1. IInv => TypeOK
  BY DEF IInv
<1> QED BY <1>1, Invariance, PTL

\* A retry request resets every document that was FAILED when it was accepted,
\* or stays in the mailbox: acknowledging it drops none, whatever is processed,
\* fails again, is enqueued, killed or asked for while the run pages through
\* doc_status (_run_manual_retry_reset, ack_manual_retry).
THEOREM RetryIsHonoured == Spec => []RetryHonoured
<1>1. IInv => RetryHonoured
  BY DEF IInv
<1> QED BY <1>1, Invariance, PTL

\* No document is reset while an enqueue is in flight or a document waits or is
\* processed that the request has not been granted (the DRAIN phase).
THEOREM ResetIsFromIdle == Spec => []ResetFromIdle
<1>1. IInv => ResetFromIdle
  BY DEF IInv, IdleReset, ResetFromIdle
<1> QED BY <1>1, Invariance, PTL

-----------------------------------------------------------------------------
(* No signal is put out                                                    *)

\* A signal that is lit is in the mailbox or carried by the holder of the slot.
LEMMA SoleRunner ==
    ASSUME IInv, NEW j \in Job, Holds(j), NEW d, Lit(d)
    PROVE  d \in mail.documents \/ mail.auto \/ (Runs(j) /\ Carries(j, d))
<1>1. ASSUME NEW k \in Job, Runs(k) PROVE k = j
  <2>1. Holds(k)
    BY <1>1 DEF Runs, Holds, HoldStage
  <2> QED BY <2>1, HoldFacts
<1> QED BY <1>1 DEF Lit

\* The steps of a call that is not running: they only add to the mailbox.
LEMMA CallerLit ==
    ASSUME IInv, NEW j \in Job, ~Runs(j), NEW to,
           stage' = [stage EXCEPT ![j] = to], UNCHANGED run,
           mail.documents \subseteq mail'.documents, mail.auto => mail'.auto,
           NEW d, Lit(d)
    PROVE  Lit(d)'
<1>1. stage \in [Job -> Stage]
  BY TypeParts DEF IInv
<1>2. \A k \in Job : Runs(k) => stage'[k] = stage[k]
  BY <1>1
<1> QED BY <1>2 DEF Lit, Runs, Carries, RestOfSweep

\* The steps of a call that does not run, and of a deletion.
LEMMA CallerRelays ==
    ASSUME IInv, NEW j \in Job,
           \/ Reserve(j) \/ Persist(j) \/ Rearm(j) \/ Release(j) \/ Publish(j)
           \/ CommitRetry(j) \/ TakeSlot(j) \/ GiveBack(j) \/ Cancel(j)
           \/ Abort(j) /\ stage[j] \in {"persist", "publish", "drive"}
           \/ Drive(j) /\ Reap(status).busyOwner # NoJob
    PROVE  Relays
<1>0. /\ stage \in [Job -> Stage] /\ mail \in Mail /\ row \in [Doc -> Row]
      /\ announced \in SUBSET Doc
  BY TypeParts DEF IInv
<1>1. stage[j] \in Entry \cup EnqueueStage \cup {"drive", "sdkDeleting", "deleting"}
  BY DEF Reserve, Persist, Rearm, Release, Publish, CommitRetry, TakeSlot,
     GiveBack, Cancel, Drive, Step, Entry, EnqueueStage
<1>2. ~Runs(j) /\ UNCHANGED run
  BY <1>1 DEF Runs, RunStage, FetchStage, Entry, EnqueueStage, Reserve, Persist,
     Rearm, Release, Publish, CommitRetry, TakeSlot, GiveBack, Cancel, Abort, Drive,
     Step
<1>3. \E to : stage' = [stage EXCEPT ![j] = to]
  BY <1>1 DEF Reserve, Persist, Rearm, Release, Publish, CommitRetry, TakeSlot,
     GiveBack, Cancel, Abort, Drive, Step, Entry, EnqueueStage
<1>4. /\ \/ row' = row
         \/ stage[j] = "persist" /\ row' = [row EXCEPT ![mine[j]] = "PENDING"]
      /\ \/ announced' = announced
         \/ Rearm(j) \/ Publish(j)
      /\ \/ mail' = mail \/ Rearm(j) \/ Publish(j)
         \/ mail' = [mail EXCEPT !.manual = Append(@, j)]
         \/ mail' = [mail EXCEPT !.auto = TRUE]
  <2> USE DEF Step, history
  <2>1. CASE Reserve(j) \/ Release(j) \/ TakeSlot(j) \/ GiveBack(j) \/ Cancel(j)
    BY <2>1 DEF Reserve, Release, TakeSlot, GiveBack, Cancel
  <2>2. CASE Persist(j)
    BY <2>2 DEF Persist
  <2>3. CASE CommitRetry(j)
    BY <2>3 DEF CommitRetry
  <2>4. CASE Drive(j) /\ Reap(status).busyOwner # NoJob
    BY <2>4 DEF Drive
  <2>5. CASE Abort(j) /\ stage[j] \in {"persist", "publish", "drive"}
    BY <2>5 DEF Abort, RunStage, FetchStage
  <2>6. CASE Rearm(j) \/ Publish(j)
    BY <2>6 DEF Rearm, Publish
  <2> QED BY <2>1, <2>2, <2>3, <2>4, <2>5, <2>6
<1>5. /\ Rearm(j) => /\ stage[j] = "rearm" /\ mail' = [mail EXCEPT !.auto = TRUE]
                     /\ announced' = announced \cup {mine[j]}
      /\ Publish(j) => /\ stage[j] = "publish" /\ mail' \in Put(mail, {mine[j]})
                       /\ announced' = announced \cup {mine[j]}
  BY DEF Rearm, Publish, Step
<1>6. /\ mail.documents \subseteq mail'.documents
      /\ mail.auto => mail'.auto
      /\ Rearm(j) => mail'.auto
      /\ Publish(j) => mine[j] \in mail'.documents \/ mail'.auto
  <2>1. CASE Publish(j)
    <3>1. mine[j] \in Doc /\ ~Rearm(j)
      BY <1>5, <2>1, OwnFacts DEF EnqueueStage
    <3> QED BY <1>0, <1>5, <2>1, <3>1, PutAnnounces
  <2>2. CASE ~Publish(j)
    BY <1>0, <1>4, <1>5, <2>2 DEF Mail
  <2> QED BY <2>1, <2>2
<1> SUFFICES ASSUME NEW d \in announced' \cap Unfinished', ~Lit(d)'
             PROVE  d \in announced \cap Unfinished /\ ~Lit(d)
  BY DEF Relays
<1>7. ~Lit(d)
  BY <1>2, <1>3, <1>6, CallerLit
<1>8. d \in announced
  BY <1>4, <1>5, <1>6 DEF Lit
<1>9. row'[d] = row[d]
  <2>1. CASE stage[j] = "persist"
    <3>1. mine[j] \notin announced
      BY <2>1 DEF IInv, OwnDocuments
    <3> QED BY <1>0, <1>4, <1>8, <3>1
  <2> QED BY <1>4, <2>1
<1> QED BY <1>7, <1>8, <1>9 DEF Unfinished

\* The run that takes the slot finds nobody else's signals.
LEMMA TakeRelays ==
    ASSUME IInv, NEW j \in Job,
           Handoff(j) \/ (Drive(j) /\ Reap(status).busyOwner = NoJob)
    PROVE  Relays
<1>1. UNCHANGED <<row, mail, announced>>
  BY DEF Handoff, Drive, history
<1>2. \A k \in Job : ~Runs(k)
  <2>1. CASE Handoff(j)
    <3>1. Holds(j) /\ ~Runs(j)
      BY <2>1 DEF Handoff, Step, Holds, HoldStage, Runs, RunStage, FetchStage
    <3>2. \A k \in Job : Holds(k) => k = j
      BY <3>1, HoldFacts
    <3> QED BY <3>1, <3>2 DEF Runs, Holds, HoldStage
  <2>2. CASE Drive(j) /\ Reap(status).busyOwner = NoJob
    BY <2>2, FreeSlot DEF Runs, Holds, HoldStage
  <2> QED BY <2>1, <2>2
<1> QED BY <1>1, <1>2 DEF Relays, Lit, Unfinished

\* What a run has to show that leaves doc_status and the announcements alone,
\* or takes some over.
LEMMA RunRelays ==
    ASSUME IInv, NEW j \in Job, Runs(j), NEW to,
           stage' = [stage EXCEPT ![j] = to],
           \A d \in announced' : d \in announced /\ (d \in Unfinished' => d \in Unfinished),
           \A d \in announced' \cap Unfinished' :
              d \in mail.documents \/ mail.auto \/ Carries(j, d) =>
                 \/ d \in mail'.documents \/ mail'.auto
                 \/ to \in RunStage /\ Carries(j, d)'
    PROVE  Relays
<1>1. stage'[j] = to /\ Holds(j)
  BY RunFacts
<1>2. \A d : to \in RunStage /\ Carries(j, d)' => Lit(d)'
  BY <1>1 DEF Lit, Runs
<1>3. \A d : d \in mail'.documents \/ mail'.auto => Lit(d)'
  BY DEF Lit
<1> QED BY <1>1, <1>2, <1>3, SoleRunner DEF Relays

\* The steps in which the run moves on with what it has.
LEMMA SameRelays ==
    ASSUME IInv, NEW j \in Job, Runs(j), NEW to \in RunStage,
           stage[j] \notin {"fetchAuto", "rescan"},
           stage' = [stage EXCEPT ![j] = to],
           \A d \in announced' : d \in announced /\ (d \in Unfinished' => d \in Unfinished),
           mail'.documents = mail.documents, mail'.auto = mail.auto,
           run.wake => run'.wake, to \in {"top", "validate"} =>
              ~run.wake \/ stage[j] \in {"top", "validate"},
           stage[j] \notin ResetStage =>
              /\ to \notin ResetStage
              /\ run'.todo = run.todo /\ run'.cursor = run.cursor,
           run'.held = run.held, run'.deferred = run.deferred
    PROVE  Relays
<1>1. stage'[j] = to
  BY RunFacts
<1>2. stage[j] \notin ResetStage => RestOfSweep' = RestOfSweep
  BY DEF RestOfSweep
<1>3. \A d : Carries(j, d) => Carries(j, d)'
  BY <1>1, <1>2 DEF Carries
<1> QED BY <1>3, RunRelays

\* The steps of a run that touch neither the mailbox nor what it carries.
LEMMA PlainRelays ==
    ASSUME IInv, NEW j \in Job,
           \/ BeginDrain(j) \/ Top(j) \/ InternalError(j) \/ BatchJoined(j)
           \/ BatchDone(j) \/ ResetPage(j) \/ Ack(j)
           \/ Decide(j) /\ (DecideCancelled(j) \/ DecideManual(j) \/ DecideDrained(j))
           \/ \E d \in Doc : StartDoc(j, d) \/ FinishDoc(j, d)
    PROVE  Relays
<1> USE DEF Step, At, history
<1>0. /\ stage[j] \in {"beginDrain", "top", "batch", "reset", "ack", "decide"}
      /\ Runs(j)
  BY DEF BeginDrain, Top, InternalError, BatchJoined, BatchDone,
     ResetPage, Ack, DecideCancelled, DecideManual, DecideDrained, StartDoc,
     FinishDoc, Runs, RunStage
<1>1. run \in Locals /\ mail \in Mail /\ row \in [Doc -> Row]
      /\ stage \in [Job -> Stage]
  BY <1>0, RunFacts
<1>2. PICK to \in RunStage : stage' = [stage EXCEPT ![j] = to]
  <2>1. CASE stage' = stage
    BY <1>0, <1>1, <2>1 DEF Runs
  <2>2. stage' = stage \/ \E to \in {"sweep", "final", "decide", "validate",
             "reset", "ack", "endDrain", "top", "beginDrain", "wait", "confirm"} :
           stage' = [stage EXCEPT ![j] = to]
    BY DEF BeginDrain, Top, InternalError, BatchJoined, BatchDone,
       ResetPage, Ack, DecideCancelled, DecideManual, DecideDrained, StartDoc,
       FinishDoc
  <2> QED BY <2>1, <2>2 DEF RunStage
<1>3. /\ mail'.documents = mail.documents /\ mail'.auto = mail.auto
      /\ run'.wake = run.wake /\ run'.held = run.held
      /\ run'.deferred = run.deferred
      /\ stage[j] # "reset" => run'.todo = run.todo /\ run'.cursor = run.cursor
  <2>1. mail' = mail \/ mail' = [mail EXCEPT !.manual = Without(@, run.request)]
    BY DEF BeginDrain, Top, InternalError, BatchJoined, BatchDone,
       ResetPage, Ack, DecideCancelled, DecideManual, DecideDrained, StartDoc,
       FinishDoc
  <2>2. \/ run' = run \/ run' = [run EXCEPT !.feeder = "stopping"]
        \/ run' = [run EXCEPT !.seen = {}, !.finished = {}]
        \/ stage[j] = "reset" /\ run' = [run EXCEPT !.cursor = NextCursor(Failed, @)]
        \/ run' = [run EXCEPT !.request = Head(mail.manual)]
        \/ \E d \in Doc : run' = [run EXCEPT !.finished = @ \cup {d}]
    BY DEF BeginDrain, Top, InternalError, BatchJoined, BatchDone,
       ResetPage, Ack, DecideCancelled, DecideManual, DecideDrained, StartDoc,
       FinishDoc
  <2> QED BY <1>1, <2>1, <2>2 DEF Mail, Locals
<1>4. \A d \in announced' : d \in announced /\ (d \in Unfinished' => d \in Unfinished)
  <2>1. CASE ResetPage(j)
    BY <1>1, <2>1 DEF ResetPage, Unfinished
  <2>2. CASE \E d \in Doc : StartDoc(j, d) \/ FinishDoc(j, d)
    <3>1. PICK d \in Doc : StartDoc(j, d) \/ FinishDoc(j, d)
      BY <2>2
    <3>2. row[d] \in {"PENDING", "ACTIVE"} /\ announced' = announced
          /\ \E s \in Row : row' = [row EXCEPT ![d] = s]
      BY <3>1 DEF StartDoc, FinishDoc, Row
    <3> QED BY <1>1, <3>2 DEF Unfinished
  <2>3. CASE row' = row /\ announced' = announced
    BY <2>3 DEF Unfinished
  <2> QED BY <2>1, <2>2, <2>3 DEF BeginDrain, Top, InternalError, BatchJoined,
     BatchDone, Ack, Decide
<1>5. to \in {"top", "validate"} => ~run.wake \/ stage[j] \in {"top", "validate"}
  BY <1>0, RunFacts DEF AnswersFor
<1>6. stage[j] \notin ResetStage => to \notin ResetStage
  BY <1>0, <1>1, <1>2 DEF ResetStage, BeginDrain, Top, InternalError, BatchJoined,
     BatchDone, ResetPage, Ack, DecideCancelled, DecideManual, DecideDrained,
     StartDoc, FinishDoc
<1> QED BY <1>0, <1>2, <1>3, <1>4, <1>5, <1>6, SameRelays DEF ResetStage

\* The reset is entered when nothing waits.
LEMMA EnterResetRelays ==
    ASSUME IInv, NEW j \in Job, EnterReset(j)
    PROVE  Relays
<1>1. stage[j] = "enterReset" /\ Runs(j) /\ UNCHANGED row
  BY DEF EnterReset, Step, Runs, RunStage
<1>2. Unfinished = {}
  BY <1>1, RunFacts DEF ReadyFor
<1> QED BY <1>1, <1>2 DEF Relays, Unfinished

\* The batch takes over its page: the cursor answers for the other documents.
LEMMA ValidateRelays ==
    ASSUME IInv, NEW j \in Job, Validate(j)
    PROVE  Relays
<1>1. /\ stage[j] = "validate" /\ Runs(j) /\ UNCHANGED mail
      /\ stage' = [stage EXCEPT ![j] = "batch"]
      /\ row' = [d \in Doc |-> IF d \in run.todo THEN "PENDING" ELSE row[d]]
      /\ run' = [run EXCEPT !.todo = {}, !.wake = FALSE, !.seen = run.todo,
                            !.finished = {}, !.feeder = "on"]
      /\ announced' = announced \ run.todo
  BY DEF Validate, Step, Runs, RunStage
<1>2. /\ run \in Locals /\ run.todo \subseteq Unfinished
      /\ run.held = {} /\ run.deferred = {} /\ stage'[j] = "batch"
  BY <1>1, RunFacts DEF ReadyFor, AnswersFor
<1>3. Unfinished' \subseteq Unfinished
  BY <1>1, <1>2 DEF Unfinished
<1>4. run'.todo = {} /\ run'.cursor = run.cursor
  BY <1>1, <1>2 DEF Locals
<1>5. ASSUME NEW d \in announced', Carries(j, d) PROVE Carries(j, d)'
  <2>1. d \in RestOfSweep /\ d \notin run.todo
    BY <1>1, <1>2, <1>5 DEF Carries
  <2>2. d \in RestOfSweep'
    BY <1>4, <2>1 DEF RestOfSweep
  <2> QED BY <1>2, <2>2 DEF Carries, ResetStage
<1>6. "batch" \in RunStage
  BY DEF RunStage
<1> QED BY <1>1, <1>3, <1>5, <1>6, RunRelays

\* The steps that read the mailbox, or doc_status.
LEMMA FetchRelays ==
    ASSUME IInv, NEW j \in Job,
           \/ Start(j) \/ Sweep(j) \/ FetchPage(j) \/ FetchAuto(j)
           \/ FetchDocuments(j) \/ Rescan(j) \/ Wait(j) \/ Confirm(j) \/ EndDrain(j)
    PROVE  Relays
<1> USE DEF Step, history
<1>0. /\ stage[j] \in {"start", "sweep", "fetchPage", "fetchAuto",
                       "fetchDocuments", "rescan", "wait", "confirm", "endDrain"}
      /\ Runs(j) /\ UNCHANGED <<row, announced>>
  BY DEF Start, Sweep, FetchPage, FetchAuto, FetchDocuments, Rescan, Wait, Confirm,
     EndDrain, Runs, RunStage, FetchStage
<1>1. /\ run \in Locals /\ mail \in Mail /\ Unfinished \in SUBSET Doc
      /\ run.deferred = {} /\ (stage[j] # "rescan" => run.held = {})
      /\ run.wake => stage[j] = "sweep"
      /\ stage[j] \in {"fetchPage", "wait"} => run.todo = {}
  BY <1>0, RunFacts DEF AnswersFor, ReadyFor
<1>2. PICK to \in {"beginDrain", "sweep", "top", "rescan", "enterReset"} :
         stage' = [stage EXCEPT ![j] = to]
  BY DEF Start, Sweep, FetchPage, FetchAuto, FetchDocuments, Rescan, Wait, Confirm,
     EndDrain
<1>4. to \in RunStage /\ stage'[j] = to /\ to \notin ResetStage
  BY <1>0, <1>2, RunFacts DEF RunStage, FetchStage, ResetStage
<1>3. ASSUME NEW d \in Unfinished,
             d \in mail.documents \/ mail.auto \/ Carries(j, d)
      PROVE  d \in mail'.documents \/ mail'.auto \/ Carries(j, d)'
  <2>1. CASE Start(j) /\ mail.manual = <<>>
    <3>1. run' = [run EXCEPT !.wake = mail.auto] /\ stage'[j] = "sweep"
          /\ mail' = [mail EXCEPT !.auto = FALSE] /\ stage[j] = "start"
      BY <1>0, <2>1, RunFacts DEF Start
    <3>2. /\ run'.wake = mail.auto /\ mail'.documents = mail.documents
          /\ run'.todo = run.todo /\ run'.cursor = run.cursor
      BY <1>1, <3>1 DEF Locals, Mail
    <3> QED BY <1>1, <1>3, <1>4, <3>1, <3>2 DEF Carries, RestOfSweep
  <2>2. CASE FetchDocuments(j)
    <3>1. PICK D \in SUBSET mail.documents :
             /\ mail' = [mail EXCEPT !.documents = @ \ D]
             /\ run' = [run EXCEPT !.held = D]
      BY <2>2 DEF FetchDocuments
    <3>2. /\ mail'.documents = mail.documents \ D /\ mail'.auto = mail.auto
          /\ run'.held = D /\ stage[j] = "fetchDocuments"
          /\ run'.todo = run.todo /\ run'.cursor = run.cursor
      BY <1>1, <2>2, <3>1 DEF Locals, Mail, FetchDocuments
    <3> QED BY <1>1, <1>3, <1>4, <3>2 DEF Carries, RestOfSweep
  <2>3. CASE \/ Sweep(j) \/ FetchPage(j) \/ FetchAuto(j) \/ Rescan(j)
             \/ Confirm(j) /\ Unfinished # {}
    <3>1. PICK cursor \in 0..END, wake \in BOOLEAN :
             /\ \/ run' = WithPage(Unfinished, cursor, wake)
                \/ run' = [WithPage(Unfinished, cursor, wake) EXCEPT !.held = {}]
             /\ cursor = IF FetchPage(j) THEN run.cursor ELSE 0
      <4>1. run.wake \in BOOLEAN /\ run.cursor \in 0..END
        BY <1>1 DEF Locals
      <4>2. ~FetchPage(j) =>
               \/ run' = WithPage(Unfinished, 0, run.wake)
               \/ run' = WithPage(Unfinished, 0, TRUE)
               \/ run' = WithPage(Unfinished, 0, FALSE)
               \/ run' = [WithPage(Unfinished, 0, TRUE) EXCEPT !.held = {}]
        BY <2>3 DEF Sweep, FetchAuto, Rescan, Confirm
      <4>3. FetchPage(j) => run' = WithPage(Unfinished, run.cursor, FALSE)
        BY DEF FetchPage
      <4> QED BY <4>1, <4>2, <4>3, CursorRange
    <3>2. /\ WithPage(Unfinished, cursor, wake) \in Locals
          /\ cursor < d => \/ d \in WithPage(Unfinished, cursor, wake).todo
                           \/ /\ 0 < WithPage(Unfinished, cursor, wake).cursor
                              /\ WithPage(Unfinished, cursor, wake).cursor < d
      BY <1>1, WithPageFacts
    <3>3. cursor < d => d \in RestOfSweep'
      <4>1. cursor < d => d \in run'.todo \/ (0 < run'.cursor /\ run'.cursor < d)
        BY <3>1, <3>2 DEF Locals
      <4> QED BY <4>1 DEF RestOfSweep, Unfinished
    <3>4. UNCHANGED mail
      BY <2>3 DEF Sweep, FetchPage, FetchAuto, Rescan, Confirm
    <3>5. CASE FetchPage(j)
      <4>1. stage[j] = "fetchPage"
        BY <3>5 DEF FetchPage
      <4>2. Carries(j, d) => cursor < d
        BY <1>1, <3>1, <3>5, <4>1 DEF Carries, RestOfSweep
      <4> QED BY <1>3, <1>4, <3>3, <3>4, <4>2 DEF Carries
    <3>6. CASE ~FetchPage(j)
      <4>1. cursor < d
        BY <3>1, <3>6, RunAssumption DEF Unfinished, Doc
      <4> QED BY <1>4, <3>3, <4>1 DEF Carries
    <3> QED BY <3>5, <3>6
  <2>4. CASE \/ Start(j) /\ mail.manual # <<>>
             \/ Wait(j) \/ EndDrain(j)
    <3>1. /\ UNCHANGED mail /\ stage[j] \in {"start", "wait", "endDrain"}
          /\ \/ run' = [run EXCEPT !.request = Head(mail.manual)]
             \/ run' = [run EXCEPT !.todo = {}, !.wake = FALSE] /\ stage[j] = "wait"
             \/ run' = [run EXCEPT !.wake = FALSE]
      BY <2>4 DEF Start, Wait, EndDrain
    <3>2. run'.todo = run.todo /\ run'.cursor = run.cursor
      BY <1>1, <3>1 DEF Locals
    <3>3. Carries(j, d) => d \in RestOfSweep
      BY <1>1, <3>1 DEF Carries
    <3> QED BY <1>3, <1>4, <3>1, <3>2, <3>3 DEF Carries, RestOfSweep
  <2>5. ~(Confirm(j) /\ Unfinished = {})
    OBVIOUS
  <2> QED BY <2>1, <2>2, <2>3, <2>4, <2>5
<1> QED BY <1>0, <1>2, <1>3, <1>4, RunRelays DEF Unfinished

\* The feeder, and what the run puts back.
LEMMA FeedRelays ==
    ASSUME IInv, NEW j \in Job, Feeder(j) \/ FeederStop(j)
    PROVE  Relays
<1> USE DEF At, history
<1>0. stage[j] = "batch" /\ UNCHANGED <<row, stage>>
  BY DEF Feeder, FeedDrain, FeedRetry, FeedRoute, FeederStop
<1>1. /\ Runs(j) /\ stage' = [stage EXCEPT ![j] = "batch"] /\ "batch" \in RunStage
      /\ run \in Locals /\ mail \in Mail /\ announced \in SUBSET Doc /\ ~run.wake
  BY <1>0, BatchFacts, RunFacts, TypeParts DEF IInv
<1>2. /\ run.held \in SUBSET Doc /\ run.held \cup run.deferred \in SUBSET Doc
      /\ \A d : Carries(j, d) =>
            d \in run.held \cup run.deferred \/ d \in RestOfSweep
  BY <1>0, <1>1 DEF Locals, Carries
<1>5. run'.todo = run.todo /\ run'.cursor = run.cursor
  <2>1. \/ \E D : run' = [run EXCEPT !.held = D]
        \/ run' = [run EXCEPT !.feeder = "off", !.held = {}, !.deferred = {}]
        \/ \E e \in Doc : LET rest == [run EXCEPT !.held = @ \ {e}]
                         IN  \/ run' = rest
                             \/ run' = [rest EXCEPT !.seen = @ \cup {e}]
                             \/ run' = [rest EXCEPT !.deferred = @ \cup {e}]
    BY DEF Feeder, FeedDrain, FeedRetry, FeedRoute, FeederStop
  <2> QED BY <1>1, <2>1 DEF Locals
<1>6. RestOfSweep' = RestOfSweep
  BY <1>5 DEF RestOfSweep
<1>3. /\ announced' \subseteq announced
      /\ \A d \in announced' :
            d \in mail.documents \/ mail.auto \/ d \in run.held \cup run.deferred =>
               \/ d \in mail'.documents \/ mail'.auto
               \/ d \in run'.held \cup run'.deferred
  <2>1. CASE FeedDrain(j)
    <3>1. PICK D \in SUBSET mail.documents :
             /\ mail' = [mail EXCEPT !.documents = @ \ D]
             /\ run' = [run EXCEPT !.held = D]
             /\ run.held = {} /\ UNCHANGED announced
      BY <2>1 DEF FeedDrain
    <3>2. /\ mail'.documents = mail.documents \ D /\ mail'.auto = mail.auto
          /\ run'.held = D /\ run'.deferred = run.deferred
      BY <1>1, <3>1 DEF Locals, Mail
    <3> QED BY <3>1, <3>2
  <2>2. CASE FeedRetry(j)
    <3>1. /\ mail' \in Put(mail, run.held) /\ UNCHANGED announced
          /\ run' = [run EXCEPT !.held = {}]
      BY <2>2 DEF FeedRetry
    <3>2. run'.deferred = run.deferred
      BY <1>1, <3>1 DEF Locals
    <3>3. /\ mail.documents \subseteq mail'.documents /\ (mail.auto => mail'.auto)
          /\ \A d \in run.held : d \in mail'.documents \/ mail'.auto
      BY <1>1, <1>2, <3>1, PutAnnounces
    <3> QED BY <3>1, <3>2, <3>3
  <2>3. CASE FeederStop(j)
    <3>1. /\ mail' \in Put(mail, run.held \cup run.deferred) /\ UNCHANGED announced
      BY <2>3 DEF FeederStop
    <3>2. /\ mail.documents \subseteq mail'.documents /\ (mail.auto => mail'.auto)
          /\ \A d \in run.held \cup run.deferred : d \in mail'.documents \/ mail'.auto
      BY <1>1, <1>2, <3>1, PutAnnounces
    <3> QED BY <3>1, <3>2
  <2>4. ASSUME NEW e \in Doc, FeedRoute(j, e)
        PROVE  /\ announced' \subseteq announced
               /\ \A d \in announced' :
                     d \in mail.documents \/ mail.auto \/ d \in run.held \cup run.deferred =>
                        \/ d \in mail'.documents \/ mail'.auto
                        \/ d \in run'.held \cup run'.deferred
    <3> DEFINE rest == [run EXCEPT !.held = @ \ {e}]
    <3>1. /\ \/ run' = rest /\ mail' = mail
             \/ run' = [rest EXCEPT !.seen = @ \cup {e}] /\ mail' = mail
             \/ /\ run' = [rest EXCEPT !.deferred = @ \cup {e}]
                /\ mail' = [mail EXCEPT !.auto = TRUE]
          /\ announced' = IF e \in run'.deferred THEN announced ELSE announced \ {e}
      BY <2>4 DEF FeedRoute
    <3>2. rest \in Locals /\ rest.held = run.held \ {e} /\ rest.deferred = run.deferred
      BY <1>1 DEF Locals
    <3> HIDE DEF rest
    <3>3. /\ run'.held = run.held \ {e} /\ run.deferred \subseteq run'.deferred
          /\ mail'.documents = mail.documents /\ (mail.auto => mail'.auto)
      BY <1>1, <3>1, <3>2 DEF Locals, Mail
    <3> QED BY <3>1, <3>3
  <2> QED BY <2>1, <2>2, <2>3, <2>4 DEF Feeder
<1>4. \A d : d \in run'.held \cup run'.deferred \/ d \in RestOfSweep
                => Carries(j, d)'
  BY <1>0, <1>6 DEF Carries, ResetStage
<1> QED BY <1>0, <1>1, <1>2, <1>3, <1>4, RunRelays DEF Unfinished

\* A sweep that has read its last page stands for nothing more.
LEMMA NoneAfterEnd ==
    ASSUME run.todo = {}, run.cursor = END
    PROVE  \A d : d \notin RestOfSweep
BY RunAssumption DEF RestOfSweep, Doc, END

\* The decision that consumes the dirty flag, and the one that releases.
LEMMA DecideRelays ==
    ASSUME IInv, NEW j \in Job, Decide(j)
    PROVE  Relays
<1>0. /\ stage[j] = "decide" /\ Runs(j) /\ UNCHANGED <<row, announced>>
  BY DEF Decide, DecideCancelled, DecideManual, DecideContinue, DecideDrained,
     DecideRelease, Step, Runs, RunStage, history
<1>1. /\ mail \in Mail /\ ~run.wake /\ run.held = {} /\ run.deferred = {}
      /\ run.todo = {} /\ \A d : Carries(j, d) => d \in RestOfSweep
  BY <1>0, RunFacts DEF AnswersFor, ReadyFor, Carries
<1>2. CASE DecideContinue(j)
  <2>1. PICK to \in {"fetchPage", "fetchAuto", "fetchDocuments"} :
           /\ stage' = [stage EXCEPT ![j] = to]
           /\ run.cursor = END /\ mail.auto => to = "fetchAuto"
    BY <1>2 DEF DecideContinue, Step
  <2>2. /\ mail' = [mail EXCEPT !.auto = @ /\ run.cursor # END] /\ UNCHANGED run
    BY <1>2 DEF DecideContinue
  <2>3. /\ mail'.documents = mail.documents
        /\ mail.auto => mail'.auto \/ to = "fetchAuto"
    BY <1>1, <2>1, <2>2 DEF Mail
  <2>4. stage'[j] = to /\ to \in RunStage /\ to \notin ResetStage
    BY <1>0, <2>1, RunFacts DEF RunStage, FetchStage, ResetStage
  <2>5. \A d : to = "fetchAuto" \/ d \in RestOfSweep => Carries(j, d)'
    BY <2>2, <2>4 DEF Carries, RestOfSweep
  <2> QED BY <1>0, <1>1, <2>1, <2>3, <2>4, <2>5, RunRelays DEF Unfinished
<1>3. CASE DecideRelease(j)
  <2>1. /\ stage' = [stage EXCEPT ![j] = "done"] /\ UNCHANGED mail
        /\ ~mail.auto /\ mail.documents = {} /\ run.cursor = END
    BY <1>3 DEF DecideRelease, Step, Continues, Resident
  <2>2. \A d : d \notin RestOfSweep
    BY <1>1, <2>1, NoneAfterEnd
  <2> QED BY <1>0, <1>1, <2>1, <2>2, RunRelays DEF Unfinished
<1> QED BY <1>2, <1>3, PlainRelays DEF Decide

\* A run in its finally gives back the wake-up it carries, or gives up the rest
\* of its sweep.
LEMMA FinalRelays ==
    ASSUME IInv, NEW j \in Job, Final(j)
    PROVE  Relays
<1>0. /\ stage[j] = "final" /\ Runs(j) /\ UNCHANGED row
      /\ stage' = [stage EXCEPT ![j] = "done"]
      /\ mail' = [mail EXCEPT !.auto = @ \/ run.wake]
      /\ announced' = IF run.wake THEN announced ELSE announced \ RestOfSweep
  BY DEF Final, Step, Runs, RunStage
<1>1. /\ mail \in Mail /\ run.held = {} /\ run.deferred = {}
  BY <1>0, RunFacts DEF AnswersFor
<1>2. mail'.documents = mail.documents /\ mail'.auto = (mail.auto \/ run.wake)
  BY <1>0, <1>1 DEF Mail
<1> QED BY <1>0, <1>1, <1>2, RunRelays DEF Unfinished, Carries

\* What a run that is aborted gives back is what it carried.
LEMMA AbortRelays ==
    ASSUME IInv, NEW j \in Job, Abort(j)
    PROVE  Relays
<1>1. CASE stage[j] \in RunStage \ {"final"}
  <2>1. /\ stage' = [stage EXCEPT ![j] = "final"] /\ mail' \in Compensated(j)
        /\ run' = [run EXCEPT !.held = {}, !.deferred = {}, !.feeder = "off"]
        /\ UNCHANGED <<row, announced>> /\ Runs(j)
    BY <1>1 DEF Abort, Step, RunStage, FetchStage, Runs, history
  <2>2. /\ run \in Locals /\ mail \in Mail /\ AnswersFor(stage[j])
    BY <2>1, RunFacts
  <2>3. /\ run.held \in SUBSET Doc /\ run.held \cup run.deferred \in SUBSET Doc
        /\ run'.wake = run.wake /\ "final" \in RunStage
        /\ run'.todo = run.todo /\ run'.cursor = run.cursor
        /\ stage'[j] = "final" /\ RestOfSweep' = RestOfSweep
    BY <2>1, <2>2, RunFacts DEF Locals, RunStage, RestOfSweep
  <2>4. ASSUME NEW d \in Doc, d \in mail.documents \/ mail.auto \/ Carries(j, d)
        PROVE  d \in mail'.documents \/ mail'.auto \/ run'.wake \/ d \in RestOfSweep'
    <3>1. CASE stage[j] \in {"fetchPage", "fetchAuto"}
      <4>1. mail' = [mail EXCEPT !.auto = TRUE]
        BY <2>1, <3>1 DEF Compensated
      <4> QED BY <2>2, <4>1 DEF Mail
    <3>2. CASE stage[j] = "rescan"
      <4>1. PICK m \in Put(mail, run.held) : mail' = [m EXCEPT !.auto = TRUE]
        BY <2>1, <3>2 DEF Compensated
      <4>2. m \in Mail
        BY <2>2, <2>3, PutAnnounces
      <4> QED BY <4>1, <4>2 DEF Mail
    <3>3. CASE stage[j] = "batch"
      <4>1. mail' \in Put(mail, run.held \cup run.deferred)
        BY <2>1, <3>3 DEF Compensated
      <4>2. /\ mail.documents \subseteq mail'.documents /\ (mail.auto => mail'.auto)
            /\ \A e \in run.held \cup run.deferred :
                  e \in mail'.documents \/ mail'.auto
        BY <2>2, <2>3, <4>1, PutAnnounces
      <4> QED BY <2>3, <2>4, <3>3, <4>2 DEF Carries
    <3>4. CASE stage[j] \notin {"fetchPage", "fetchAuto", "rescan", "batch"}
      <4>1. mail' = mail
        BY <2>1, <3>4 DEF Compensated
      <4>2. run.held = {} /\ run.deferred = {}
        BY <2>2, <3>4 DEF AnswersFor
      <4> QED BY <2>3, <2>4, <3>4, <4>1, <4>2 DEF Carries
    <3> QED BY <3>1, <3>2, <3>3, <3>4
  <2>5. announced \in SUBSET Doc
    BY TypeParts DEF IInv
  <2>6. \A d : run'.wake \/ d \in RestOfSweep' => Carries(j, d)'
    BY <2>3 DEF Carries, ResetStage
  <2> QED BY <2>1, <2>3, <2>4, <2>5, <2>6, RunRelays DEF Unfinished
<1>2. CASE stage[j] \notin RunStage \ {"final"}
  <2>1. stage[j] \in {"persist", "publish", "drive"}
    BY <1>2 DEF Abort, Step
  <2> QED BY <2>1, CallerRelays
<1> QED BY <1>1, <1>2

\* The dead stay dead.
LEMMA DeadStay ==
    ASSUME IInv, Next, NEW k \in Job, Dead(k)
    PROVE  Dead(k)'
<1>1. PICK j \in Job : Advance(j) \/ Feeder(j) \/ Accident(j)
  BY DEF Next
<1>2. stage[j] # "dead"
  <2> USE DEF Step, At
  <2>1. CASE Advance(j)
    BY <2>1 DEF Advance, Reserve, Persist, Rearm, Release, Publish, CommitRetry, Drive,
       TakeSlot, GiveBack, Handoff, Start, BeginDrain, Sweep, Top, Validate,
       BatchJoined, FeederStop, BatchDone, Decide, DecideCancelled, DecideManual,
       DecideContinue, DecideDrained, DecideRelease, FetchPage, FetchAuto,
       FetchDocuments, Rescan, Wait, Confirm, EnterReset, ResetPage, Ack, EndDrain,
       Final, StartDoc, FinishDoc
  <2>2. CASE Feeder(j) \/ Accident(j)
    BY <2>2 DEF Feeder, FeedDrain, FeedRetry, FeedRoute, Accident, Cancel,
       InternalError, Abort, LostDecision, Crash, EnqueueStage, RunStage, FetchStage
  <2> QED BY <1>1, <2>1, <2>2
<1>3. stage' = stage \/ \E to : stage' = [stage EXCEPT ![j] = to]
  <2> USE DEF Step, At
  <2>1. CASE Advance(j)
    BY <2>1 DEF Advance, Reserve, Persist, Rearm, Release, Publish, CommitRetry, Drive,
       TakeSlot, GiveBack, Handoff, Start, BeginDrain, Sweep, Top, Validate,
       BatchJoined, FeederStop, BatchDone, Decide, DecideCancelled, DecideManual,
       DecideContinue, DecideDrained, DecideRelease, FetchPage, FetchAuto,
       FetchDocuments, Rescan, Wait, Confirm, EnterReset, ResetPage, Ack, EndDrain,
       Final, StartDoc, FinishDoc
  <2>2. CASE Feeder(j) \/ Accident(j)
    BY <2>2 DEF Feeder, FeedDrain, FeedRetry, FeedRoute, Accident, Cancel,
       InternalError, Abort, LostDecision, Crash
  <2> QED BY <1>1, <2>1, <2>2
<1> QED BY <1>2, <1>3, TypeParts DEF IInv, Dead

\* No step puts out the signal of a document that waits,
LEMMA NextSignalled ==
    ASSUME IInv, Signalled, Next
    PROVE  Signalled'
<1>1. PICK j \in Job : Advance(j) \/ Feeder(j) \/ Accident(j)
  BY DEF Next
<1>2. CASE LockExitCancel \/ \E k \in Job : Dead(k)
  BY <1>2, DeadStay DEF Signalled
<1>3. CASE Crash(j)
  <2>1. Dead(j)'
    BY <1>3, TypeParts DEF IInv, Crash, Dead
  <2> QED BY <2>1 DEF Signalled
<1>4. CASE ~LockExitCancel /\ (\A k \in Job : ~Dead(k)) /\ ~Crash(j)
  <2>1. Relays
    <3>1. CASE \/ Reserve(j) \/ Persist(j) \/ Rearm(j) \/ Release(j) \/ Publish(j)
               \/ CommitRetry(j) \/ Drive(j) \/ TakeSlot(j) \/ GiveBack(j)
               \/ Cancel(j) \/ Handoff(j)
      BY <3>1, CallerRelays, TakeRelays
    <3>2. CASE \/ BeginDrain(j) \/ Top(j) \/ InternalError(j) \/ BatchJoined(j)
               \/ BatchDone(j) \/ EnterReset(j) \/ ResetPage(j) \/ Ack(j)
               \/ \E d \in Doc : StartDoc(j, d) \/ FinishDoc(j, d)
      BY <3>2, PlainRelays, EnterResetRelays
    <3>3. CASE \/ Start(j) \/ Sweep(j) \/ FetchPage(j) \/ FetchAuto(j)
               \/ FetchDocuments(j) \/ Rescan(j) \/ Wait(j) \/ Confirm(j) \/ EndDrain(j)
      BY <3>3, FetchRelays
    <3>4. CASE \/ Validate(j) \/ Decide(j) \/ Final(j) \/ Abort(j)
               \/ Feeder(j) \/ FeederStop(j)
      BY <3>4, ValidateRelays, DecideRelays, FinalRelays, AbortRelays, FeedRelays
    <3>5. ~LostDecision(j)
      BY <1>4 DEF LostDecision
    <3> QED BY <1>1, <1>4, <3>1, <3>2, <3>3, <3>4, <3>5 DEF Advance, Accident
  <2> QED BY <1>4, <2>1 DEF Signalled, Relays
<1> QED BY <1>2, <1>3, <1>4

\* nor does a stuttering step.
LEMMA StutterSignalled ==
    ASSUME Signalled, UNCHANGED vars PROVE Signalled'
<1>1. UNCHANGED <<row, mail, stage, run, announced>>
  BY DEF vars, history
<1> QED BY <1>1 DEF Signalled, Lit, Carries, Runs, Dead, Unfinished, RestOfSweep

\* While nobody was killed, every announced document that still waits is named in
\* the mailbox or carried by the run that has drained the signal: between the
\* mailbox, the feeder's buffers, the pages of the sweep and doc_status nothing
\* falls through.
THEOREM SignalsLive == Spec => []Signalled
<1>1. Init => Signalled
  BY DEF Init, Signalled
<1>2. IInv /\ Signalled /\ [Next]_vars => Signalled'
  BY NextSignalled, StutterSignalled
<1> QED BY <1>1, <1>2, Invariance, PTL DEF Spec

\* No wake-up is lost (NoLostWakeUp).  When the slot is free nobody runs, so a
\* signal that is lit is in the mailbox.  The hypothesis excludes the
\* cancellation that lands in the exit of the lock: there one is lost.
THEOREM NoWakeUpIsLost == ~LockExitCancel => (Spec => []NoLostWakeUp)
<1> SUFFICES ASSUME ~LockExitCancel PROVE Spec => []NoLostWakeUp
  OBVIOUS
<1>1. IInv /\ Signalled => NoLostWakeUp
  <2> SUFFICES ASSUME IInv, Signalled, status.busyOwner = NoJob,
                      \A j \in Job : ~Dead(j)
               PROVE  \A d \in announced \cap Unfinished :
                         d \in mail.documents \/ mail.auto
    BY DEF NoLostWakeUp
  <2>1. \A j \in Job : ~Runs(j)
    BY RunAssumption, RunFacts
  <2> QED BY <2>1 DEF Signalled, Lit
<1> QED BY <1>1, Invariance, SignalsLive, PTL

-----------------------------------------------------------------------------
(* Where nothing fails, whoever gives the slot back drives                 *)

\* A step that keeps a call away from failure and cancellation.
LEMMA QuietMove ==
    ASSUME IInv, Quiet, NEW j \in Job, NEW to,
           stage' = [stage EXCEPT ![j] = to], UNCHANGED call, ~status'.cancel,
           to \notin {"final", "dead", "enqueue", "cancel"},
           to \in EnqueueStage \cup {"insert"} =>
              stage[j] \in EnqueueStage \cup {"insert"}
    PROVE  Quiet'
<1>1. stage \in [Job -> Stage]
  BY TypeParts DEF IInv
<1> QED BY <1>1 DEF Quiet

\* Nobody is dead, so reconciling changes nothing.
LEMMA QuietStatus ==
    ASSUME IInv, Quiet
    PROVE  /\ status \in Status /\ ~status.cancel
           /\ Reap(status) \in Status /\ ~Reap(status).cancel
           /\ Reap(status).busyOwner = status.busyOwner
<1>1. status \in Status
  BY TypeParts DEF IInv
<1>2. status.busyOwner = NoJob \/ ~Dead(status.busyOwner)
  BY <1>1 DEF Quiet, Dead, Status
<1> QED BY <1>1, <1>2, ReapSpares DEF Quiet

\* The steps of a run: it holds the slot until it releases it.
LEMMA RunDriven ==
    ASSUME IInv, Quiet, Undisturbed, NEW j \in Job,
           \/ Start(j) \/ BeginDrain(j) \/ Sweep(j) \/ Top(j) \/ Validate(j)
           \/ BatchJoined(j) \/ FeederStop(j) \/ BatchDone(j)
           \/ FetchPage(j) \/ FetchAuto(j) \/ FetchDocuments(j) \/ Rescan(j)
           \/ Wait(j) \/ Confirm(j) \/ EnterReset(j) \/ ResetPage(j) \/ Ack(j)
           \/ EndDrain(j) \/ Feeder(j)
           \/ Decide(j) /\ ~DecideRelease(j)
           \/ \E d \in Doc : StartDoc(j, d) \/ FinishDoc(j, d)
    PROVE  Quiet' /\ WorkIsDriven'
<1>0. Runs(j) /\ UNCHANGED call
  BY DEF Start, BeginDrain, Sweep, Top, Validate, BatchJoined, FeederStop, BatchDone,
     FetchPage, FetchAuto, FetchDocuments, Rescan, Wait, Confirm, EnterReset,
     ResetPage, Ack, EndDrain, Feeder, FeedDrain, FeedRetry, FeedRoute, Decide,
     DecideCancelled, DecideManual, DecideContinue, DecideDrained, StartDoc,
     FinishDoc, Step, At, Runs, RunStage, FetchStage
<1>1. /\ status \in Status /\ ~status.cancel /\ status.busyOwner = j /\ j # NoJob
      /\ stage \in [Job -> Stage]
  BY <1>0, QuietStatus, RunFacts, RunAssumption
<1>2. /\ ~status'.cancel /\ status'.busyOwner = j
  <2>1. \/ status' = status \/ status' = Reap(status)
        \/ status' = [status EXCEPT !.cancel = FALSE]
        \/ status' = [status EXCEPT !.phase = "DRAIN", !.request = run.request]
        \/ status' = [status EXCEPT !.phase = "RESET"]
        \/ status' = [status EXCEPT !.phase = "IDLE", !.request = NoJob]
    BY DEF Start, BeginDrain, Sweep, Top, Validate, BatchJoined, FeederStop,
       BatchDone, FetchPage, FetchAuto, FetchDocuments, Rescan, Wait, Confirm,
       EnterReset, ResetPage, Ack, EndDrain, Feeder, FeedDrain, FeedRetry, FeedRoute,
       Decide, DecideCancelled, DecideManual, DecideContinue, DecideDrained,
       StartDoc, FinishDoc
  <2> QED BY <1>1, <2>1, QuietStatus DEF Status
<1>3. PICK to \in RunStage \ {"final"} : stage' = [stage EXCEPT ![j] = to]
  <2>1. CASE stage' = stage
    BY <1>0, <1>1, <2>1 DEF Runs, Quiet
  <2>2. stage' = stage \/ \E to \in {"beginDrain", "sweep", "top", "decide",
             "validate", "batch", "fetchPage", "fetchAuto", "fetchDocuments",
             "rescan", "wait", "confirm", "enterReset", "reset", "ack", "endDrain"} :
           stage' = [stage EXCEPT ![j] = to]
    BY <1>1 DEF Start, BeginDrain, Sweep, Top, Validate, BatchJoined, FeederStop,
       BatchDone, FetchPage, FetchAuto, FetchDocuments, Rescan, Wait, Confirm,
       EnterReset, ResetPage, Ack, EndDrain, Feeder, FeedDrain, FeedRetry, FeedRoute,
       Decide, DecideCancelled, DecideManual, DecideContinue, DecideDrained,
       StartDoc, FinishDoc, Step
  <2> QED BY <2>1, <2>2 DEF RunStage, FetchStage
<1>4. to \notin EnqueueStage \cup {"insert", "final", "dead", "enqueue", "cancel"}
  BY DEF EnqueueStage, RunStage, FetchStage
<1> QED BY <1>0, <1>1, <1>2, <1>3, <1>4, QuietMove DEF WorkIsDriven

\* Who releases has probed the mailbox: nothing waits.
LEMMA ReleaseDriven ==
    ASSUME IInv, Signalled, Quiet, Undisturbed, NEW j \in Job,
           (Decide(j) /\ DecideRelease(j)) \/ GiveBack(j) \/ Handoff(j)
    PROVE  Quiet' /\ WorkIsDriven'
<1> USE DEF Step, history
<1>0. /\ stage[j] \in {"decide", "sdkDeleting", "deleting", "handoff"} /\ Holds(j)
      /\ UNCHANGED <<row, mail, call, announced>>
  BY DEF Decide, DecideRelease, GiveBack, Handoff, Holds, HoldStage, RunStage
<1>1. /\ status \in Status /\ ~status.cancel /\ status.busyOwner = j /\ j # NoJob
      /\ Reap(status) \in Status /\ Reap(status).busyOwner = j
      /\ stage \in [Job -> Stage]
  BY <1>0, QuietStatus, HoldFacts, RunAssumption, TypeParts DEF IInv
<1>2. ~status'.cancel
  <2>1. \/ status' = [status EXCEPT !.busyOwner = NoJob]
        \/ status' = [status EXCEPT !.cancel = FALSE]
        \/ status' = [status EXCEPT !.busyOwner = NoJob, !.cancel = FALSE,
                                    !.destructive = FALSE]
        \/ status' = [Reap(status) EXCEPT !.cancel = FALSE]
    BY DEF Decide, DecideRelease, GiveBack, Handoff
  <2> QED BY <1>1, <2>1 DEF Status
<1>3. PICK to \in {"done", "drive", "handoff", "start"} :
         /\ stage' = [stage EXCEPT ![j] = to]
         /\ to \in {"handoff", "start"} => status'.busyOwner = j
         /\ to = "done" => ~mail.auto /\ mail.documents = {}
  <2>1. CASE Decide(j) /\ DecideRelease(j)
    BY <2>1 DEF Decide, DecideRelease, Continues, Resident
  <2>2. CASE GiveBack(j)
    BY <1>1, <2>2 DEF GiveBack, HasWork, Status
  <2>3. CASE Handoff(j)
    BY <1>1, <2>3 DEF Handoff, Status
  <2> QED BY <2>1, <2>2, <2>3
<1>4. Quiet'
  BY <1>0, <1>2, <1>3, QuietMove DEF EnqueueStage
<1>5. WorkIsDriven'
  <2>1. CASE to \in {"handoff", "start"}
    BY <1>1, <1>3, <2>1 DEF WorkIsDriven
  <2>2. CASE to = "drive"
    BY <1>1, <1>3, <2>2 DEF WorkIsDriven
  <2>3. CASE to = "done"
    <3>1. Runs(j) => \A d : ~Carries(j, d)
      <4>1. Runs(j) => stage[j] = "decide" /\ run.cursor = END
        <5>1. Runs(j) => stage[j] = "decide"
          BY <1>0 DEF Runs, RunStage, FetchStage
        <5> QED BY <5>1 DEF GiveBack, Handoff, DecideRelease, Continues
      <4>2. Runs(j) => /\ ~run.wake /\ run.held = {} /\ run.deferred = {}
                       /\ run.todo = {}
        BY <4>1, RunFacts DEF AnswersFor, ReadyFor
      <4> QED BY <4>1, <4>2, NoneAfterEnd DEF Carries
    <3>2. \A d : ~Lit(d)
      BY <1>0, <1>3, <2>3, <3>1, SoleRunner
    <3>3. announced \cap Unfinished = {}
      BY <3>2 DEF Signalled, Undisturbed, Quiet, Dead
    <3> QED BY <1>0, <3>3 DEF WorkIsDriven, Unfinished
  <2> QED BY <1>3, <2>1, <2>2, <2>3
<1> QED BY <1>4, <1>5

\* The other calls: an insert that has signalled drives, and so does one whose
\* signal may be lost.
LEMMA CallerDriven ==
    ASSUME IInv, Quiet, Undisturbed, WorkIsDriven, NEW j \in Job,
           \/ Reserve(j) \/ Persist(j) \/ Rearm(j) \/ Release(j) \/ Publish(j)
           \/ CommitRetry(j) \/ Drive(j) \/ TakeSlot(j)
    PROVE  Quiet' /\ WorkIsDriven'
<1> USE DEF Step, history
<1>0. /\ stage \in [Job -> Stage] /\ row \in [Doc -> Row] /\ UNCHANGED call
      /\ stage[j] \in EnqueueStage \cup {"insert", "retry", "drive", "sdkDelete", "delete"}
      /\ j # NoJob
  BY TypeParts, RunAssumption DEF IInv, Reserve, Persist, Rearm, Release, Publish,
     CommitRetry, Drive, TakeSlot, EnqueueStage, Quiet
<1>1. /\ status \in Status /\ ~status.cancel
      /\ Reap(status) \in Status /\ ~Reap(status).cancel
      /\ Reap(status).busyOwner = status.busyOwner
  BY QuietStatus
<1>2. ~status'.cancel
  <2>1. \/ status' = status \/ status' = Reap(status)
        \/ status' = [Reap(status) EXCEPT !.busyOwner = j, !.cancel = FALSE]
        \/ status' = [Reap(status) EXCEPT !.busyOwner = j, !.cancel = FALSE,
                                          !.destructive = TRUE]
        \/ status' = [Reap(status) EXCEPT !.tokens = @ \cup {j}]
        \/ status' = [status EXCEPT !.tokens = @ \ {j}]
    BY DEF Reserve, Persist, Rearm, Release, Publish, CommitRetry, Drive, TakeSlot
  <2> QED BY <1>1, <2>1 DEF Status
<1>3. PICK to \in {"start", "done", "drive", "sdkDeleting", "deleting"}
                  \cup EnqueueStage :
         /\ stage' = [stage EXCEPT ![j] = to]
         /\ to \in EnqueueStage => stage[j] \in EnqueueStage \cup {"insert"}
  <2>1. CASE Reserve(j)
    BY <1>0, <2>1 DEF Reserve, EnqueueStage
  <2>2. CASE Persist(j) \/ Rearm(j) \/ Release(j) \/ Publish(j)
    BY <2>2 DEF Persist, Rearm, Release, Publish, EnqueueStage
  <2>3. CASE CommitRetry(j) \/ Drive(j) \/ TakeSlot(j)
    BY <2>3 DEF CommitRetry, Drive, TakeSlot, EnqueueStage
  <2> QED BY <2>1, <2>2, <2>3
<1>4. Quiet'
  <2>1. to \notin {"final", "dead", "enqueue", "cancel", "insert"}
    BY DEF EnqueueStage
  <2> QED BY <1>0, <1>2, <1>3, <2>1, QuietMove DEF EnqueueStage
<1>5. WorkIsDriven'
  <2>1. CASE Publish(j)
    <3>1. call[j] = "insert"
      BY <2>1 DEF Publish, Quiet, EnqueueStage
    <3>2. stage'[j] = "drive"
      BY <1>0, <2>1, <3>1 DEF Publish
    <3> QED BY <3>2 DEF WorkIsDriven
  <2>2. CASE Rearm(j)
    <3>1. status' = status
          /\ stage'[j] = IF status.busyOwner = NoJob THEN "releaseDrive"
                                                     ELSE "releaseDone"
      BY <1>0, <2>2 DEF Rearm
    <3> QED BY <3>1 DEF WorkIsDriven
  <2>3. CASE Drive(j) \/ (TakeSlot(j) /\ status'.busyOwner # status.busyOwner)
    <3>1. status'.busyOwner # NoJob
      BY <1>0, <1>1, <2>3 DEF Drive, TakeSlot, Status
    <3> QED BY <3>1 DEF WorkIsDriven
  <2>4. CASE Release(j) /\ stage[j] = "releaseDrive"
    <3>1. stage'[j] = "drive"
      BY <1>0, <2>4 DEF Release
    <3> QED BY <3>1 DEF WorkIsDriven
  <2>5. CASE /\ \/ Reserve(j) \/ Persist(j) \/ CommitRetry(j)
                \/ TakeSlot(j) /\ status'.busyOwner = status.busyOwner
                \/ Release(j) /\ stage[j] # "releaseDrive"
    <3>1. stage[j] \notin {"drive", "releaseDrive"}
      BY <2>5 DEF Reserve, Persist, CommitRetry, TakeSlot, Release
    <3>2. status'.busyOwner = status.busyOwner
      <4>1. \/ status' = status \/ status' = Reap(status)
            \/ status'.busyOwner = status.busyOwner
            \/ status' = [Reap(status) EXCEPT !.tokens = @ \cup {j}]
            \/ status' = [status EXCEPT !.tokens = @ \ {j}]
        BY <2>5 DEF Reserve, Persist, Release, CommitRetry, TakeSlot
      <4> QED BY <1>1, <4>1 DEF Status
    <3>3. announced' = announced
      BY <2>5 DEF Reserve, Persist, CommitRetry, TakeSlot, Release
    <3>4. \A d \in announced : row'[d] = row[d]
      <4>1. CASE Persist(j)
        <5>1. mine[j] \notin announced
          BY <4>1 DEF Persist, IInv, OwnDocuments
        <5>2. row' = row \/ row' = [row EXCEPT ![mine[j]] = "PENDING"]
          BY <4>1 DEF Persist
        <5>3. announced \in SUBSET Doc
          BY TypeParts DEF IInv
        <5> QED BY <1>0, <5>1, <5>2, <5>3
      <4>2. CASE ~Persist(j)
        BY <2>5, <4>2 DEF Reserve, CommitRetry, TakeSlot, Release
      <4> QED BY <4>1, <4>2
    <3>5. announced' \cap Unfinished' \subseteq announced \cap Unfinished
      BY <3>3, <3>4 DEF Unfinished
    <3>6. \A k \in Job : stage[k] \in {"drive", "releaseDrive"} => stage'[k] = stage[k]
      BY <1>0, <1>3, <3>1
    <3> QED BY <3>2, <3>5, <3>6 DEF WorkIsDriven
  <2> QED BY <2>1, <2>2, <2>3, <2>4, <2>5
<1> QED BY <1>4, <1>5

\* In such a workspace no call fails, is cancelled or is killed.
LEMMA NoAccidents ==
    ASSUME IInv, Quiet, Undisturbed, NEW j \in Job
    PROVE  ~Accident(j) /\ ~Final(j)
<1>1. ~Crash(j)
  <2>1. {k \in Job : Dead(k)} = {}
    BY DEF Quiet, Dead
  <2>2. Cardinality({k \in Job : Dead(k)}) = 0
    BY <2>1, FS_EmptySet
  <2> QED BY <2>2 DEF Crash, Undisturbed
<1>2. ~Cancel(j) /\ ~Final(j)
  BY DEF Quiet, Cancel, Final, Step
<1> QED BY <1>1, <1>2 DEF Accident, Undisturbed, InternalError, Abort, LostDecision

\* Every step leaves the announced documents to somebody who will drive,
LEMMA NextDriven ==
    ASSUME IInv, Signalled, Quiet, Undisturbed, WorkIsDriven, Next
    PROVE  Quiet' /\ WorkIsDriven'
<1>1. PICK j \in Job : Advance(j) \/ Feeder(j)
  BY NoAccidents DEF Next
<1>2. CASE \/ Reserve(j) \/ Persist(j) \/ Rearm(j) \/ Release(j) \/ Publish(j)
           \/ CommitRetry(j) \/ Drive(j) \/ TakeSlot(j)
  BY <1>2, CallerDriven
<1>3. CASE Decide(j) \/ GiveBack(j) \/ Handoff(j)
  BY <1>3, ReleaseDriven, RunDriven
<1>4. CASE \/ Start(j) \/ BeginDrain(j) \/ Sweep(j) \/ Top(j) \/ Validate(j)
           \/ BatchJoined(j) \/ FeederStop(j) \/ BatchDone(j)
           \/ FetchPage(j) \/ FetchAuto(j) \/ FetchDocuments(j) \/ Rescan(j)
           \/ Wait(j) \/ Confirm(j) \/ EnterReset(j) \/ ResetPage(j) \/ Ack(j)
           \/ EndDrain(j) \/ Feeder(j)
           \/ \E d \in Doc : StartDoc(j, d) \/ FinishDoc(j, d)
  BY <1>4, RunDriven
<1> QED BY <1>1, <1>2, <1>3, <1>4, NoAccidents DEF Advance

\* and so does a stuttering step.
LEMMA StutterDriven ==
    ASSUME Quiet, WorkIsDriven, UNCHANGED vars PROVE Quiet' /\ WorkIsDriven'
<1>1. UNCHANGED <<row, status, stage, call, announced>>
  BY DEF vars, history
<1> QED BY <1>1 DEF Quiet, WorkIsDriven, Unfinished

\* Where nothing fails, nobody cancels and every enqueue drives, no announced
\* document is left waiting in a free workspace unless a call is about to drive:
\* whoever was turned away because the slot was held is served by the one who
\* gives it back (GiveBack, Handoff, the final decision under the lock).
THEOREM WorkGetsDriven == Undisturbed => (Spec => []WorkIsDriven)
<1> SUFFICES ASSUME Undisturbed PROVE Spec => []WorkIsDriven
  OBVIOUS
<1>1. Init => Quiet /\ WorkIsDriven
  <2> SUFFICES ASSUME Init PROVE Quiet /\ WorkIsDriven
    OBVIOUS
  <2>1. /\ ~status.cancel /\ stage = call /\ announced = {}
        /\ \A j \in Job : call[j] \in Calls
    BY DEF Init
  <2>2. \A j \in Job : /\ stage[j] \in Entry \ {"enqueue", "cancel"}
                       /\ stage[j] = call[j]
    BY <2>1, RunAssumption DEF Undisturbed
  <2>3. Quiet
    BY <2>1, <2>2 DEF Quiet, Entry, EnqueueStage
  <2> QED BY <2>1, <2>3 DEF WorkIsDriven
<1>2. IInv /\ Signalled /\ Quiet /\ WorkIsDriven /\ [Next]_vars
         => Quiet' /\ WorkIsDriven'
  BY NextDriven, StutterDriven
<1> QED BY <1>1, <1>2, Invariance, SignalsLive, PTL DEF Spec
=============================================================================
