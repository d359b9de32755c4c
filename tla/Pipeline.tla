------------------------------ MODULE Pipeline ------------------------------
(***************************************************************************)
(* From an accepted write to a searchable document.                        *)
(*                                                                         *)
(*   write/api.rs       append the batch's WAL segment, enqueue its job    *)
(*   build_worker.rs    take jobs; for each one list all WAL segments,     *)
(*                      allocate a version, build a full snapshot, publish *)
(*                      it, settle the job                                 *)
(*                                                                         *)
(* The queue is the ledger that BuildQueue is shown to implement; publish  *)
(* is IndexPublish reduced to what its callers see: the version check, the *)
(* CreateOnly uploads, the swap of _head.  On AWS jobs come one at a time  *)
(* from SQS, to as many concurrent Lambda containers as SQS likes, and a   *)
(* failed or lost delivery is charged by SQS alike.                        *)
(*                                                                         *)
(* A document is identified with the WAL segment of its batch: a head      *)
(* serves the segments its snapshot was built from.                        *)
(***************************************************************************)
EXTENDS Integers, FiniteSets

CONSTANTS
    Batches,       \* accepted writes, one batch id each
    Workers,       \* build workers
    OnAws,         \* TRUE: S3, SQS and Lambda; FALSE: SQLite and one process
    MaxAttempts,   \* max_attempts, or maxReceiveCount
    FaultyPublish, \* whether faults may strike between the first upload and the swap
    MaxVersion,    \* bound: version ids
    MaxFaults,     \* bound: crashes, failed builds, lost signals
    Nobody

ASSUME PipelineConstants ==
    /\ {OnAws, FaultyPublish} \subseteq BOOLEAN
    /\ MaxAttempts \in Nat \ {0}
    /\ MaxVersion \in Nat /\ MaxFaults \in Nat
    /\ Nobody \notin Workers

VARIABLES
    wal,       \* the WAL segments that exist
    replied,   \* batches whose writer got a success response
    status, holder, failed, buried,   \* the job queue: see JobLedger
    todo,      \* worker -> jobs it received and has not settled
    ws,        \* worker -> where it is in process_queue_message
    head,      \* _head, and the segments its version was built from
    taken,     \* versions that have parts in staging or in publish storage
    served,    \* history: segments that some head served
    faults     \* history: faults so far

queue == <<status, holder, failed, buried>>
vars == <<wal, replied, queue, todo, ws, head, taken, served, faults>>

Queue == INSTANCE JobLedger

Idle == [pc |-> "idle", job |-> Nobody, keys |-> {}, version |-> 0, expected |-> 0,
         retried |-> FALSE]

Init ==
    /\ wal = {} /\ replied = {} /\ served = {} /\ taken = {}
    /\ Queue!LedgerInit
    /\ todo = [w \in Workers |-> {}]
    /\ ws = [w \in Workers |-> Idle]
    /\ head = [version |-> 0, keys |-> {}]
    /\ faults = 0

----------------------------------------------------------------------------
(* WriteApi::append_and_enqueue *)

\* SQLite: one transaction.
WriteAtomic(b) ==
    /\ ~OnAws
    /\ b \notin wal
    /\ wal' = wal \cup {b}
    /\ replied' = replied \cup {b}
    /\ Queue!Post(b)
    /\ UNCHANGED <<todo, ws, head, taken, served, faults>>

\* The default: first the segment ...
Append(b) ==
    /\ OnAws
    /\ b \notin wal
    /\ wal' = wal \cup {b}
    /\ UNCHANGED <<replied, queue, todo, ws, head, taken, served, faults>>

\* ... then the job.  It may never come: the writer then sees an error that
\* says wal_persisted=true, or died.
Send(b) ==
    /\ OnAws
    /\ b \in wal \ replied
    /\ replied' = replied \cup {b}
    /\ Queue!Post(b)
    /\ UNCHANGED <<wal, todo, ws, head, taken, served, faults>>

----------------------------------------------------------------------------
(* run_build_job_loop_once, process_queue_message *)

At(w, pc) == ws[w].pc = pc
Goto(w, pc) == ws' = [ws EXCEPT ![w].pc = pc]

\* receive: all jobs that are due; one on AWS.  Which are due is up to the
\* back-off and the leases.
Receive(w) ==
    /\ todo[w] = {}
    /\ \E S \in SUBSET Batches :
        /\ OnAws => Cardinality(S) = 1
        /\ Queue!Take(w, S)
        /\ todo' = [todo EXCEPT ![w] = S]
    /\ UNCHANGED <<wal, replied, ws, head, taken, served, faults>>

\* Mutant of SnapshotKeys: only the segment of the message.
SnapshotOwnKey(b) == {b}

\* snapshot_wal_keys: the listing, and the segment of the message.
SnapshotKeys(b) == wal \cup {b}

List(w) ==
    /\ At(w, "idle")
    /\ \E b \in todo[w] :
        ws' = [ws EXCEPT ![w] = [pc |-> "listed", job |-> b, keys |-> SnapshotKeys(b),
                                 version |-> 0, expected |-> 0, retried |-> FALSE]]
    /\ UNCHANGED <<wal, replied, queue, todo, head, taken, served, faults>>

\* next_version_id; after a conflict only this is done again, the keys stay.
Allocate(w) ==
    /\ ws[w].pc \in {"listed", "conflict"}
    /\ head.version < MaxVersion
    /\ ws' = [ws EXCEPT ![w].pc = "build", ![w].version = head.version + 1,
                        ![w].expected = head.version, ![w].retried = At(w, "conflict")]
    /\ UNCHANGED <<wal, replied, queue, todo, head, taken, served, faults>>

Conflict(w) == Goto(w, IF ws[w].retried THEN "failed" ELSE "conflict")

\* IndexPublisher::publish, the checks: with expected = None (0) the version is
\* 1, which any head refuses.
Prepare(w) ==
    /\ At(w, "build")
    /\ IF head.version = ws[w].expected THEN Goto(w, "upload") ELSE Conflict(w)
    /\ UNCHANGED <<wal, replied, queue, todo, head, taken, served, faults>>

\* CreateOnly; a refusal is an error that is not retried.
Upload(w) ==
    /\ At(w, "upload")
    /\ IF ws[w].version \in taken THEN Goto(w, "failed") /\ UNCHANGED taken
       ELSE Goto(w, "swap") /\ taken' = taken \cup {ws[w].version}
    /\ UNCHANGED <<wal, replied, queue, todo, head, served, faults>>

Swap(w) ==
    /\ At(w, "swap")
    /\ IF head.version = ws[w].expected
       THEN /\ head' = [version |-> ws[w].version, keys |-> ws[w].keys]
            /\ served' = served \cup ws[w].keys
            /\ Goto(w, "published")
       ELSE Conflict(w) /\ UNCHANGED <<head, served>>
    /\ UNCHANGED <<wal, replied, queue, todo, taken, faults>>

Done(w) ==
    /\ ws' = [ws EXCEPT ![w] = Idle]
    /\ todo' = [todo EXCEPT ![w] = @ \ {ws[w].job}]

Owns(w) == holder[ws[w].job] = w

\* Mutant of Signal: ack whatever the outcome.
SignalAcks(w) ==
    \/ Queue!Complete(w, ws[w].job)
    \/ ~Owns(w) /\ UNCHANGED queue

\* ack after a success, nack after a failure; neither finds a row when the job
\* was taken back meanwhile.
Signal(w) ==
    \/ At(w, "published") /\ Queue!Complete(w, ws[w].job)
    \/ At(w, "failed") /\ Queue!Fail(w, ws[w].job)
    \/ ~Owns(w) /\ UNCHANGED queue

Settle(w) ==
    /\ ws[w].pc \in {"published", "failed"}
    /\ Signal(w)
    /\ Done(w)
    /\ UNCHANGED <<wal, replied, head, taken, served, faults>>

----------------------------------------------------------------------------
(* Faults *)

Fault == faults < MaxFaults /\ faults' = faults + 1

\* Reading the WAL, embedding, staging or uploading fails.
BuildFails(w) ==
    /\ Fault
    /\ At(w, "build") \/ (FaultyPublish /\ ws[w].pc \in {"upload", "swap"})
    /\ Goto(w, "failed")
    /\ UNCHANGED <<wal, replied, queue, todo, head, taken, served>>

Held(w) == {b \in Batches : holder[b] = w}

\* The worker is gone: SQLite frees its jobs when the lease ends; SQS redelivers
\* its message and counts that as an attempt.
Abandon(w) ==
    IF Held(w) = {} THEN UNCHANGED queue
    ELSE IF OnAws THEN \E b \in Held(w) : Queue!Fail(w, b) ELSE Queue!Forsake(w, Held(w))

Crash(w) ==
    /\ Fault
    /\ todo[w] # {}
    /\ ws[w].pc \in {"upload", "swap"} => FaultyPublish
    /\ Abandon(w)
    /\ ws' = [ws EXCEPT ![w] = Idle]
    /\ todo' = [todo EXCEPT ![w] = {}]
    /\ UNCHANGED <<wal, replied, head, taken, served>>

\* SQLite: "outcome signaling failed"; the loop goes on with the next job.
LoseSignal(w) ==
    /\ ~OnAws
    /\ Fault
    /\ ws[w].pc \in {"published", "failed"}
    /\ Owns(w)
    /\ Queue!Forsake(w, {ws[w].job})
    /\ Done(w)
    /\ UNCHANGED <<wal, replied, head, taken, served>>

----------------------------------------------------------------------------
Write(b) == WriteAtomic(b) \/ Append(b) \/ Send(b)

Step(w) ==
    Receive(w) \/ List(w) \/ Allocate(w) \/ Prepare(w) \/ Upload(w) \/ Swap(w) \/ Settle(w)

Next ==
    \/ \E b \in Batches : Write(b)
    \/ \E w \in Workers : Step(w)
    \/ \E w \in Workers : BuildFails(w) \/ Crash(w) \/ LoseSignal(w)

Spec == Init /\ [][Next]_vars

\* A worker that can go on does.  Nobody is obliged to write.
FairSpec == Spec /\ \A w \in Workers : WF_vars(Step(w))

----------------------------------------------------------------------------
\* With one worker a write that was answered with success is searchable, or its
\* job is still in the queue, or it is in the dead-letter queue: no crash, lost
\* ack, redelivery or failed publish loses it (build_worker.rs, write/api.rs).
NoAcceptedBatchLost ==
    \A b \in replied : b \in head.keys \/ status[b] # "none" \/ b \in buried

\* build_worker.rs:22-24: a version is a full snapshot of all segments, because
\* one built from fewer "would make the new head lose the documents of earlier
\* batches": no new head stops serving a segment.
HeadNeverForgets == [][head.keys \subseteq head'.keys]_vars

\* With any number of workers, leases that end early and late signals: a job
\* leaves the queue, other than by dying, only after some head served its
\* segment (build_worker.rs: ack only after run_build; queue.rs: claim token).
AckedWasServed ==
    \A b \in replied : b \in served \/ status[b] # "none" \/ b \in buried

\* With one worker that goes on after every fault, an accepted write becomes
\* searchable, unless its job ends in the dead-letter queue: a version blocked
\* half-way through its upload, a lost signal or a crash only delays it.
AcceptedBecomesSearchable ==
    \A b \in Batches : b \in replied ~> (b \in head.keys \/ b \in buried)
=============================================================================
