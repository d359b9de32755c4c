---------------------------- MODULE BuildQueue ----------------------------
(***************************************************************************)
(* The SQLite build-job queue (src/local/sqlite/queue.rs) and the loop     *)
(* that consumes it (run_build_job_loop_once in src/build_worker.rs).      *)
(*                                                                         *)
(* The table build_jobs holds one row per batch.  `receive` reclaims the   *)
(* rows whose lease ran out and claims every row that is due, giving each  *)
(* a fresh claim token; a worker settles what it received one delivery at  *)
(* a time, by `ack` or by `nack`, and both are conditioned on the token.   *)
(* Every transaction is BEGIN IMMEDIATE or a single statement, so each is  *)
(* one action here.                                                        *)
(*                                                                         *)
(* Time: the code compares absolute milliseconds.  Here each deadline is   *)
(* the time that is left before it, which Tick decreases:                  *)
(*     wait = max(0, available_at - now)                                   *)
(*     left = max(0, claimed_at + lease_ms - now)                          *)
(* Tokens: hex(randomblob(16)) never repeats.  A token is the pair of the  *)
(* batch and a nonce that no row and no delivery of that batch carries; a  *)
(* nonce that nobody holds any more may return, because no comparison can  *)
(* see it.                                                                 *)
(***************************************************************************)
EXTENDS Integers, FiniteSets

CONSTANTS
    Batches,      \* batch ids
    Workers,      \* processes that run run_build_job_loop
    Lease,        \* lease_ms, in ticks
    Backoff,      \* base_backoff_ms, in ticks
    MaxAttempts,  \* max_attempts
    Nonces,       \* the random part of claim tokens
    NoToken,      \* claim_token IS NULL
    MaxEnqueue,   \* bound: insert_build_job calls per batch
    MaxFaults     \* bound: crashes and failed ack/nack calls

ASSUME QueueConstants ==
    /\ Lease \in Nat \ {0}
    /\ Backoff \in Nat
    /\ MaxAttempts \in Nat \ {0}     \* max_attempts_from_env: >= 1
    /\ Nonces \subseteq Nat
    /\ NoToken \notin Nonces
    /\ "nobody" \notin Workers        \* see HolderOf
    /\ MaxEnqueue \in Nat
    /\ MaxFaults \in Nat

VARIABLES
    jobs,      \* build_jobs: batch -> row
    dead,      \* dead_jobs: batch -> attempts of its row, 0 when it has none
    inbox,     \* worker -> the deliveries it received and has not settled
    enqueued,  \* history: batch -> calls of insert_build_job
    built,     \* history: batch -> the last enqueue a worker processed with success
    failures,  \* history: batch -> failed processings since the last enqueue
    faults     \* history: crashes and failed ack/nack calls so far

vars == <<jobs, dead, inbox, enqueued, built, failures, faults>>

----------------------------------------------------------------------------
\* A row of build_jobs; "absent" is a batch without a row.
Row == [state    : {"absent", "ready", "claimed"},
        attempts : Nat,
        wait     : Nat,
        left     : Nat,
        token    : Nonces \cup {NoToken}]

NoRow == [state |-> "absent", attempts |-> 0, wait |-> 0, left |-> 0, token |-> NoToken]

\* A BuildJob in a worker's hands.  batch and nonce are its receipt; left (what
\* remains of the lease it was given) and enq (the enqueue it came from) are
\* history, no code reads them.
Delivery == [batch : Batches, nonce : Nonces, left : Nat, enq : Nat]

TypeOK ==
    /\ jobs \in [Batches -> Row]
    /\ dead \in [Batches -> Nat]
    /\ inbox \in [Workers -> SUBSET Delivery]
    /\ enqueued \in [Batches -> Nat]
    /\ built \in [Batches -> Nat]
    /\ failures \in [Batches -> Nat]
    /\ faults \in Nat

\* Mutant of Effective: the token is not compared.
EffectiveAnyToken(d) == jobs[d.batch].state = "claimed"

\* The WHERE of ack and nack: claim_token = receipt AND state = 'claimed'.
Effective(d) ==
    /\ jobs[d.batch].state = "claimed"
    /\ jobs[d.batch].token = d.nonce

\* Nonces of batch b that a row or a delivery carries.
InUse(b) ==
    {jobs[b].token} \cup {n \in Nonces : \E w \in Workers : \E d \in inbox[w] :
                                            d.batch = b /\ d.nonce = n}

\* Mutant of Dec: a deadline that passed is not at an end.
DecBelowZero(n) == n - 1

Dec(n) == IF n = 0 THEN 0 ELSE n - 1

----------------------------------------------------------------------------
Init ==
    /\ jobs = [b \in Batches |-> NoRow]
    /\ dead = [b \in Batches |-> 0]
    /\ inbox = [w \in Workers |-> {}]
    /\ enqueued = [b \in Batches |-> 0]
    /\ built = [b \in Batches |-> 0]
    /\ failures = [b \in Batches |-> 0]
    /\ faults = 0

\* Mutant of Upsert: attempts is not among the columns it resets.
UpsertKeepsAttempts(row) == [row EXCEPT !.state = "ready", !.wait = 0, !.left = 0]

\* insert_build_job: an UPSERT that makes the row ready again; claim_token is
\* not among the columns it writes.
Upsert(row) == [row EXCEPT !.state = "ready", !.attempts = 0, !.wait = 0, !.left = 0]

Enqueue(b) ==
    /\ enqueued[b] < MaxEnqueue
    /\ jobs' = [jobs EXCEPT ![b] = Upsert(@)]
    /\ enqueued' = [enqueued EXCEPT ![b] = @ + 1]
    /\ failures' = [failures EXCEPT ![b] = 0]
    /\ UNCHANGED <<dead, inbox, built, faults>>

\* Mutants of Expired: the lease is not looked at; the wrong state is.
ExpiredAtOnce(b) == jobs[b].state = "claimed"
ExpiredReady(b) == jobs[b].state = "ready" /\ jobs[b].left = 0

\* receive, first statement: rows claimed a whole lease ago.
Expired(b) == jobs[b].state = "claimed" /\ jobs[b].left = 0

\* receive, second statement: ready rows (those just reclaimed too) that are due.
Claimable(b) == (jobs[b].state = "ready" \/ Expired(b)) /\ jobs[b].wait = 0

Claimed(row, n) == [row EXCEPT !.state = "claimed", !.left = Lease, !.token = n]

Reclaimed(row) == [row EXCEPT !.state = "ready", !.left = 0, !.token = NoToken]

\* A token nobody carries; the least one, since any will do.
Fresh(b, n) == n \notin InUse(b) /\ \A m \in Nonces : m < n => m \in InUse(b)

Delivered(b, n) == [batch |-> b, nonce |-> n, left |-> Lease, enq |-> enqueued[b]]

\* receive: reclaim and claim in one transaction.  The loop calls it only when
\* it has gone through all the jobs of the last call.
Receive(w) ==
    /\ inbox[w] = {}
    /\ \E b \in Batches : Claimable(b)
    /\ \E nonce \in [{b \in Batches : Claimable(b)} -> Nonces] :
        /\ \A b \in DOMAIN nonce : Fresh(b, nonce[b])
        /\ jobs' = [b \in Batches |->
                      IF b \in DOMAIN nonce THEN Claimed(jobs[b], nonce[b])
                      ELSE IF Expired(b) THEN Reclaimed(jobs[b]) ELSE jobs[b]]
        /\ inbox' = [inbox EXCEPT ![w] =
                      {Delivered(b, nonce[b]) : b \in DOMAIN nonce}]
    /\ UNCHANGED <<dead, enqueued, built, failures, faults>>

\* The worker is done with delivery d, whatever the queue makes of it.
Drop(w, d) == inbox' = [inbox EXCEPT ![w] = @ \ {d}]

\* Mutant of AckRows: DELETE by batch id alone.
AckRowsByBatch(d) == [jobs EXCEPT ![d.batch] = NoRow]

\* ack: DELETE the row this very delivery holds; 0 rows otherwise.
AckRows(d) == IF Effective(d) THEN [jobs EXCEPT ![d.batch] = NoRow] ELSE jobs

\* process_queue_message succeeded: ack.
Ack(w, d) ==
    /\ d \in inbox[w]
    /\ Drop(w, d)
    /\ jobs' = AckRows(d)
    /\ built' = [built EXCEPT ![d.batch] = IF d.enq > @ THEN d.enq ELSE @]
    /\ UNCHANGED <<dead, enqueued, failures, faults>>

\* nack: retry with a linear back-off, or the dead-letter table at MaxAttempts.
Retried(row) ==
    [state |-> "ready", attempts |-> row.attempts + 1, wait |-> Backoff * (row.attempts + 1),
     left |-> 0, token |-> NoToken]

Exhausted(row) == row.attempts + 1 >= MaxAttempts

\* Mutant of NackRows: a nack by batch id alone.
NackRowsByBatch(d) ==
    [jobs EXCEPT ![d.batch] = IF @.state = "absent" THEN @
                              ELSE IF Exhausted(@) THEN NoRow ELSE Retried(@)]

NackRows(d) ==
    IF ~Effective(d) THEN jobs
    ELSE [jobs EXCEPT ![d.batch] = IF Exhausted(@) THEN NoRow ELSE Retried(@)]

NackDead(d) ==
    IF Effective(d) /\ Exhausted(jobs[d.batch])
    THEN [dead EXCEPT ![d.batch] = jobs[d.batch].attempts + 1]
    ELSE dead

\* process_queue_message failed: nack.  The failure count saturates.
Nack(w, d) ==
    /\ d \in inbox[w]
    /\ Drop(w, d)
    /\ jobs' = NackRows(d)
    /\ dead' = NackDead(d)
    /\ failures' = IF d.enq = enqueued[d.batch] /\ failures[d.batch] < MaxAttempts
                   THEN [failures EXCEPT ![d.batch] = @ + 1] ELSE failures
    /\ UNCHANGED <<enqueued, built, faults>>

\* "outcome signaling failed": ack or nack returned an error and changed
\* nothing; the loop logs it and goes on.
LoseSignal(w, d) ==
    /\ faults < MaxFaults
    /\ d \in inbox[w]
    /\ Drop(w, d)
    /\ faults' = faults + 1
    /\ UNCHANGED <<jobs, dead, enqueued, built, failures>>

\* The worker process dies; a new one starts with nothing in hand.
Crash(w) ==
    /\ faults < MaxFaults
    /\ inbox[w] # {}
    /\ inbox' = [inbox EXCEPT ![w] = {}]
    /\ faults' = faults + 1
    /\ UNCHANGED <<jobs, dead, enqueued, built, failures>>

Aged(row) == [row EXCEPT !.wait = Dec(@), !.left = Dec(@)]

Older(d) == [d EXCEPT !.left = Dec(@)]

\* The clock advances (it is assumed not to run backwards).
Tick ==
    /\ jobs' = [b \in Batches |-> Aged(jobs[b])]
    /\ inbox' = [w \in Workers |-> {Older(d) : d \in inbox[w]}]
    /\ UNCHANGED <<dead, enqueued, built, failures, faults>>

Settle(w) == \E d \in inbox[w] : Ack(w, d) \/ Nack(w, d)

Next ==
    \/ \E b \in Batches : Enqueue(b)
    \/ \E w \in Workers : Receive(w)
    \/ \E w \in Workers : \E d \in inbox[w] : Ack(w, d)
    \/ \E w \in Workers : \E d \in inbox[w] : Nack(w, d)
    \/ \E w \in Workers : \E d \in inbox[w] : LoseSignal(w, d)
    \/ \E w \in Workers : Crash(w)
    \/ Tick

Spec == Init /\ [][Next]_vars

\* The worker loop keeps polling, every job it takes comes to an end, and time
\* passes.  Nothing obliges a producer to enqueue or a worker to crash.
FairSpec ==
    /\ Spec
    /\ \A w \in Workers : WF_vars(Receive(w)) /\ WF_vars(Settle(w))
    /\ WF_vars(Tick)

----------------------------------------------------------------------------
\* Of all the deliveries of a batch in the hands of any worker, at most one can
\* still change its row: a late ack or nack of a reclaimed delivery never
\* settles the delivery that replaced it (queue.rs: the claim token).
OneEffectiveDelivery ==
    \A w1, w2 \in Workers : \A d1 \in inbox[w1], d2 \in inbox[w2] :
        d1.batch = d2.batch /\ Effective(d1) /\ Effective(d2) => w1 = w2 /\ d1 = d2

\* While a worker is within its lease nobody else is given the same job: two
\* deliveries of one enqueue are never both unexpired (queue.rs: receive takes
\* back only rows with claimed_at <= now - lease_ms).
LeaseExclusive ==
    \A w1, w2 \in Workers : \A d1 \in inbox[w1], d2 \in inbox[w2] :
        d1.batch = d2.batch /\ d1.enq = d2.enq
            => (w1 = w2 /\ d1 = d2) \/ d1.left = 0 \/ d2.left = 0

\* A job leaves the queue only for a reason that belongs to its last enqueue:
\* some worker processed that enqueue with success, or MaxAttempts processings
\* of it failed and the dead-letter table has it (queue.rs: ack, nack).
SettledForCause ==
    \A b \in Batches :
        enqueued[b] > 0 /\ jobs[b].state = "absent" =>
            \/ built[b] = enqueued[b]
            \/ dead[b] = MaxAttempts /\ failures[b] = MaxAttempts

\* The attempts charged to a live job are failures that happened, and fewer
\* than MaxAttempts; a dead letter was charged exactly MaxAttempts (queue.rs:
\* nack; a reclaimed lease charges nothing).
AttemptsAreFailures ==
    \A b \in Batches :
        /\ jobs[b].attempts <= failures[b]
        /\ jobs[b].attempts < MaxAttempts
        /\ dead[b] \in {0, MaxAttempts}

\* Every job that is enqueued is eventually acked or dead-lettered, through
\* crashes, lost acks, back-off and lease expiry (queue.rs: header, "lease",
\* "dead letter").  It needs MaxFaults: a job that kills its worker every time
\* is never charged an attempt.
EveryJobSettles ==
    \A b \in Batches : jobs[b].state # "absent" ~> jobs[b].state = "absent"

----------------------------------------------------------------------------
\* The queue as an exclusive-ownership ledger: see JobLedger.
HolderOf(b) ==
    IF \E w \in Workers : \E d \in inbox[w] : d.batch = b /\ Effective(d)
    THEN CHOOSE w \in Workers : \E d \in inbox[w] : d.batch = b /\ Effective(d)
    ELSE "nobody"

StatusOf(row) == CASE row.state = "absent"  -> "none"
                   [] row.state = "ready"   -> "waiting"
                   [] row.state = "claimed" -> "held"

Ledger == INSTANCE JobLedger WITH
    status   <- [b \in Batches |-> StatusOf(jobs[b])],
    holder   <- [b \in Batches |-> HolderOf(b)],
    failed   <- [b \in Batches |-> jobs[b].attempts],
    buried   <- {b \in Batches : dead[b] > 0},
    Nobody   <- "nobody"

\* The queue implements the ledger: only the worker that owns a job can finish
\* or fail it, whatever late calls other workers make (queue.rs: header).
ImplementsLedger == Ledger!Spec
============================================================================
