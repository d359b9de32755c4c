----------------------------- MODULE JobLedger -----------------------------
(***************************************************************************)
(* What the build-job queue promises its workers, without tokens, leases   *)
(* or clocks: a job has at most one owner, only its owner can finish or    *)
(* fail it, and a job that failed MaxAttempts times is buried.             *)
(***************************************************************************)
EXTENDS Naturals

CONSTANTS Batches, Workers, MaxAttempts, Nobody

VARIABLES
    status,  \* batch -> "none", "waiting" or "held"
    holder,  \* batch -> the worker that owns it, or Nobody
    failed,  \* batch -> failures charged to it
    buried   \* batches that were ever dead-lettered

lvars == <<status, holder, failed, buried>>

LedgerInit ==
    /\ status = [b \in Batches |-> "none"]
    /\ holder = [b \in Batches |-> Nobody]
    /\ failed = [b \in Batches |-> 0]
    /\ buried = {}

\* A producer posts b (again): whoever owned it does not any more.
Post(b) ==
    /\ status' = [status EXCEPT ![b] = "waiting"]
    /\ holder' = [holder EXCEPT ![b] = Nobody]
    /\ failed' = [failed EXCEPT ![b] = 0]
    /\ UNCHANGED buried

\* Worker w, which owns nothing, becomes the owner of every job of S; a job
\* that was held is taken from its owner.
Take(w, S) ==
    /\ \A b \in Batches : holder[b] # w
    /\ S # {} /\ \A b \in S : status[b] # "none"
    /\ status' = [b \in Batches |-> IF b \in S THEN "held" ELSE status[b]]
    /\ holder' = [b \in Batches |-> IF b \in S THEN w ELSE holder[b]]
    /\ UNCHANGED <<failed, buried>>

\* The owner finished the job.
Complete(w, b) ==
    /\ holder[b] = w
    /\ status' = [status EXCEPT ![b] = "none"]
    /\ holder' = [holder EXCEPT ![b] = Nobody]
    /\ failed' = [failed EXCEPT ![b] = 0]
    /\ UNCHANGED buried

\* The owner failed the job: it waits for its next attempt, or is buried.
Fail(w, b) ==
    /\ holder[b] = w
    /\ holder' = [holder EXCEPT ![b] = Nobody]
    /\ \/ /\ failed[b] + 1 < MaxAttempts
          /\ status' = [status EXCEPT ![b] = "waiting"]
          /\ failed' = [failed EXCEPT ![b] = @ + 1]
          /\ UNCHANGED buried
       \/ /\ failed[b] + 1 = MaxAttempts
          /\ status' = [status EXCEPT ![b] = "none"]
          /\ failed' = [failed EXCEPT ![b] = 0]
          /\ buried' = buried \cup {b}

\* The owner of the jobs of S is gone, or cannot reach the queue.
Forsake(w, S) ==
    /\ S # {} /\ \A b \in S : holder[b] = w
    /\ holder' = [b \in Batches |-> IF b \in S THEN Nobody ELSE holder[b]]
    /\ UNCHANGED <<status, failed, buried>>

LedgerNext ==
    \/ \E b \in Batches : Post(b)
    \/ \E w \in Workers, S \in SUBSET Batches : Take(w, S) \/ Forsake(w, S)
    \/ \E w \in Workers, b \in Batches : Complete(w, b) \/ Fail(w, b)

Spec == LedgerInit /\ [][LedgerNext]_lvars
============================================================================
