-------------------------- MODULE BuildQueueProofs --------------------------
(***************************************************************************)
(* BuildQueue for any number of batches, workers, enqueues and faults: who *)
(* owns a job, what a claim may do, and the ledger the queue implements.   *)
(***************************************************************************)
EXTENDS BuildQueue, TLAPS

\* The columns each statement writes (queue.rs: insert_build_job, receive, nack),
\* and the passage of time.
LEMMA UpsertRow ==
    ASSUME NEW row \in Row
    PROVE  /\ Upsert(row) \in Row
           /\ Upsert(row).state = "ready" /\ Upsert(row).attempts = 0
           /\ Upsert(row).token = row.token
  BY DEF Upsert, Row

\* receive, the UPDATE that claims.
LEMMA ClaimedRow ==
    ASSUME NEW row \in Row, NEW n \in Nonces
    PROVE  /\ Claimed(row, n) \in Row
           /\ Claimed(row, n).state = "claimed" /\ Claimed(row, n).left = Lease
           /\ Claimed(row, n).token = n /\ Claimed(row, n).attempts = row.attempts
  BY QueueConstants DEF Claimed, Row

\* receive, the UPDATE that reclaims.
LEMMA ReclaimedRow ==
    ASSUME NEW row \in Row
    PROVE  /\ Reclaimed(row) \in Row
           /\ Reclaimed(row).state = "ready" /\ Reclaimed(row).attempts = row.attempts
           /\ Reclaimed(row).token = NoToken
  BY DEF Reclaimed, Row

\* nack, the UPDATE that schedules the next attempt.
LEMMA RetriedRow ==
    ASSUME NEW row \in Row
    PROVE  /\ Retried(row) \in Row
           /\ Retried(row).state = "ready" /\ Retried(row).attempts = row.attempts + 1
           /\ Retried(row).token = NoToken
<1>1. row.attempts + 1 \in Nat
  BY DEF Row
<1>2. \A x, y \in Nat : x * y \in Nat
  BY SMT
<1>3. Backoff * (row.attempts + 1) \in Nat
  BY <1>1, <1>2, QueueConstants
<1> QED  BY <1>1, <1>3 DEF Retried, Row

\* The clock only shortens waits and leases.
LEMMA AgedRow ==
    ASSUME NEW row \in Row
    PROVE  /\ Aged(row) \in Row
           /\ Aged(row).state = row.state /\ Aged(row).attempts = row.attempts
           /\ Aged(row).token = row.token /\ Aged(row).left = Dec(row.left)
<1>1. Dec(row.wait) \in Nat /\ Dec(row.left) \in Nat
  BY DEF Dec, Row
<1> QED  BY <1>1 DEF Aged, Row

\* The clock only shortens what is left of a delivery's lease.
LEMMA OlderDelivery ==
    ASSUME NEW d \in Delivery
    PROVE  /\ Older(d) \in Delivery
           /\ Older(d).batch = d.batch /\ Older(d).nonce = d.nonce
           /\ Older(d).enq = d.enq /\ Older(d).left = Dec(d.left)
  BY DEF Older, Dec, Delivery

\* A batch without a row.
LEMMA EmptyRow == NoRow \in Row /\ NoRow.state = "absent" /\ NoRow.attempts = 0
  BY DEF NoRow, Row

\* What a call of receive does to the rows and to the caller's hands.
ReceiveWith(w, nonce) ==
    /\ \A b \in Batches : Claimable(b) => nonce[b] \in Nonces /\ Fresh(b, nonce[b])
    /\ jobs' = [b \in Batches |->
                  IF Claimable(b) THEN Claimed(jobs[b], nonce[b])
                  ELSE IF Expired(b) THEN Reclaimed(jobs[b]) ELSE jobs[b]]
    /\ inbox[w] = {}
    /\ inbox' = [inbox EXCEPT ![w] =
                  {Delivered(b, nonce[b]) : b \in {c \in Batches : Claimable(c)}}]

\* The same as the action Receive, without the domain of the choice of tokens.
LEMMA ReceiveEffect ==
    ASSUME NEW w \in Workers, Receive(w)
    PROVE  \E nonce : ReceiveWith(w, nonce)
<1>1. PICK nonce \in [{b \in Batches : Claimable(b)} -> Nonces] :
         /\ \A b \in DOMAIN nonce : Fresh(b, nonce[b])
         /\ jobs' = [b \in Batches |->
                       IF b \in DOMAIN nonce THEN Claimed(jobs[b], nonce[b])
                       ELSE IF Expired(b) THEN Reclaimed(jobs[b]) ELSE jobs[b]]
         /\ inbox' = [inbox EXCEPT ![w] = {Delivered(b, nonce[b]) : b \in DOMAIN nonce}]
  BY DEF Receive
<1>2. DOMAIN nonce = {b \in Batches : Claimable(b)}
  OBVIOUS
<1> HIDE DEF Claimable, Expired, Claimed, Reclaimed, Fresh, Delivered
<1>3. \A b \in Batches : Claimable(b) => nonce[b] \in Nonces /\ Fresh(b, nonce[b])
  BY <1>1, <1>2
<1>4. jobs' = [b \in Batches |->
                  IF Claimable(b) THEN Claimed(jobs[b], nonce[b])
                  ELSE IF Expired(b) THEN Reclaimed(jobs[b]) ELSE jobs[b]]
  BY <1>1, <1>2
<1>5. inbox[w] = {}
  BY DEF Receive
<1>6. inbox' = [inbox EXCEPT ![w] =
                  {Delivered(b, nonce[b]) : b \in {c \in Batches : Claimable(c)}}]
  BY <1>1, <1>2
<1>7. ReceiveWith(w, nonce)
  BY <1>3, <1>4, <1>5, <1>6 DEF ReceiveWith
<1> QED  BY <1>7

\* Every transaction of queue.rs and every step of the worker loop keeps the
\* rows, the dead letters and the deliveries well formed.
LEMMA TypeStep == TypeOK /\ [Next]_vars => TypeOK'
<1> SUFFICES ASSUME TypeOK, [Next]_vars PROVE TypeOK'
  OBVIOUS
<1> USE DEF TypeOK
<1>1. ASSUME NEW b \in Batches, Enqueue(b) PROVE TypeOK'
  BY <1>1, UpsertRow DEF Enqueue
<1>2. ASSUME NEW w \in Workers, Receive(w) PROVE TypeOK'
  <2>1. PICK nonce : ReceiveWith(w, nonce)
    BY <1>2, ReceiveEffect
  <2>2. jobs' \in [Batches -> Row]
    BY <2>1, ClaimedRow, ReclaimedRow DEF ReceiveWith
  <2>3. inbox' \in [Workers -> SUBSET Delivery]
    BY <2>1, QueueConstants DEF ReceiveWith, Delivered, Delivery
  <2> QED  BY <1>2, <2>2, <2>3 DEF Receive
<1>3. ASSUME NEW w \in Workers, NEW d \in inbox[w], Ack(w, d) PROVE TypeOK'
  <2>1. d \in Delivery
    OBVIOUS
  <2> QED  BY <1>3, <2>1, EmptyRow DEF Ack, Drop, AckRows, Delivery
<1>4. ASSUME NEW w \in Workers, NEW d \in inbox[w], Nack(w, d) PROVE TypeOK'
  <2>1. d \in Delivery
    OBVIOUS
  <2>2. jobs' \in [Batches -> Row]
    BY <1>4, <2>1, RetriedRow, EmptyRow DEF Nack, NackRows, Delivery
  <2>3. dead' \in [Batches -> Nat] /\ failures' \in [Batches -> Nat]
    BY <1>4, <2>1 DEF Nack, NackDead, Row, Delivery
  <2> QED  BY <1>4, <2>2, <2>3 DEF Nack, Drop
<1>5. ASSUME NEW w \in Workers, NEW d \in inbox[w], LoseSignal(w, d) PROVE TypeOK'
  BY <1>5 DEF LoseSignal, Drop
<1>6. ASSUME NEW w \in Workers, Crash(w) PROVE TypeOK'
  BY <1>6 DEF Crash
<1>7. ASSUME Tick PROVE TypeOK'
  <2>1. jobs' \in [Batches -> Row]
    BY <1>7, AgedRow DEF Tick
  <2>2. inbox' \in [Workers -> SUBSET Delivery]
    BY <1>7, OlderDelivery DEF Tick
  <2> QED  BY <1>7, <2>1, <2>2 DEF Tick
<1>8. CASE UNCHANGED vars
  BY <1>8 DEF vars
<1> QED  BY <1>1, <1>2, <1>3, <1>4, <1>5, <1>6, <1>7, <1>8 DEF Next

----------------------------------------------------------------------------
(* The inductive invariant.  OneEffectiveDelivery follows from the tokens'   *)
(* uniqueness; LeaseExclusive and SettledForCause need to know what the      *)
(* delivery of a claimed row, and the other deliveries of its batch, carry.  *)

DeliveredBefore ==
    \A w \in Workers : \A d \in inbox[w] : d.enq <= enqueued[d.batch]

TokensUnique ==
    \A w1, w2 \in Workers : \A d1 \in inbox[w1], d2 \in inbox[w2] :
        d1.batch = d2.batch /\ d1.nonce = d2.nonce => w1 = w2 /\ d1 = d2

EffectiveIsCurrent ==
    \A w \in Workers : \A d \in inbox[w] :
        Effective(d) => d.enq = enqueued[d.batch] /\ d.left = jobs[d.batch].left

SupersededIsExpired ==
    \A w \in Workers : \A d \in inbox[w] :
        d.enq = enqueued[d.batch] /\ ~Effective(d) => d.left = 0

CountersBounded ==
    \A b \in Batches : built[b] <= enqueued[b] /\ failures[b] <= MaxAttempts

DeliveryInv == DeliveredBefore /\ TokensUnique /\ EffectiveIsCurrent /\ SupersededIsExpired

RowInv == CountersBounded /\ AttemptsAreFailures /\ SettledForCause

IInv == TypeOK /\ DeliveryInv /\ LeaseExclusive /\ RowInv

\* An empty queue and empty hands.
LEMMA InvInit == Init => IInv
<1> SUFFICES ASSUME Init PROVE IInv
  OBVIOUS
<1>1. TypeOK
  BY EmptyRow DEF Init, TypeOK
<1>2. DeliveryInv /\ LeaseExclusive
  BY DEF Init, DeliveryInv, DeliveredBefore, TokensUnique, EffectiveIsCurrent,
         SupersededIsExpired, LeaseExclusive
<1>3. RowInv
  BY EmptyRow, QueueConstants
  DEF Init, RowInv, CountersBounded, AttemptsAreFailures, SettledForCause
<1> QED  BY <1>1, <1>2, <1>3 DEF IInv

\* No step changes the attempts charged, the counters or the fate of a batch
\* but in the way SettledForCause and AttemptsAreFailures allow.
LEMMA RowStep == IInv /\ [Next]_vars => RowInv'
<1> SUFFICES ASSUME IInv, [Next]_vars PROVE RowInv'
  OBVIOUS
<1> USE DEF RowInv, CountersBounded, AttemptsAreFailures, SettledForCause
<1>0. TypeOK /\ TypeOK' /\ RowInv /\ DeliveryInv
  BY TypeStep DEF IInv
<1>1. ASSUME NEW b \in Batches, Enqueue(b) PROVE RowInv'
  BY <1>0, <1>1, UpsertRow, QueueConstants DEF Enqueue, TypeOK
<1>2. ASSUME NEW w \in Workers, Receive(w) PROVE RowInv'
  <2>1. PICK nonce : ReceiveWith(w, nonce)
    BY <1>2, ReceiveEffect
  <2>2. ASSUME NEW b \in Batches
        PROVE  /\ jobs'[b].attempts = jobs[b].attempts
               /\ jobs'[b].state = "absent" <=> jobs[b].state = "absent"
    BY <1>0, <2>1, ClaimedRow, ReclaimedRow DEF ReceiveWith, Claimable, Expired, TypeOK
  <2> QED  BY <1>0, <1>2, <2>2 DEF Receive
<1>3. ASSUME NEW w \in Workers, NEW d \in inbox[w], Ack(w, d) PROVE RowInv'
  <2>1. d \in Delivery /\ d.batch \in Batches /\ d.enq \in Nat /\ d.enq <= enqueued[d.batch]
    BY <1>0 DEF TypeOK, Delivery, DeliveryInv, DeliveredBefore
  <2>2. Effective(d) => d.enq = enqueued[d.batch]
    BY <1>0 DEF DeliveryInv, EffectiveIsCurrent
  <2> QED  BY <1>0, <1>3, <2>1, <2>2, EmptyRow, QueueConstants DEF Ack, AckRows, TypeOK, Row
<1>4. ASSUME NEW w \in Workers, NEW d \in inbox[w], Nack(w, d) PROVE RowInv'
  <2>1. d \in Delivery /\ d.batch \in Batches
    BY <1>0 DEF TypeOK, Delivery
  <2>2. Effective(d) => d.enq = enqueued[d.batch]
    BY <1>0 DEF DeliveryInv, EffectiveIsCurrent
  <2>3. CASE ~Effective(d)
    <3>1. jobs' = jobs /\ dead' = dead
      BY <1>4, <2>3 DEF Nack, NackRows, NackDead
    <3>2. ASSUME NEW b \in Batches
          PROVE  /\ failures[b] <= failures'[b] /\ failures'[b] <= MaxAttempts
                 /\ failures[b] \in Nat /\ failures'[b] \in Nat /\ jobs[b].attempts \in Nat
      BY <1>0, <1>4, <2>1, QueueConstants DEF Nack, TypeOK, Row
    <3>3. enqueued' = enqueued /\ built' = built
      BY <1>4 DEF Nack
    <3> QED  BY <1>0, <3>1, <3>2, <3>3, QueueConstants
  <2>4. CASE Effective(d)
    <3> DEFINE b == d.batch
    <3>1. jobs[b].state = "claimed" /\ d.enq = enqueued[b]
      BY <2>2, <2>4 DEF Effective
    <3>2. failures' = IF failures[b] < MaxAttempts THEN [failures EXCEPT ![b] = @ + 1]
                      ELSE failures
      BY <1>4, <3>1 DEF Nack
    <3>3. /\ jobs[b] \in Row /\ jobs[b].attempts \in Nat
          /\ jobs[b].attempts < MaxAttempts /\ jobs[b].attempts <= failures[b]
      BY <1>0, <2>1 DEF TypeOK, Row
    <3>4. CASE Exhausted(jobs[b])
      <4>0. jobs[b].attempts + 1 = MaxAttempts
        BY <3>3, <3>4, QueueConstants DEF Exhausted
      <4>1. jobs' = [jobs EXCEPT ![b] = NoRow] /\ dead' = [dead EXCEPT ![b] = MaxAttempts]
        BY <1>4, <2>4, <3>4, <4>0 DEF Nack, NackRows, NackDead
      <4>2. failures'[b] = MaxAttempts
        <5>1. failures[b] \in Nat /\ failures[b] <= MaxAttempts
          BY <1>0, <2>1 DEF TypeOK
        <5>2. failures[b] = MaxAttempts \/ failures[b] + 1 = MaxAttempts
          BY <3>3, <4>0, <5>1, QueueConstants
        <5>3. failures' = IF failures[b] < MaxAttempts
                          THEN [failures EXCEPT ![b] = failures[b] + 1] ELSE failures
          BY <3>2
        <5> HIDE DEF b
        <5> QED  BY <1>0, <2>1, <5>1, <5>2, <5>3, QueueConstants DEF TypeOK, b
      <4> HIDE DEF b
      <4> QED  BY <1>0, <1>4, <2>1, <3>2, <4>1, <4>2, EmptyRow, QueueConstants DEF Nack, TypeOK
    <3>5. CASE ~Exhausted(jobs[b])
      <4>1. jobs' = [jobs EXCEPT ![b] = Retried(jobs[b])] /\ dead' = dead
        BY <1>4, <2>4, <3>5 DEF Nack, NackRows, NackDead
      <4>2. jobs[b].attempts + 1 < MaxAttempts
        BY <3>3, <3>5, QueueConstants DEF Exhausted
      <4>3. Retried(jobs[b]).state = "ready" /\ Retried(jobs[b]).attempts = jobs[b].attempts + 1
        BY <3>3, RetriedRow
      <4>4. jobs[b].attempts + 1 <= failures'[b]
        BY <1>0, <2>1, <3>2, <3>3, <4>2, QueueConstants DEF TypeOK
      <4> HIDE DEF b
      <4> QED  BY <1>0, <1>4, <2>1, <3>2, <3>3, <4>1, <4>2, <4>3, <4>4, QueueConstants
               DEF Nack, TypeOK
    <3> QED  BY <3>4, <3>5
  <2> QED  BY <2>3, <2>4
<1>5. ASSUME NEW w \in Workers, NEW d \in inbox[w], LoseSignal(w, d) PROVE RowInv'
  BY <1>0, <1>5 DEF LoseSignal
<1>6. ASSUME NEW w \in Workers, Crash(w) PROVE RowInv'
  BY <1>0, <1>6 DEF Crash
<1>7. ASSUME Tick PROVE RowInv'
  BY <1>0, <1>7, AgedRow DEF Tick, TypeOK
<1>8. CASE UNCHANGED vars
  BY <1>0, <1>8 DEF vars
<1> QED  BY <1>1, <1>2, <1>3, <1>4, <1>5, <1>6, <1>7, <1>8 DEF Next

\* When deliveries only leave hands and no batch is enqueued, uniqueness, age and
\* exclusiveness stay as they were.
LEMMA FewerDeliveries ==
    ASSUME DeliveryInv, LeaseExclusive, enqueued' = enqueued,
           \A w \in Workers : inbox'[w] \subseteq inbox[w]
    PROVE  DeliveredBefore' /\ TokensUnique' /\ LeaseExclusive'
<1>1. DeliveredBefore'
  BY DEF DeliveryInv, DeliveredBefore
<1>2. TokensUnique'
  BY DEF DeliveryInv, TokensUnique
<1>3. LeaseExclusive'
  BY DEF LeaseExclusive
<1> QED  BY <1>1, <1>2, <1>3

\* And if moreover a row changes only under a delivery that has just left, so do
\* the facts that tie deliveries to rows.
LEMMA SettledDeliveries ==
    ASSUME IInv, enqueued' = enqueued,
           \A w \in Workers : inbox'[w] \subseteq inbox[w],
           \A w \in Workers : \A d \in inbox'[w] :
               /\ Effective(d)' => Effective(d)
               /\ Effective(d) => jobs'[d.batch] = jobs[d.batch]
    PROVE  DeliveryInv' /\ LeaseExclusive'
<1>1. DeliveredBefore' /\ TokensUnique' /\ LeaseExclusive'
  BY FewerDeliveries DEF IInv
<1>2. EffectiveIsCurrent'
  <2> SUFFICES ASSUME NEW w \in Workers, NEW d \in inbox'[w], Effective(d)'
               PROVE  d.enq = enqueued'[d.batch] /\ d.left = jobs'[d.batch].left
    BY DEF EffectiveIsCurrent
  <2>1. d \in inbox[w] /\ Effective(d) /\ jobs'[d.batch] = jobs[d.batch]
    OBVIOUS
  <2> QED  BY <2>1 DEF IInv, DeliveryInv, EffectiveIsCurrent
<1>3. SupersededIsExpired'
  <2> SUFFICES ASSUME NEW w \in Workers, NEW d \in inbox'[w],
                      d.enq = enqueued'[d.batch], ~Effective(d)'
               PROVE  d.left = 0
    BY DEF SupersededIsExpired
  <2>1. d \in inbox[w]
    OBVIOUS
  <2>2. ~Effective(d)
    BY DEF Effective
  <2> QED  BY <2>1, <2>2 DEF IInv, DeliveryInv, SupersededIsExpired
<1> QED  BY <1>1, <1>2, <1>3 DEF DeliveryInv

\* A settled delivery takes its row with it, and no other delivery holds it.
LEMMA SettleKeepsDeliveries ==
    ASSUME IInv, NEW w \in Workers, NEW d \in inbox[w], Drop(w, d), enqueued' = enqueued,
           NEW row, row.state # "claimed",
           jobs' = IF Effective(d) THEN [jobs EXCEPT ![d.batch] = row] ELSE jobs
    PROVE  DeliveryInv' /\ LeaseExclusive'
<1>1. inbox \in [Workers -> SUBSET Delivery] /\ jobs \in [Batches -> Row] /\ d.batch \in Batches
  BY DEF IInv, TypeOK, Delivery
<1>2. \A x \in Workers : inbox'[x] \subseteq inbox[x]
  BY <1>1 DEF Drop
<1>3. ASSUME NEW x \in Workers, NEW e \in inbox'[x]
      PROVE  /\ Effective(e)' => Effective(e)
             /\ Effective(e) => jobs'[e.batch] = jobs[e.batch]
  <2>1. e \in inbox[x] /\ ~(x = w /\ e = d)
    BY <1>1 DEF Drop
  <2>2. ~(e.batch = d.batch /\ Effective(d) /\ Effective(e))
    BY <2>1 DEF IInv, DeliveryInv, TokensUnique, Effective
  <2>3. CASE e.batch = d.batch /\ Effective(d)
    <3>1. jobs'[e.batch] = row
      BY <1>1, <2>3
    <3> QED  BY <2>2, <2>3, <3>1 DEF Effective
  <2>4. CASE ~(e.batch = d.batch /\ Effective(d))
    <3>1. jobs'[e.batch] = jobs[e.batch]
      BY <1>1, <2>4
    <3> QED  BY <3>1 DEF Effective
  <2> QED  BY <2>3, <2>4
<1> QED  BY <1>2, <1>3, SettledDeliveries

\* An enqueue makes every delivery of the batch one of an earlier enqueue.
LEMMA EnqueueKeepsDeliveries ==
    ASSUME IInv, NEW b \in Batches, Enqueue(b)
    PROVE  DeliveryInv' /\ LeaseExclusive'
<1>1. /\ inbox \in [Workers -> SUBSET Delivery] /\ jobs \in [Batches -> Row]
      /\ enqueued \in [Batches -> Nat] /\ inbox' = inbox
  BY DEF IInv, TypeOK, Enqueue
<1>2. enqueued' = [enqueued EXCEPT ![b] = @ + 1] /\ jobs' = [jobs EXCEPT ![b] = Upsert(jobs[b])]
  BY DEF Enqueue
<1>3. jobs'[b].state = "ready"
  BY <1>1, <1>2, UpsertRow
<1>4. ASSUME NEW w \in Workers, NEW d \in inbox[w]
      PROVE  /\ d.batch \in Batches /\ d.enq \in Nat /\ d.enq <= enqueued[d.batch]
             /\ d.batch = b => ~Effective(d)' /\ d.enq # enqueued'[b]
             /\ d.batch # b => /\ enqueued'[d.batch] = enqueued[d.batch]
                               /\ jobs'[d.batch] = jobs[d.batch]
                               /\ Effective(d)' <=> Effective(d)
  <2>1. d.batch \in Batches /\ d.enq \in Nat /\ d.enq <= enqueued[d.batch]
    BY <1>1 DEF IInv, DeliveryInv, DeliveredBefore, Delivery
  <2>2. CASE d.batch = b
    <3>1. ~Effective(d)'
      BY <1>3, <2>2 DEF Effective
    <3>2. enqueued'[b] = enqueued[b] + 1 /\ enqueued[b] \in Nat
      BY <1>1, <1>2
    <3> QED  BY <2>1, <2>2, <3>1, <3>2
  <2>3. CASE d.batch # b
    <3>1. enqueued'[d.batch] = enqueued[d.batch] /\ jobs'[d.batch] = jobs[d.batch]
      BY <1>1, <1>2, <2>1, <2>3
    <3>2. Effective(d)' <=> Effective(d)
      BY <3>1 DEF Effective
    <3> QED  BY <2>1, <2>3, <3>1, <3>2
  <2> QED  BY <2>2, <2>3
<1>5. DeliveredBefore'
  <2> SUFFICES ASSUME NEW w \in Workers, NEW d \in inbox[w] PROVE d.enq <= enqueued'[d.batch]
    BY <1>1 DEF DeliveredBefore
  <2>1. enqueued'[b] = enqueued[b] + 1 /\ enqueued[b] \in Nat
    BY <1>1, <1>2
  <2> QED  BY <1>4, <2>1
<1>6. TokensUnique' /\ LeaseExclusive'
  BY <1>1 DEF IInv, DeliveryInv, TokensUnique, LeaseExclusive
<1>7. EffectiveIsCurrent'
  <2> SUFFICES ASSUME NEW w \in Workers, NEW d \in inbox[w], Effective(d)'
               PROVE  d.enq = enqueued'[d.batch] /\ d.left = jobs'[d.batch].left
    BY <1>1 DEF EffectiveIsCurrent
  <2> QED  BY <1>4 DEF IInv, DeliveryInv, EffectiveIsCurrent
<1>8. SupersededIsExpired'
  <2> SUFFICES ASSUME NEW w \in Workers, NEW d \in inbox[w],
                      d.enq = enqueued'[d.batch], ~Effective(d)'
               PROVE  d.left = 0
    BY <1>1 DEF SupersededIsExpired
  <2> QED  BY <1>4 DEF IInv, DeliveryInv, SupersededIsExpired
<1> QED  BY <1>5, <1>6, <1>7, <1>8 DEF DeliveryInv

\* The clock ages a row and its delivery alike.
LEMMA TickKeepsDeliveries ==
    ASSUME IInv, Tick
    PROVE  DeliveryInv' /\ LeaseExclusive'
<1>1. /\ inbox \in [Workers -> SUBSET Delivery] /\ jobs \in [Batches -> Row]
      /\ enqueued' = enqueued
  BY DEF IInv, TypeOK, Tick
<1>2. ASSUME NEW w \in Workers, NEW e \in inbox'[w]
      PROVE  \E d \in inbox[w] :
                /\ e = Older(d)
                /\ e.batch = d.batch /\ e.nonce = d.nonce /\ e.enq = d.enq
                /\ e.left = Dec(d.left) /\ (d.left = 0 => e.left = 0)
                /\ jobs'[e.batch].left = Dec(jobs[d.batch].left)
                /\ Effective(e)' <=> Effective(d)
  <2>1. PICK d \in inbox[w] : e = Older(d)
    BY <1>1 DEF Tick
  <2>2. d \in Delivery /\ d.batch \in Batches
    BY <1>1 DEF Delivery
  <2>3. /\ e.batch = d.batch /\ e.nonce = d.nonce /\ e.enq = d.enq
        /\ e.left = Dec(d.left) /\ (d.left = 0 => e.left = 0)
    BY <2>1, <2>2, OlderDelivery DEF Dec
  <2>4. jobs'[d.batch] = Aged(jobs[d.batch]) /\ jobs[d.batch] \in Row
    BY <1>1, <2>2 DEF Tick
  <2>5. jobs'[e.batch].left = Dec(jobs[d.batch].left)
    BY <2>3, <2>4, AgedRow
  <2>6. Effective(e)' <=> Effective(d)
    BY <2>3, <2>4, AgedRow DEF Effective
  <2> QED  BY <2>1, <2>3, <2>5, <2>6
<1>3. DeliveredBefore'
  BY <1>1, <1>2 DEF IInv, DeliveryInv, DeliveredBefore
<1>4. TokensUnique'
  <2> SUFFICES ASSUME NEW w1 \in Workers, NEW w2 \in Workers, NEW e1 \in inbox'[w1],
                      NEW e2 \in inbox'[w2], e1.batch = e2.batch, e1.nonce = e2.nonce
               PROVE  w1 = w2 /\ e1 = e2
    BY DEF TokensUnique
  <2>1. PICK d1 \in inbox[w1] : e1 = Older(d1) /\ e1.batch = d1.batch /\ e1.nonce = d1.nonce
    BY <1>2
  <2>2. PICK d2 \in inbox[w2] : e2 = Older(d2) /\ e2.batch = d2.batch /\ e2.nonce = d2.nonce
    BY <1>2
  <2> QED  BY <2>1, <2>2 DEF IInv, DeliveryInv, TokensUnique
<1>5. EffectiveIsCurrent'
  <2> SUFFICES ASSUME NEW w \in Workers, NEW e \in inbox'[w], Effective(e)'
               PROVE  e.enq = enqueued'[e.batch] /\ e.left = jobs'[e.batch].left
    BY DEF EffectiveIsCurrent
  <2>1. PICK d \in inbox[w] : /\ e.batch = d.batch /\ e.enq = d.enq /\ e.left = Dec(d.left)
                              /\ jobs'[e.batch].left = Dec(jobs[d.batch].left)
                              /\ Effective(d)
    BY <1>2
  <2> QED  BY <1>1, <2>1 DEF IInv, DeliveryInv, EffectiveIsCurrent
<1>6. SupersededIsExpired'
  <2> SUFFICES ASSUME NEW w \in Workers, NEW e \in inbox'[w],
                      e.enq = enqueued'[e.batch], ~Effective(e)'
               PROVE  e.left = 0
    BY DEF SupersededIsExpired
  <2>1. PICK d \in inbox[w] : /\ e.batch = d.batch /\ e.enq = d.enq
                              /\ (d.left = 0 => e.left = 0) /\ ~Effective(d)
    BY <1>2
  <2> QED  BY <1>1, <2>1 DEF IInv, DeliveryInv, SupersededIsExpired
<1>7. LeaseExclusive'
  <2> SUFFICES ASSUME NEW w1 \in Workers, NEW w2 \in Workers, NEW e1 \in inbox'[w1],
                      NEW e2 \in inbox'[w2], e1.batch = e2.batch, e1.enq = e2.enq
               PROVE  (w1 = w2 /\ e1 = e2) \/ e1.left = 0 \/ e2.left = 0
    BY DEF LeaseExclusive
  <2>1. PICK d1 \in inbox[w1] : /\ e1 = Older(d1) /\ e1.batch = d1.batch /\ e1.enq = d1.enq
                                /\ (d1.left = 0 => e1.left = 0)
    BY <1>2
  <2>2. PICK d2 \in inbox[w2] : /\ e2 = Older(d2) /\ e2.batch = d2.batch /\ e2.enq = d2.enq
                                /\ (d2.left = 0 => e2.left = 0)
    BY <1>2
  <2> QED  BY <2>1, <2>2 DEF IInv, LeaseExclusive
<1> QED  BY <1>3, <1>4, <1>5, <1>6, <1>7 DEF DeliveryInv

\* receive hands out rows whose earlier deliveries are superseded or out of lease,
\* under tokens that none of them carries.
LEMMA ReceiveKeepsDeliveries ==
    ASSUME IInv, NEW w \in Workers, Receive(w)
    PROVE  DeliveryInv' /\ LeaseExclusive'
<1>1. /\ inbox \in [Workers -> SUBSET Delivery] /\ jobs \in [Batches -> Row]
      /\ enqueued \in [Batches -> Nat] /\ enqueued' = enqueued
  BY DEF IInv, TypeOK, Receive
<1>2. PICK nonce : ReceiveWith(w, nonce)
  BY ReceiveEffect
<1> DEFINE New(x, e) == x = w /\ \E b \in Batches : Claimable(b) /\ e = Delivered(b, nonce[b])
<1>3. ASSUME NEW x \in Workers, NEW e \in inbox'[x]
      PROVE  e \in inbox[x] \/ New(x, e)
  BY <1>1, <1>2 DEF ReceiveWith
<1>4. ASSUME NEW b \in Batches, Claimable(b)
      PROVE  /\ nonce[b] \in Nonces /\ Fresh(b, nonce[b])
             /\ jobs'[b].state = "claimed" /\ jobs'[b].token = nonce[b] /\ jobs'[b].left = Lease
  BY <1>1, <1>2, <1>4, ClaimedRow DEF ReceiveWith
<1>5. ASSUME NEW x \in Workers, NEW e, New(x, e)
      PROVE  /\ x = w /\ e.batch \in Batches /\ Claimable(e.batch)
             /\ e = Delivered(e.batch, nonce[e.batch])
             /\ e.nonce = nonce[e.batch] /\ e.enq = enqueued[e.batch] /\ e.left = Lease
             /\ Effective(e)' /\ jobs'[e.batch].left = Lease
  <2>1. PICK b \in Batches : Claimable(b) /\ e = Delivered(b, nonce[b])
    BY <1>5
  <2>2. e.batch = b /\ e.nonce = nonce[b] /\ e.enq = enqueued[b] /\ e.left = Lease
    BY <2>1 DEF Delivered
  <2>3. Effective(e)' /\ jobs'[e.batch].left = Lease
    BY <1>4, <2>1, <2>2 DEF Effective
  <2> QED  BY <1>5, <2>1, <2>2, <2>3
<1>6. ASSUME NEW x \in Workers, NEW d \in inbox[x]
      PROVE  /\ d.batch \in Batches /\ d.enq <= enqueued[d.batch]
             /\ Effective(d) => d.enq = enqueued[d.batch] /\ d.left = jobs[d.batch].left
             /\ d.enq = enqueued[d.batch] /\ ~Effective(d) => d.left = 0
  BY <1>1 DEF IInv, DeliveryInv, DeliveredBefore, EffectiveIsCurrent, SupersededIsExpired, Delivery
<1>7. ASSUME NEW x \in Workers, NEW d \in inbox[x], Claimable(d.batch)
      PROVE  /\ d.nonce # nonce[d.batch]
             /\ ~Effective(d)'
             /\ d.enq = enqueued[d.batch] => d.left = 0
  <2>1. d.nonce \in Nonces /\ d.batch \in Batches
    BY <1>1 DEF Delivery
  <2>2. d.nonce # nonce[d.batch]
    BY <1>4, <1>7, <2>1 DEF Fresh, InUse
  <2>3. ~Effective(d)'
    BY <1>4, <1>7, <2>1, <2>2 DEF Effective
  <2>4. Effective(d) => jobs[d.batch].left = 0
    BY <1>7 DEF Effective, Claimable, Expired
  <2> QED  BY <1>6, <2>2, <2>3, <2>4
<1>8. ASSUME NEW x \in Workers, NEW d \in inbox[x], ~Claimable(d.batch)
      PROVE  /\ Effective(d)' => Effective(d) /\ jobs'[d.batch] = jobs[d.batch]
             /\ ~Effective(d)' /\ d.enq = enqueued[d.batch] => d.left = 0
  <2>1. d.batch \in Batches
    BY <1>6
  <2>2. CASE Expired(d.batch)
    <3>1. jobs'[d.batch] = Reclaimed(jobs[d.batch]) /\ jobs[d.batch] \in Row
      BY <1>1, <1>2, <1>8, <2>1, <2>2 DEF ReceiveWith
    <3>2. ~Effective(d)'
      BY <3>1, ReclaimedRow DEF Effective
    <3>3. jobs[d.batch].left = 0
      BY <2>2 DEF Expired
    <3> QED  BY <1>6, <3>2, <3>3
  <2>3. CASE ~Expired(d.batch)
    <3>1. jobs'[d.batch] = jobs[d.batch]
      BY <1>1, <1>2, <1>8, <2>1, <2>3 DEF ReceiveWith
    <3>2. Effective(d)' <=> Effective(d)
      BY <3>1 DEF Effective
    <3> QED  BY <1>6, <3>1, <3>2
  <2> QED  BY <2>2, <2>3
<1> HIDE DEF New
<1>9. DeliveredBefore'
  <2> SUFFICES ASSUME NEW x \in Workers, NEW e \in inbox'[x] PROVE e.enq <= enqueued'[e.batch]
    BY DEF DeliveredBefore
  <2>1. CASE e \in inbox[x]
    BY <1>1, <1>6, <2>1
  <2>2. CASE New(x, e)
    BY <1>1, <1>5, <2>2
  <2> QED  BY <1>3, <2>1, <2>2
<1>10. TokensUnique'
  <2> SUFFICES ASSUME NEW x1 \in Workers, NEW x2 \in Workers, NEW e1 \in inbox'[x1],
                      NEW e2 \in inbox'[x2], e1.batch = e2.batch, e1.nonce = e2.nonce
               PROVE  x1 = x2 /\ e1 = e2
    BY DEF TokensUnique
  <2>1. CASE e1 \in inbox[x1] /\ e2 \in inbox[x2]
    BY <2>1 DEF IInv, DeliveryInv, TokensUnique
  <2>2. CASE New(x1, e1) /\ New(x2, e2)
    BY <1>5, <2>2
  <2>3. ~(e1 \in inbox[x1] /\ New(x2, e2)) /\ ~(New(x1, e1) /\ e2 \in inbox[x2])
    BY <1>5, <1>7
  <2> QED  BY <1>3, <2>1, <2>2, <2>3
<1>11. EffectiveIsCurrent'
  <2> SUFFICES ASSUME NEW x \in Workers, NEW e \in inbox'[x], Effective(e)'
               PROVE  e.enq = enqueued'[e.batch] /\ e.left = jobs'[e.batch].left
    BY DEF EffectiveIsCurrent
  <2>1. CASE e \in inbox[x]
    BY <1>1, <1>6, <1>7, <1>8, <2>1
  <2>2. CASE New(x, e)
    BY <1>1, <1>5, <2>2
  <2> QED  BY <1>3, <2>1, <2>2
<1>12. SupersededIsExpired'
  <2> SUFFICES ASSUME NEW x \in Workers, NEW e \in inbox'[x],
                      e.enq = enqueued'[e.batch], ~Effective(e)'
               PROVE  e.left = 0
    BY DEF SupersededIsExpired
  <2>1. CASE e \in inbox[x]
    BY <1>1, <1>7, <1>8, <2>1
  <2>2. ~New(x, e)
    BY <1>5
  <2> QED  BY <1>3, <2>1, <2>2
<1>13. LeaseExclusive'
  <2> SUFFICES ASSUME NEW x1 \in Workers, NEW x2 \in Workers, NEW e1 \in inbox'[x1],
                      NEW e2 \in inbox'[x2], e1.batch = e2.batch, e1.enq = e2.enq
               PROVE  (x1 = x2 /\ e1 = e2) \/ e1.left = 0 \/ e2.left = 0
    BY DEF LeaseExclusive
  <2>1. CASE e1 \in inbox[x1] /\ e2 \in inbox[x2]
    BY <2>1 DEF IInv, LeaseExclusive
  <2>2. CASE New(x1, e1) /\ New(x2, e2)
    BY <1>5, <2>2
  <2>3. CASE e1 \in inbox[x1] /\ New(x2, e2)
    BY <1>5, <1>7, <2>3
  <2>4. CASE New(x1, e1) /\ e2 \in inbox[x2]
    BY <1>5, <1>7, <2>4
  <2> QED  BY <1>3, <2>1, <2>2, <2>3, <2>4
<1> QED  BY <1>9, <1>10, <1>11, <1>12, <1>13 DEF DeliveryInv

\* Every action of the queue and of the loop.
LEMMA DeliveryStep == IInv /\ [Next]_vars => DeliveryInv' /\ LeaseExclusive'
<1> SUFFICES ASSUME IInv, [Next]_vars PROVE DeliveryInv' /\ LeaseExclusive'
  OBVIOUS
<1>0. inbox \in [Workers -> SUBSET Delivery] /\ jobs \in [Batches -> Row]
  BY DEF IInv, TypeOK
<1>1. ASSUME NEW b \in Batches, Enqueue(b) PROVE DeliveryInv' /\ LeaseExclusive'
  BY <1>1, EnqueueKeepsDeliveries
<1>2. ASSUME NEW w \in Workers, Receive(w) PROVE DeliveryInv' /\ LeaseExclusive'
  BY <1>2, ReceiveKeepsDeliveries
<1>3. ASSUME NEW w \in Workers, NEW d \in inbox[w], Ack(w, d)
      PROVE  DeliveryInv' /\ LeaseExclusive'
  <2>1. /\ Drop(w, d) /\ enqueued' = enqueued
        /\ jobs' = IF Effective(d) THEN [jobs EXCEPT ![d.batch] = NoRow] ELSE jobs
    BY <1>3 DEF Ack, AckRows
  <2>2. NoRow.state # "claimed"
    BY EmptyRow
  <2> QED  BY <2>1, <2>2, SettleKeepsDeliveries
<1>4. ASSUME NEW w \in Workers, NEW d \in inbox[w], Nack(w, d)
      PROVE  DeliveryInv' /\ LeaseExclusive'
  <2> DEFINE row == IF Exhausted(jobs[d.batch]) THEN NoRow ELSE Retried(jobs[d.batch])
  <2>1. /\ Drop(w, d) /\ enqueued' = enqueued
        /\ jobs' = IF Effective(d) THEN [jobs EXCEPT ![d.batch] = row] ELSE jobs
    BY <1>4 DEF Nack, NackRows
  <2>2. jobs[d.batch] \in Row
    BY <1>0 DEF Delivery
  <2>3. row.state # "claimed"
    BY <2>2, EmptyRow, RetriedRow
  <2> HIDE DEF row
  <2> QED  BY <2>1, <2>3, SettleKeepsDeliveries
<1>5. ASSUME \A w \in Workers : inbox'[w] \subseteq inbox[w], enqueued' = enqueued, jobs' = jobs
      PROVE  DeliveryInv' /\ LeaseExclusive'
  <2>1. \A w \in Workers : \A d \in inbox'[w] :
            /\ Effective(d)' => Effective(d)
            /\ Effective(d) => jobs'[d.batch] = jobs[d.batch]
    BY <1>5 DEF Effective
  <2> QED  BY <1>5, <2>1, SettledDeliveries
<1>6. ASSUME NEW w \in Workers, NEW d \in inbox[w], LoseSignal(w, d)
      PROVE  DeliveryInv' /\ LeaseExclusive'
  BY <1>0, <1>5, <1>6 DEF LoseSignal, Drop
<1>7. ASSUME NEW w \in Workers, Crash(w) PROVE DeliveryInv' /\ LeaseExclusive'
  BY <1>0, <1>5, <1>7 DEF Crash
<1>8. ASSUME Tick PROVE DeliveryInv' /\ LeaseExclusive'
  BY <1>8, TickKeepsDeliveries
<1>9. CASE UNCHANGED vars
  BY <1>5, <1>9 DEF vars
<1> QED  BY <1>1, <1>2, <1>3, <1>4, <1>6, <1>7, <1>8, <1>9 DEF Next

----------------------------------------------------------------------------
\* The invariant is inductive, so it holds of every reachable state.
THEOREM InvHolds == Spec => []IInv
<1>1. IInv /\ [Next]_vars => IInv'
  BY TypeStep, DeliveryStep, RowStep DEF IInv
<1> QED  BY InvInit, <1>1, PTL DEF Spec

\* Rows, dead letters and deliveries are well formed at all times (queue.rs: the
\* schema and the values its statements write).
THEOREM TypeCorrect == Spec => []TypeOK
<1>1. IInv => TypeOK
  BY DEF IInv
<1> QED  BY <1>1, InvHolds, PTL

\* For any number of workers, enqueues and faults at most one delivery of a batch
\* can still settle it (queue.rs: ack and nack compare the claim token).
THEOREM SettledOnce == Spec => []OneEffectiveDelivery
<1>1. IInv => OneEffectiveDelivery
  BY DEF IInv, DeliveryInv, TokensUnique, OneEffectiveDelivery, Effective
<1> QED  BY <1>1, InvHolds, PTL

\* Two workers never hold the same enqueue within their leases (queue.rs: receive
\* reclaims only after lease_ms).
THEOREM LeaseRespected == Spec => []LeaseExclusive
<1>1. IInv => LeaseExclusive
  BY DEF IInv
<1> QED  BY <1>1, InvHolds, PTL

\* No job vanishes: what left the queue was built, or is a dead letter with exactly
\* MaxAttempts failures of that enqueue (queue.rs: ack, nack).
THEOREM NoJobVanishes == Spec => []SettledForCause
<1>1. IInv => SettledForCause
  BY DEF IInv, RowInv
<1> QED  BY <1>1, InvHolds, PTL

\* A lost lease, a stale nack or a crash never charges an attempt (queue.rs: nack).
THEOREM OnlyFailuresCharged == Spec => []AttemptsAreFailures
<1>1. IInv => AttemptsAreFailures
  BY DEF IInv, RowInv
<1> QED  BY <1>1, InvHolds, PTL

-------------------------------------------------------------------------------
(* The queue implements the exclusive-ownership ledger. *)

\* A row that is claimed was due.
ClaimedIsDue == \A b \in Batches : jobs[b].state = "claimed" => jobs[b].wait = 0

\* receive claims rows with available_at <= now, and nobody else writes a claimed row.
LEMMA DueStep == IInv /\ ClaimedIsDue /\ [Next]_vars => ClaimedIsDue'
<1> SUFFICES ASSUME IInv, ClaimedIsDue, [Next]_vars PROVE ClaimedIsDue'
  OBVIOUS
<1> USE DEF ClaimedIsDue
<1>0. jobs \in [Batches -> Row] /\ inbox \in [Workers -> SUBSET Delivery]
  BY DEF IInv, TypeOK
<1>1. ASSUME NEW b \in Batches, Enqueue(b) PROVE ClaimedIsDue'
  BY <1>0, <1>1, UpsertRow DEF Enqueue
<1>2. ASSUME NEW w \in Workers, Receive(w) PROVE ClaimedIsDue'
  <2>1. PICK nonce : ReceiveWith(w, nonce)
    BY <1>2, ReceiveEffect
  <2>2. ASSUME NEW b \in Batches, jobs'[b].state = "claimed" PROVE jobs'[b].wait = 0
    <3>1. CASE Claimable(b)
      <4>1. jobs'[b] = Claimed(jobs[b], nonce[b]) /\ jobs[b] \in Row /\ jobs[b].wait = 0
        BY <1>0, <2>1, <3>1 DEF ReceiveWith, Claimable
      <4>2. QED
        BY <4>1 DEF Claimed, Row
    <3>2. CASE ~Claimable(b)
      BY <1>0, <2>1, <2>2, <3>2, ReclaimedRow DEF ReceiveWith
    <3>3. QED
      BY <3>1, <3>2
  <2>3. QED
    BY <2>2
<1>3. ASSUME NEW w \in Workers, NEW d \in inbox[w], Ack(w, d) PROVE ClaimedIsDue'
  BY <1>0, <1>3, EmptyRow DEF Ack, AckRows
<1>4. ASSUME NEW w \in Workers, NEW d \in inbox[w], Nack(w, d) PROVE ClaimedIsDue'
  BY <1>0, <1>4, EmptyRow, RetriedRow DEF Nack, NackRows
<1>5. ASSUME Tick PROVE ClaimedIsDue'
  <2>1. ASSUME NEW b \in Batches
        PROVE  /\ jobs'[b].state = jobs[b].state
               /\ jobs[b].wait = 0 => jobs'[b].wait = 0
    <3>1. jobs'[b] = Aged(jobs[b]) /\ jobs[b] \in Row
      BY <1>0, <1>5 DEF Tick
    <3>2. QED
      BY <3>1 DEF Aged, Dec, Row
  <2>2. QED
    BY <2>1
<1>6. CASE UNCHANGED jobs
  BY <1>6
<1>7. QED
  BY <1>1, <1>2, <1>3, <1>4, <1>5, <1>6 DEF Next, LoseSignal, Crash, vars

\* The state of a row, as the ledger sees it.
LEMMA StatusIs ==
  ASSUME NEW row \in Row
  PROVE  /\ row.state = "absent" <=> StatusOf(row) = "none"
         /\ row.state = "ready" <=> StatusOf(row) = "waiting"
         /\ row.state = "claimed" <=> StatusOf(row) = "held"
BY DEF StatusOf, Row

\* The worker whose token is in the row of b.
Owns(w, b) == \E d \in inbox[w] : d.batch = b /\ Effective(d)

\* There is at most one, and the ledger calls it the holder.
HolderOwns ==
  \A b \in Batches : /\ \A w \in Workers : Owns(w, b) <=> HolderOf(b) = w
                     /\ (\A w \in Workers : ~Owns(w, b)) <=> HolderOf(b) = "nobody"

LEMMA HolderIs == IInv => HolderOwns
<1> SUFFICES ASSUME IInv, NEW b \in Batches
             PROVE  /\ \A w \in Workers : Owns(w, b) <=> HolderOf(b) = w
                    /\ (\A w \in Workers : ~Owns(w, b)) <=> HolderOf(b) = "nobody"
  BY DEF HolderOwns
<1>1. \A v, w \in Workers : Owns(v, b) /\ Owns(w, b) => v = w
  BY DEF Owns, IInv, DeliveryInv, TokensUnique, Effective
<1>2. HolderOf(b) = IF \E w \in Workers : Owns(w, b) THEN CHOOSE w \in Workers : Owns(w, b) ELSE "nobody"
  BY DEF HolderOf, Owns
<1> HIDE DEF Owns
<1>3. QED
  BY <1>1, <1>2, QueueConstants

\* The same after a step.
LEMMA HolderWillBe == IInv' => HolderOwns'
BY HolderIs, PTL

\* Batch b looks to the ledger as it did.
Same(b) ==
  /\ StatusOf(jobs'[b]) = StatusOf(jobs[b])
  /\ HolderOf(b)' = HolderOf(b)
  /\ jobs'[b].attempts = jobs[b].attempts
  /\ dead'[b] > 0 <=> dead[b] > 0

\* A step the ledger does not see.
LEMMA LedgerStutters ==
  ASSUME \A b \in Batches : Same(b)
  PROVE  UNCHANGED Ledger!lvars
BY DEF Same, Ledger!lvars

\* The steps of the ledger, one batch at a time.
LEMMA LedgerPosts ==
  ASSUME NEW b \in Batches, \A c \in Batches \ {b} : Same(c),
         StatusOf(jobs'[b]) = "waiting", HolderOf(b)' = "nobody", jobs'[b].attempts = 0,
         dead'[b] > 0 <=> dead[b] > 0
  PROVE  Ledger!Post(b)
BY DEF Same, Ledger!Post

LEMMA LedgerCompletes ==
  ASSUME NEW b \in Batches, NEW w \in Workers, \A c \in Batches \ {b} : Same(c),
         HolderOf(b) = w, StatusOf(jobs'[b]) = "none", HolderOf(b)' = "nobody",
         jobs'[b].attempts = 0, dead'[b] > 0 <=> dead[b] > 0
  PROVE  Ledger!Complete(w, b)
BY DEF Same, Ledger!Complete

LEMMA LedgerRetries ==
  ASSUME NEW b \in Batches, NEW w \in Workers, \A c \in Batches \ {b} : Same(c),
         HolderOf(b) = w, HolderOf(b)' = "nobody",
         jobs[b].attempts + 1 < MaxAttempts, StatusOf(jobs'[b]) = "waiting",
         jobs'[b].attempts = jobs[b].attempts + 1, dead'[b] > 0 <=> dead[b] > 0
  PROVE  Ledger!Fail(w, b)
BY DEF Same, Ledger!Fail

LEMMA LedgerBuries ==
  ASSUME NEW b \in Batches, NEW w \in Workers, \A c \in Batches \ {b} : Same(c),
         HolderOf(b) = w, HolderOf(b)' = "nobody",
         jobs[b].attempts + 1 = MaxAttempts, StatusOf(jobs'[b]) = "none",
         jobs'[b].attempts = 0, dead'[b] > 0
  PROVE  Ledger!Fail(w, b)
BY DEF Same, Ledger!Fail

\* And of several batches at once.
LEMMA LedgerTakes ==
  ASSUME NEW w \in Workers, NEW S \in SUBSET Batches, S # {},
         \A b \in Batches : HolderOf(b) # w,
         \A b \in Batches \ S : Same(b),
         \A b \in S : /\ StatusOf(jobs[b]) # "none" /\ StatusOf(jobs'[b]) = "held"
                      /\ HolderOf(b)' = w /\ jobs'[b].attempts = jobs[b].attempts
                      /\ dead'[b] > 0 <=> dead[b] > 0
  PROVE  Ledger!Take(w, S)
BY DEF Same, Ledger!Take

LEMMA LedgerForsakes ==
  ASSUME NEW w \in Workers, NEW S \in SUBSET Batches, S # {},
         \A b \in S : HolderOf(b) = w,
         \A b \in Batches \ S : Same(b),
         \A b \in S : /\ StatusOf(jobs'[b]) = StatusOf(jobs[b])
                      /\ HolderOf(b)' = "nobody" /\ jobs'[b].attempts = jobs[b].attempts
                      /\ dead'[b] > 0 <=> dead[b] > 0
  PROVE  Ledger!Forsake(w, S)
BY DEF Same, Ledger!Forsake

\* An empty queue is an empty ledger.
LEMMA LedgerStarts == Init => Ledger!LedgerInit
<1> SUFFICES ASSUME Init PROVE Ledger!LedgerInit
  OBVIOUS
<1>1. \A b \in Batches : HolderOf(b) = "nobody"
  BY DEF Init, HolderOf
<1>2. \A b \in Batches : StatusOf(jobs[b]) = "none" /\ jobs[b].attempts = 0 /\ dead[b] = 0
  BY EmptyRow, StatusIs DEF Init
<1>3. QED
  BY <1>1, <1>2 DEF Ledger!LedgerInit

\* A batch whose row, dead letter and owner are as they were.
LEMMA SameWhen ==
  ASSUME IInv, IInv', NEW b \in Batches,
         StatusOf(jobs'[b]) = StatusOf(jobs[b]), jobs'[b].attempts = jobs[b].attempts,
         dead'[b] = dead[b], \A w \in Workers : Owns(w, b)' <=> Owns(w, b)
  PROVE  Same(b)
<1>1. /\ \A w \in Workers : Owns(w, b) <=> HolderOf(b) = w
      /\ (\A w \in Workers : ~Owns(w, b)) <=> HolderOf(b) = "nobody"
  BY HolderIs DEF HolderOwns
<1>2. /\ \A w \in Workers : Owns(w, b)' <=> HolderOf(b)' = w
      /\ (\A w \in Workers : ~Owns(w, b)') <=> HolderOf(b)' = "nobody"
  BY HolderWillBe DEF HolderOwns
<1>3. HolderOf(b)' = HolderOf(b)
  BY <1>1, <1>2
<1>4. QED
  BY <1>3 DEF Same

\* A batch whose row is not claimed has no holder.
LEMMA Unclaimed ==
  ASSUME IInv', NEW b \in Batches, jobs'[b].state # "claimed"
  PROVE  HolderOf(b)' = "nobody"
<1>1. \A w \in Workers : ~Owns(w, b)'
  BY DEF Owns, Effective
<1>2. QED
  BY <1>1, HolderWillBe DEF HolderOwns

\* Dropping a delivery leaves the owners of other batches alone, and that of its own
\* too when it had no effect.
LEMMA DropOwns ==
  ASSUME IInv, NEW w \in Workers, NEW d \in inbox[w], Drop(w, d),
         NEW c \in Batches, jobs'[c] = jobs[c], c # d.batch \/ ~Effective(d),
         NEW v \in Workers
  PROVE  Owns(v, c)' <=> Owns(v, c)
<1>1. inbox \in [Workers -> SUBSET Delivery]
  BY DEF IInv, TypeOK
<1>2. inbox'[v] = IF v = w THEN inbox[v] \ {d} ELSE inbox[v]
  BY <1>1 DEF Drop
<1>3. \A e : e.batch = c => (Effective(e)' <=> Effective(e))
  BY DEF Effective
<1>4. QED
  BY <1>2, <1>3 DEF Owns

\* ack and nack of a delivery without effect, and a signal that is lost.
LEMMA IdleDrop ==
  ASSUME IInv, IInv', NEW w \in Workers, NEW d \in inbox[w], Drop(w, d),
         ~Effective(d), jobs' = jobs, dead' = dead
  PROVE  UNCHANGED Ledger!lvars
<1>1. ASSUME NEW c \in Batches PROVE Same(c)
  <2>1. \A v \in Workers : Owns(v, c)' <=> Owns(v, c)
    BY DropOwns
  <2>2. QED
    BY <2>1, SameWhen
<1>2. QED
  BY <1>1, LedgerStutters

\* What a settled delivery leaves of the other batches.
LEMMA OthersSame ==
  ASSUME IInv, IInv', NEW w \in Workers, NEW d \in inbox[w], Drop(w, d),
         NEW c \in Batches, c # d.batch, jobs'[c] = jobs[c], dead'[c] = dead[c]
  PROVE  Same(c)
<1>1. \A v \in Workers : Owns(v, c)' <=> Owns(v, c)
  BY DropOwns
<1>2. QED
  BY <1>1, SameWhen

\* insert_build_job takes the job from whoever holds it.
LEMMA EnqueuePosts ==
  ASSUME IInv, IInv', NEW b \in Batches, Enqueue(b)
  PROVE  Ledger!Post(b)
<1>1. jobs \in [Batches -> Row]
  BY DEF IInv, TypeOK
<1>2. /\ jobs'[b] = Upsert(jobs[b]) /\ inbox' = inbox /\ dead' = dead
      /\ \A c \in Batches \ {b} : jobs'[c] = jobs[c]
  BY <1>1 DEF Enqueue
<1>3. jobs'[b] \in Row /\ jobs'[b].state = "ready" /\ jobs'[b].attempts = 0
  BY <1>1, <1>2, UpsertRow
<1>4. ASSUME NEW c \in Batches \ {b} PROVE Same(c)
  <2>1. \A v \in Workers : Owns(v, c)' <=> Owns(v, c)
    BY <1>2 DEF Owns, Effective
  <2>2. QED
    BY <1>2, <2>1, SameWhen
<1>5. StatusOf(jobs'[b]) = "waiting" /\ HolderOf(b)' = "nobody"
  BY <1>3, StatusIs, Unclaimed
<1>6. QED
  BY <1>2, <1>3, <1>4, <1>5, LedgerPosts

\* ack completes the job of its owner; a late one does nothing.
LEMMA AckCompletes ==
  ASSUME IInv, IInv', NEW w \in Workers, NEW d \in inbox[w], Ack(w, d)
  PROVE  Ledger!Complete(w, d.batch) \/ UNCHANGED Ledger!lvars
<1>1. jobs \in [Batches -> Row] /\ d.batch \in Batches
  BY DEF IInv, TypeOK, Delivery
<1>2. CASE ~Effective(d)
  BY <1>2, IdleDrop DEF Ack, AckRows
<1>3. CASE Effective(d)
  <2> DEFINE b == d.batch
  <2>1. /\ jobs'[b] = NoRow /\ dead' = dead /\ Drop(w, d)
        /\ \A c \in Batches \ {b} : jobs'[c] = jobs[c]
    BY <1>1, <1>3 DEF Ack, AckRows
  <2>2. HolderOf(b) = w
    BY <1>1, <1>3, HolderIs DEF HolderOwns, Owns
  <2>3. StatusOf(jobs'[b]) = "none" /\ HolderOf(b)' = "nobody" /\ jobs'[b].attempts = 0
    BY <1>1, <2>1, EmptyRow, StatusIs, Unclaimed
  <2>4. \A c \in Batches \ {b} : Same(c)
    BY <2>1, OthersSame
  <2>5. QED
    BY <1>1, <2>1, <2>2, <2>3, <2>4, LedgerCompletes
<1>4. QED
  BY <1>2, <1>3

\* nack fails it, and the last one buries it; a late one does nothing.
LEMMA NackFails ==
  ASSUME IInv, IInv', NEW w \in Workers, NEW d \in inbox[w], Nack(w, d)
  PROVE  Ledger!Fail(w, d.batch) \/ UNCHANGED Ledger!lvars
<1>1. jobs \in [Batches -> Row] /\ dead \in [Batches -> Nat] /\ d.batch \in Batches
  BY DEF IInv, TypeOK, Delivery
<1>2. CASE ~Effective(d)
  BY <1>2, IdleDrop DEF Nack, NackRows, NackDead
<1>3. CASE Effective(d)
  <2> DEFINE b == d.batch
             n == jobs[b].attempts
  <2>1. HolderOf(b) = w
    BY <1>1, <1>3, HolderIs DEF HolderOwns, Owns
  <2>2. n \in Nat /\ n < MaxAttempts
    BY <1>1 DEF IInv, RowInv, AttemptsAreFailures, Row
  <2>3. Drop(w, d) /\ \A c \in Batches \ {b} : jobs'[c] = jobs[c] /\ dead'[c] = dead[c]
    BY <1>1, <1>3 DEF Nack, NackRows, NackDead
  <2>4. \A c \in Batches \ {b} : Same(c)
    BY <2>3, OthersSame
  <2>5. CASE Exhausted(jobs[b])
    <3>1. jobs'[b] = NoRow /\ dead'[b] = n + 1 /\ n + 1 = MaxAttempts
      BY <1>1, <1>3, <2>2, <2>5, QueueConstants DEF Nack, NackRows, NackDead, Exhausted
    <3>2. StatusOf(jobs'[b]) = "none" /\ HolderOf(b)' = "nobody" /\ jobs'[b].attempts = 0
      BY <1>1, <3>1, EmptyRow, StatusIs, Unclaimed
    <3>3. dead'[b] > 0
      BY <2>2, <3>1
    <3> HIDE DEF b
    <3>4. QED
      BY <1>1, <2>1, <2>4, <3>1, <3>2, <3>3, LedgerBuries DEF b
  <2>6. CASE ~Exhausted(jobs[b])
    <3>1. jobs'[b] = Retried(jobs[b]) /\ dead' = dead /\ n + 1 < MaxAttempts
      BY <1>1, <1>3, <2>2, <2>6, QueueConstants DEF Nack, NackRows, NackDead, Exhausted
    <3>2. jobs'[b] \in Row /\ jobs'[b].state = "ready" /\ jobs'[b].attempts = n + 1
      BY <1>1, <3>1, RetriedRow
    <3>3. StatusOf(jobs'[b]) = "waiting" /\ HolderOf(b)' = "nobody"
      BY <1>1, <3>2, StatusIs, Unclaimed
    <3>4. QED
      BY <1>1, <2>1, <2>4, <3>1, <3>2, <3>3, LedgerRetries
  <2>7. QED
    BY <2>5, <2>6
<1>4. QED
  BY <1>2, <1>3

\* receive takes every job that is due.
LEMMA ReceiveTakes ==
  ASSUME IInv, IInv', ClaimedIsDue, NEW w \in Workers, Receive(w)
  PROVE  \E S \in SUBSET Batches : Ledger!Take(w, S)
<1>1. /\ jobs \in [Batches -> Row] /\ inbox \in [Workers -> SUBSET Delivery]
      /\ inbox[w] = {} /\ dead' = dead
  BY DEF IInv, TypeOK, Receive
<1>2. PICK nonce : ReceiveWith(w, nonce)
  BY ReceiveEffect
<1> DEFINE S == {b \in Batches : Claimable(b)}
<1>3. S \in SUBSET Batches /\ S # {}
  BY DEF Receive
<1>4. \A b \in Batches : HolderOf(b) # w
  BY <1>1, HolderIs DEF HolderOwns, Owns
<1>5. ASSUME NEW b \in Batches \ S PROVE Same(b)
  <2>1. ~Claimable(b) /\ ~Expired(b)
    BY DEF Claimable, Expired, ClaimedIsDue
  <2>2. jobs'[b] = jobs[b]
    BY <1>2, <2>1 DEF ReceiveWith
  <2>3. ASSUME NEW v \in Workers PROVE Owns(v, b)' <=> Owns(v, b)
    <3>1. CASE v # w
      <4>1. inbox'[v] = inbox[v]
        BY <1>1, <1>2, <3>1 DEF ReceiveWith
      <4>2. QED
        BY <2>2, <4>1 DEF Owns, Effective
    <3>2. CASE v = w
      <4>1. \A d \in inbox'[w] : d.batch # b
        BY <1>1, <1>2, <2>1 DEF ReceiveWith, Delivered
      <4>2. QED
        BY <1>1, <3>2, <4>1 DEF Owns
    <3>3. QED
      BY <3>1, <3>2
  <2>4. QED
    BY <1>1, <2>2, <2>3, SameWhen
<1>6. ASSUME NEW b \in S
      PROVE  /\ StatusOf(jobs[b]) # "none" /\ StatusOf(jobs'[b]) = "held"
             /\ HolderOf(b)' = w /\ jobs'[b].attempts = jobs[b].attempts
             /\ dead'[b] > 0 <=> dead[b] > 0
  <2>1. /\ nonce[b] \in Nonces /\ jobs'[b] = Claimed(jobs[b], nonce[b]) /\ jobs[b] \in Row
        /\ jobs[b].state # "absent"
    BY <1>1, <1>2 DEF ReceiveWith, Claimable, Expired
  <2>2. /\ jobs'[b] \in Row /\ jobs'[b].state = "claimed" /\ jobs'[b].token = nonce[b]
        /\ jobs'[b].attempts = jobs[b].attempts
    BY <2>1, ClaimedRow
  <2>3. Delivered(b, nonce[b]) \in inbox'[w]
    BY <1>1, <1>2 DEF ReceiveWith
  <2>4. Owns(w, b)'
    BY <2>2, <2>3 DEF Owns, Effective, Delivered
  <2>5. HolderOf(b)' = w
    BY <2>4, HolderWillBe DEF HolderOwns
  <2>6. QED
    BY <1>1, <2>1, <2>2, <2>5, StatusIs
<1> HIDE DEF S
<1>7. QED
  BY <1>3, <1>4, <1>5, <1>6, LedgerTakes

\* A lost signal, or a crash: what the worker owned is forsaken.
LEMMA LossForsakes ==
  ASSUME IInv, IInv', NEW w \in Workers, jobs' = jobs, dead' = dead,
         inbox'[w] \subseteq inbox[w], \A v \in Workers \ {w} : inbox'[v] = inbox[v]
  PROVE  (\E S \in SUBSET Batches : Ledger!Forsake(w, S)) \/ UNCHANGED Ledger!lvars
<1> DEFINE S == {b \in Batches : Owns(w, b) /\ ~Owns(w, b)'}
<1>1. \A v \in Workers \ {w}, b \in Batches : Owns(v, b)' <=> Owns(v, b)
  BY DEF Owns, Effective
<1>2. \A b \in Batches : Owns(w, b)' => Owns(w, b)
  BY DEF Owns, Effective
<1>3. ASSUME NEW b \in Batches \ S PROVE Same(b)
  <2>1. \A v \in Workers : Owns(v, b)' <=> Owns(v, b)
    BY <1>1, <1>2
  <2>2. QED
    BY <2>1, SameWhen
<1>4. ASSUME NEW b \in S
      PROVE  HolderOf(b) = w /\ HolderOf(b)' = "nobody"
  <2>1. HolderOf(b) = w /\ \A v \in Workers : Owns(v, b) => v = w
    BY HolderIs DEF HolderOwns
  <2>2. \A v \in Workers : ~Owns(v, b)'
    BY <1>1, <2>1
  <2>3. QED
    BY <2>1, <2>2, HolderWillBe DEF HolderOwns
<1>5. CASE S = {}
  BY <1>3, <1>5, LedgerStutters
<1>6. CASE S # {}
  <2>1. S \in SUBSET Batches
    OBVIOUS
  <2> HIDE DEF S
  <2>2. Ledger!Forsake(w, S)
    BY <1>3, <1>4, <1>6, <2>1, LedgerForsakes
  <2>3. QED
    BY <2>1, <2>2
<1>7. QED
  BY <1>5, <1>6

\* Time passes alike for everyone.
LEMMA TickStutters ==
  ASSUME IInv, IInv', Tick
  PROVE  UNCHANGED Ledger!lvars
<1>1. jobs \in [Batches -> Row] /\ inbox \in [Workers -> SUBSET Delivery] /\ dead' = dead
  BY DEF IInv, TypeOK, Tick
<1>2. ASSUME NEW b \in Batches PROVE Same(b)
  <2>1. /\ jobs'[b] \in Row /\ jobs'[b].state = jobs[b].state /\ jobs'[b].token = jobs[b].token
        /\ jobs'[b].attempts = jobs[b].attempts
    BY <1>1, AgedRow DEF Tick
  <2>2. ASSUME NEW w \in Workers PROVE Owns(w, b)' <=> Owns(w, b)
    <3>1. \A d \in inbox[w] : Older(d).batch = d.batch /\ Older(d).nonce = d.nonce
      BY <1>1, OlderDelivery
    <3>2. inbox'[w] = {Older(d) : d \in inbox[w]}
      BY DEF Tick
    <3>3. QED
      BY <2>1, <3>1, <3>2 DEF Owns, Effective
  <2>3. StatusOf(jobs'[b]) = StatusOf(jobs[b])
    BY <2>1, <1>1 DEF StatusOf
  <2>4. QED
    BY <1>1, <2>1, <2>2, <2>3, SameWhen
<1>3. QED
  BY <1>2, LedgerStutters

\* Every step of the queue is a step of the ledger, or none.
LEMMA LedgerSteps ==
  IInv /\ IInv' /\ ClaimedIsDue /\ [Next]_vars => [Ledger!LedgerNext]_(Ledger!lvars)
<1> SUFFICES ASSUME IInv, IInv', ClaimedIsDue, [Next]_vars
             PROVE  Ledger!LedgerNext \/ UNCHANGED Ledger!lvars
  OBVIOUS
<1> USE DEF Ledger!LedgerNext
<1>0. inbox \in [Workers -> SUBSET Delivery]
  BY DEF IInv, TypeOK
<1>1. ASSUME NEW b \in Batches, Enqueue(b) PROVE Ledger!LedgerNext
  BY <1>1, EnqueuePosts
<1>2. ASSUME NEW w \in Workers, Receive(w) PROVE Ledger!LedgerNext
  BY <1>2, ReceiveTakes
<1>3. ASSUME NEW w \in Workers, NEW d \in inbox[w], Ack(w, d) \/ Nack(w, d)
      PROVE  Ledger!LedgerNext \/ UNCHANGED Ledger!lvars
  <2>1. d.batch \in Batches
    BY <1>0 DEF Delivery
  <2>2. QED
    BY <1>3, <2>1, AckCompletes, NackFails
<1>4. ASSUME NEW w \in Workers, Crash(w) \/ \E d \in inbox[w] : LoseSignal(w, d)
      PROVE  Ledger!LedgerNext \/ UNCHANGED Ledger!lvars
  <2>1. /\ jobs' = jobs /\ dead' = dead /\ inbox'[w] \subseteq inbox[w]
        /\ \A v \in Workers \ {w} : inbox'[v] = inbox[v]
    BY <1>0, <1>4 DEF Crash, LoseSignal, Drop
  <2>2. QED
    BY <2>1, LossForsakes
<1>5. CASE Tick
  BY <1>5, TickStutters
<1>6. CASE UNCHANGED vars
  <2>1. ASSUME NEW b \in Batches PROVE Same(b)
    <3>1. \A w \in Workers : Owns(w, b)' <=> Owns(w, b)
      BY <1>6 DEF vars, Owns, Effective
    <3>2. QED
      BY <1>6, <3>1, SameWhen DEF vars
  <2>2. QED
    BY <2>1, LedgerStutters
<1>7. QED
  BY <1>1, <1>2, <1>3, <1>4, <1>5, <1>6 DEF Next

\* The SQLite queue keeps the promise of the ledger: one owner at most, and only the
\* owner finishes or fails a job, whatever late calls other workers make (queue.rs).
THEOREM QueueImplementsLedger == Spec => ImplementsLedger
<1>1. Init => ClaimedIsDue
  BY EmptyRow DEF Init, ClaimedIsDue
<1>2. QED
  BY InvHolds, <1>1, DueStep, LedgerStarts, LedgerSteps, PTL DEF Spec, ImplementsLedger, Ledger!Spec

===============================================================================
