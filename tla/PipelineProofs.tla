---------------------------- MODULE PipelineProofs ----------------------------
(***************************************************************************)
(* A job leaves the queue only after its document was served, with any     *)
(* number of workers; with one worker no accepted write is ever lost and   *)
(* no head forgets a segment.                                              *)
(***************************************************************************)
EXTENDS Pipeline, TLAPS

Statuses == {"none", "waiting", "held"}
Busy == {"listed", "conflict", "build", "upload", "swap"}
Settling == {"published", "failed"}

WorkerState ==
  [pc : {"idle"} \cup Busy \cup Settling, job : Batches \cup {Nobody}, keys : SUBSET Batches,
   version : Nat, expected : Nat, retried : BOOLEAN]

TypeInv ==
  /\ wal \in SUBSET Batches /\ replied \in SUBSET wal
  /\ status \in [Batches -> Statuses] /\ holder \in [Batches -> Workers \cup {Nobody}]
  /\ buried \in SUBSET Batches
  /\ todo \in [Workers -> SUBSET Batches]
  /\ ws \in [Workers -> WorkerState]
  /\ head \in [version : Nat, keys : SUBSET Batches]
  /\ served \in SUBSET Batches

\* A worker builds for a job it received, from that job's segment among others,
\* and has published what it settles with success.
WorkInv ==
  \A w \in Workers :
      /\ ws[w].pc # "idle" => ws[w].job \in todo[w] /\ ws[w].job \in ws[w].keys
      /\ ws[w].pc = "published" => ws[w].keys \subseteq served

PInv == TypeInv /\ WorkInv /\ AckedWasServed

-------------------------------------------------------------------------------
(* Worker states *)

LEMMA IdleIsState == Idle \in WorkerState /\ Idle.pc = "idle" /\ Idle.keys = {}
BY DEF Idle, WorkerState

LEMMA AtPc ==
  ASSUME NEW q \in WorkerState, NEW pc \in Busy \cup Settling
  PROVE  /\ [q EXCEPT !.pc = pc] \in WorkerState
         /\ [q EXCEPT !.pc = pc].pc = pc
         /\ [q EXCEPT !.pc = pc].job = q.job
         /\ [q EXCEPT !.pc = pc].keys = q.keys
BY DEF WorkerState

Allocated(q, v, expected, retried) ==
  [q EXCEPT !.pc = "build", !.version = v, !.expected = expected, !.retried = retried]

LEMMA AllocatedState ==
  ASSUME NEW q \in WorkerState, NEW v \in Nat, NEW expected \in Nat, NEW retried \in BOOLEAN
  PROVE  /\ Allocated(q, v, expected, retried) \in WorkerState
         /\ Allocated(q, v, expected, retried).pc = "build"
         /\ Allocated(q, v, expected, retried).job = q.job
         /\ Allocated(q, v, expected, retried).keys = q.keys
BY DEF WorkerState, Busy, Allocated

\* The steps of the ledger keep its types; jobs that leave it were completed or buried.
LedgerTypes ==
  /\ status \in [Batches -> Statuses] /\ holder \in [Batches -> Workers \cup {Nobody}]
  /\ buried \in SUBSET Batches

LEMMA LedgerKeepsTypes ==
  ASSUME LedgerTypes,
         \/ UNCHANGED queue
         \/ \E b \in Batches : Queue!Post(b)
         \/ \E w \in Workers, S \in SUBSET Batches : Queue!Take(w, S) \/ Queue!Forsake(w, S)
         \/ \E w \in Workers, b \in Batches : Queue!Complete(w, b) \/ Queue!Fail(w, b)
  PROVE  /\ LedgerTypes'
         /\ buried \subseteq buried'
<1>1. CASE UNCHANGED queue
  BY <1>1 DEF LedgerTypes, queue
<1>2. ASSUME NEW b \in Batches, Queue!Post(b) PROVE LedgerTypes' /\ buried \subseteq buried'
  BY <1>2 DEF LedgerTypes, Queue!Post, Statuses
<1>3. ASSUME NEW w \in Workers, NEW S \in SUBSET Batches, Queue!Take(w, S) \/ Queue!Forsake(w, S)
      PROVE  LedgerTypes' /\ buried \subseteq buried'
  BY <1>3 DEF LedgerTypes, Queue!Take, Queue!Forsake, Statuses
<1>4. ASSUME NEW w \in Workers, NEW b \in Batches, Queue!Complete(w, b) \/ Queue!Fail(w, b)
      PROVE  LedgerTypes' /\ buried \subseteq buried'
  BY <1>4 DEF LedgerTypes, Queue!Complete, Queue!Fail, Statuses
<1>5. QED
  BY <1>1, <1>2, <1>3, <1>4

\* Only completing removes a job that is not buried.
LEMMA FailBuries ==
  ASSUME LedgerTypes, NEW w \in Workers, NEW b \in Batches, Queue!Fail(w, b), NEW c \in Batches,
         status[c] # "none" \/ c \in buried
  PROVE  status'[c] # "none" \/ c \in buried'
BY DEF LedgerTypes, Queue!Fail

-------------------------------------------------------------------------------
(* Writes *)

LEMMA WriteKeeps ==
  ASSUME PInv, NEW b \in Batches, Write(b)
  PROVE  PInv'
<1>1. LedgerTypes /\ wal' \subseteq Batches /\ wal \subseteq wal'
  BY DEF PInv, TypeInv, LedgerTypes, Write, WriteAtomic, Append, Send
<1>2. Queue!Post(b) \/ UNCHANGED queue
  BY DEF Write, WriteAtomic, Append, Send
<1>3. LedgerTypes' /\ buried \subseteq buried'
  BY <1>1, <1>2, LedgerKeepsTypes
<1>4. TypeInv'
  BY <1>1, <1>3 DEF PInv, TypeInv, LedgerTypes, Write, WriteAtomic, Append, Send
<1>5. WorkInv'
  BY DEF PInv, WorkInv, Write, WriteAtomic, Append, Send
<1>6. AckedWasServed'
  <2>1. CASE Queue!Post(b) /\ replied' = replied \cup {b} /\ served' = served
    <3>1. status'[b] = "waiting" /\ \A c \in Batches : c # b => status'[c] = status[c]
      BY <1>1, <2>1 DEF Queue!Post, LedgerTypes
    <3>2. replied \subseteq Batches
      BY DEF PInv, TypeInv
    <3>3. QED
      BY <1>3, <2>1, <3>1, <3>2 DEF PInv, AckedWasServed
  <2>2. CASE Append(b)
    BY <2>2 DEF PInv, AckedWasServed, Append, queue
  <2>3. QED
    BY <2>1, <2>2 DEF Write, WriteAtomic, Send
<1>7. QED
  BY <1>4, <1>5, <1>6 DEF PInv

-------------------------------------------------------------------------------
(* Worker steps *)

\* A step of a worker that leaves the queue and the writes alone.
LEMMA WorkerStep ==
  ASSUME PInv, NEW w \in Workers, NEW q \in WorkerState, ws' = [ws EXCEPT ![w] = q],
         UNCHANGED <<wal, replied, queue, todo>>,
         head' \in [version : Nat, keys : SUBSET Batches],
         served' \in SUBSET Batches, served \subseteq served',
         q.pc # "idle" => q.job \in todo[w] /\ q.job \in q.keys,
         q.pc = "published" => q.keys \subseteq served'
  PROVE  PInv'
<1>1. ws' \in [Workers -> WorkerState] /\ ws'[w] = q /\ \A v \in Workers : v # w => ws'[v] = ws[v]
  BY DEF PInv, TypeInv
<1>2. TypeInv'
  BY <1>1 DEF PInv, TypeInv, queue
<1>3. WorkInv'
  BY <1>1 DEF PInv, WorkInv
<1>4. AckedWasServed'
  BY DEF PInv, AckedWasServed, queue
<1>5. QED
  BY <1>2, <1>3, <1>4 DEF PInv

\* The worker goes to pc, and nothing was published for it.
LEMMA GotoKeeps ==
  ASSUME PInv, NEW w \in Workers, NEW pc \in Busy \cup {"failed"}, Goto(w, pc), ws[w].pc # "idle",
         UNCHANGED <<wal, replied, queue, todo, head, served>>
  PROVE  PInv'
<1> DEFINE q == [ws[w] EXCEPT !.pc = pc]
<1>1. ws[w] \in WorkerState /\ pc \in Busy \cup Settling /\ pc # "idle" /\ pc # "published"
  BY DEF PInv, TypeInv, Busy, Settling
<1>2. q \in WorkerState /\ q.pc = pc /\ q.job = ws[w].job /\ q.keys = ws[w].keys
  BY <1>1, AtPc
<1>3. ws' = [ws EXCEPT ![w] = q]
  BY DEF Goto
<1> HIDE DEF q
<1>4. /\ head' \in [version : Nat, keys : SUBSET Batches] /\ served' \in SUBSET Batches
      /\ served \subseteq served'
  BY DEF PInv, TypeInv
<1>5. q.job \in todo[w] /\ q.job \in q.keys
  BY <1>2 DEF PInv, WorkInv
<1>6. QED
  BY <1>1, <1>2, <1>3, <1>4, <1>5, WorkerStep

LEMMA ReceiveKeeps ==
  ASSUME PInv, NEW w \in Workers, Receive(w)
  PROVE  PInv'
<1>1. PICK S \in SUBSET Batches : Queue!Take(w, S) /\ todo' = [todo EXCEPT ![w] = S]
  BY DEF Receive
<1>2. LedgerTypes /\ LedgerTypes' /\ buried \subseteq buried'
  BY <1>1, LedgerKeepsTypes DEF PInv, TypeInv, LedgerTypes
<1>3. TypeInv'
  BY <1>1, <1>2 DEF PInv, TypeInv, LedgerTypes, Receive
<1>4. WorkInv'
  BY <1>1 DEF PInv, TypeInv, WorkInv, Receive
<1>5. AckedWasServed'
  BY <1>1, <1>2 DEF PInv, AckedWasServed, TypeInv, Receive, Queue!Take
<1>6. QED
  BY <1>3, <1>4, <1>5 DEF PInv

LEMMA ListKeeps ==
  ASSUME PInv, NEW w \in Workers, List(w)
  PROVE  PInv'
<1>1. PICK b \in todo[w] :
         ws' = [ws EXCEPT ![w] = [pc |-> "listed", job |-> b, keys |-> SnapshotKeys(b),
                                  version |-> 0, expected |-> 0, retried |-> FALSE]]
  BY DEF List
<1> DEFINE q == [pc |-> "listed", job |-> b, keys |-> SnapshotKeys(b),
                 version |-> 0, expected |-> 0, retried |-> FALSE]
<1>2. b \in Batches /\ SnapshotKeys(b) \in SUBSET Batches /\ b \in SnapshotKeys(b)
  BY DEF PInv, TypeInv, SnapshotKeys
<1>3. q \in WorkerState /\ q.pc = "listed" /\ q.job = b /\ q.keys = SnapshotKeys(b)
  BY <1>2 DEF WorkerState, Busy
<1>4. ws' = [ws EXCEPT ![w] = q]
  BY <1>1
<1> HIDE DEF q
<1>5. /\ head' \in [version : Nat, keys : SUBSET Batches] /\ served' \in SUBSET Batches
      /\ served \subseteq served' /\ UNCHANGED <<wal, replied, queue, todo>>
  BY DEF PInv, TypeInv, List
<1>6. QED
  BY <1>2, <1>3, <1>4, <1>5, WorkerStep

LEMMA AllocateKeeps ==
  ASSUME PInv, NEW w \in Workers, Allocate(w)
  PROVE  PInv'
<1> DEFINE q == Allocated(ws[w], head.version + 1, head.version, At(w, "conflict"))
<1>1. ws[w] \in WorkerState /\ head.version \in Nat /\ head.version + 1 \in Nat /\ ws[w].pc # "idle"
  BY DEF PInv, TypeInv, Allocate
<1>2. q \in WorkerState /\ q.pc = "build" /\ q.job = ws[w].job /\ q.keys = ws[w].keys
  <2>1. At(w, "conflict") \in BOOLEAN
    BY DEF At
  <2>2. QED
    BY <1>1, <2>1, AllocatedState
<1>3. ws' = [ws EXCEPT ![w] = q]
  BY DEF Allocate, Allocated
<1> HIDE DEF q
<1>4. /\ head' \in [version : Nat, keys : SUBSET Batches] /\ served' \in SUBSET Batches
      /\ served \subseteq served' /\ UNCHANGED <<wal, replied, queue, todo>>
  BY DEF PInv, TypeInv, Allocate
<1>5. q.job \in todo[w] /\ q.job \in q.keys
  BY <1>1, <1>2 DEF PInv, WorkInv
<1>6. QED
  BY <1>2, <1>3, <1>4, <1>5, WorkerStep

LEMMA ConflictKeeps ==
  ASSUME PInv, NEW w \in Workers, Conflict(w), ws[w].pc # "idle",
         UNCHANGED <<wal, replied, queue, todo, head, served>>
  PROVE  PInv'
<1>1. Goto(w, "failed") \/ Goto(w, "conflict")
  BY DEF Conflict
<1>2. "failed" \in Busy \cup {"failed"} /\ "conflict" \in Busy \cup {"failed"}
  BY DEF Busy
<1>3. QED
  BY <1>1, <1>2, GotoKeeps

LEMMA PrepareKeeps ==
  ASSUME PInv, NEW w \in Workers, Prepare(w)
  PROVE  PInv'
<1>1. Goto(w, "upload") \/ Conflict(w)
  BY DEF Prepare
<1>2. "upload" \in Busy \cup {"failed"} /\ ws[w].pc # "idle"
  BY DEF Busy, Prepare, At
<1>3. QED
  BY <1>1, <1>2, GotoKeeps, ConflictKeeps DEF Prepare

LEMMA UploadKeeps ==
  ASSUME PInv, NEW w \in Workers, Upload(w)
  PROVE  PInv'
<1>1. Goto(w, "swap") \/ Goto(w, "failed")
  BY DEF Upload
<1>2. "swap" \in Busy \cup {"failed"} /\ "failed" \in Busy \cup {"failed"} /\ ws[w].pc # "idle"
  BY DEF Busy, Upload, At
<1>3. QED
  BY <1>1, <1>2, GotoKeeps DEF Upload

\* The new head serves the segments the snapshot was built from.
LEMMA SwapKeeps ==
  ASSUME PInv, NEW w \in Workers, Swap(w)
  PROVE  PInv'
<1>1. CASE head.version # ws[w].expected
  BY <1>1, ConflictKeeps DEF Swap, At
<1>2. CASE head.version = ws[w].expected
  <2> DEFINE q == [ws[w] EXCEPT !.pc = "published"]
  <2>1. ws[w] \in WorkerState /\ "published" \in Busy \cup Settling
    BY DEF PInv, TypeInv, Settling
  <2>2. q \in WorkerState /\ q.pc = "published" /\ q.job = ws[w].job /\ q.keys = ws[w].keys
    BY <2>1, AtPc
  <2>3. ws' = [ws EXCEPT ![w] = q]
    BY <1>2 DEF Swap, Goto
  <2> HIDE DEF q
  <2>4. ws[w].keys \in SUBSET Batches /\ ws[w].version \in Nat /\ served \in SUBSET Batches
    BY <2>1 DEF WorkerState, PInv, TypeInv
  <2>5. /\ head' \in [version : Nat, keys : SUBSET Batches] /\ served' \in SUBSET Batches
        /\ served \subseteq served' /\ UNCHANGED <<wal, replied, queue, todo>>
        /\ ws[w].keys \subseteq served'
    BY <1>2, <2>4 DEF Swap
  <2>6. q.job \in todo[w] /\ q.job \in q.keys
    BY <2>2 DEF PInv, WorkInv, Swap, At
  <2>7. QED
    BY <2>2, <2>3, <2>5, <2>6, WorkerStep
<1>3. QED
  BY <1>1, <1>2

-------------------------------------------------------------------------------
(* The end of a job *)

\* A worker becomes idle and drops jobs; the queue changes as it may.
LEMMA IdleStep ==
  ASSUME PInv, NEW w \in Workers, ws' = [ws EXCEPT ![w] = Idle],
         NEW S \in SUBSET Batches, todo' = [todo EXCEPT ![w] = S],
         UNCHANGED <<wal, replied, head, served>>, LedgerTypes',
         \A b \in replied : b \in served \/ status'[b] # "none" \/ b \in buried'
  PROVE  PInv'
<1>1. /\ ws' \in [Workers -> WorkerState] /\ ws'[w].pc = "idle"
      /\ \A v \in Workers : v # w => ws'[v] = ws[v] /\ todo'[v] = todo[v]
  BY IdleIsState DEF PInv, TypeInv
<1>2. TypeInv'
  BY <1>1 DEF PInv, TypeInv, LedgerTypes
<1>3. WorkInv'
  BY <1>1 DEF PInv, WorkInv
<1>4. AckedWasServed'
  BY DEF AckedWasServed
<1>5. QED
  BY <1>2, <1>3, <1>4 DEF PInv

LEMMA SettleKeeps ==
  ASSUME PInv, NEW w \in Workers, Settle(w)
  PROVE  PInv'
<1> DEFINE b == ws[w].job
<1>1. /\ b \in Batches /\ b \in ws[w].keys /\ LedgerTypes /\ todo[w] \ {b} \in SUBSET Batches
      /\ replied \subseteq Batches
  BY DEF PInv, TypeInv, WorkInv, LedgerTypes, Settle
<1>2. Queue!Complete(w, b) \/ Queue!Fail(w, b) \/ UNCHANGED queue
  BY DEF Settle, Signal
<1>3. LedgerTypes' /\ buried \subseteq buried'
  BY <1>1, <1>2, LedgerKeepsTypes
<1>4. ASSUME NEW c \in replied PROVE c \in served \/ status'[c] # "none" \/ c \in buried'
  <2>1. c \in Batches /\ (c \in served \/ status[c] # "none" \/ c \in buried)
    BY <1>1 DEF PInv, AckedWasServed
  <2>2. CASE At(w, "published") /\ Queue!Complete(w, b)
    <3>1. b \in served
      BY <1>1, <2>2 DEF PInv, WorkInv, At
    <3>2. c # b => status'[c] = status[c]
      BY <1>1, <2>1, <2>2 DEF Queue!Complete, LedgerTypes
    <3>3. QED
      BY <1>3, <2>1, <3>1, <3>2
  <2>3. CASE Queue!Fail(w, b)
    BY <1>1, <2>1, <2>3, FailBuries
  <2>4. CASE UNCHANGED queue
    BY <2>1, <2>4 DEF queue
  <2>5. QED
    BY <2>2, <2>3, <2>4 DEF Settle, Signal
<1>5. ws' = [ws EXCEPT ![w] = Idle] /\ todo' = [todo EXCEPT ![w] = todo[w] \ {b}]
      /\ UNCHANGED <<wal, replied, head, served>>
  BY DEF Settle, Done
<1>6. QED
  BY <1>1, <1>3, <1>4, <1>5, IdleStep

LEMMA CrashKeeps ==
  ASSUME PInv, NEW w \in Workers, Crash(w)
  PROVE  PInv'
<1>1. LedgerTypes /\ replied \subseteq Batches /\ {} \in SUBSET Batches /\ Held(w) \in SUBSET Batches
  BY DEF PInv, TypeInv, LedgerTypes, Held
<1>2. \/ UNCHANGED queue
      \/ \E b \in Batches : Queue!Fail(w, b)
      \/ Queue!Forsake(w, Held(w))
  BY DEF Crash, Abandon, Held
<1>3. LedgerTypes' /\ buried \subseteq buried'
  BY <1>1, <1>2, LedgerKeepsTypes
<1>4. ASSUME NEW c \in replied PROVE c \in served \/ status'[c] # "none" \/ c \in buried'
  <2>1. c \in Batches /\ (c \in served \/ status[c] # "none" \/ c \in buried)
    BY <1>1 DEF PInv, AckedWasServed
  <2>2. CASE \E b \in Batches : Queue!Fail(w, b)
    BY <1>1, <2>1, <2>2, FailBuries
  <2>3. CASE UNCHANGED queue \/ Queue!Forsake(w, Held(w))
    BY <2>1, <2>3 DEF queue, Queue!Forsake
  <2>4. QED
    BY <1>2, <2>2, <2>3
<1>5. ws' = [ws EXCEPT ![w] = Idle] /\ todo' = [todo EXCEPT ![w] = {}]
      /\ UNCHANGED <<wal, replied, head, served>>
  BY DEF Crash
<1>6. QED
  BY <1>1, <1>3, <1>4, <1>5, IdleStep

LEMMA LoseSignalKeeps ==
  ASSUME PInv, NEW w \in Workers, LoseSignal(w)
  PROVE  PInv'
<1> DEFINE b == ws[w].job
<1>1. /\ b \in Batches /\ LedgerTypes /\ todo[w] \ {b} \in SUBSET Batches /\ {b} \in SUBSET Batches
  BY DEF PInv, TypeInv, WorkInv, LedgerTypes, LoseSignal
<1>2. Queue!Forsake(w, {b})
  BY DEF LoseSignal
<1>3. LedgerTypes' /\ buried \subseteq buried'
  BY <1>1, <1>2, LedgerKeepsTypes
<1>4. \A c \in replied : c \in served \/ status'[c] # "none" \/ c \in buried'
  BY <1>2 DEF PInv, AckedWasServed, Queue!Forsake
<1>5. ws' = [ws EXCEPT ![w] = Idle] /\ todo' = [todo EXCEPT ![w] = todo[w] \ {b}]
      /\ UNCHANGED <<wal, replied, head, served>>
  BY DEF LoseSignal, Done
<1>6. QED
  BY <1>1, <1>3, <1>4, <1>5, IdleStep

LEMMA BuildFailsKeeps ==
  ASSUME PInv, NEW w \in Workers, BuildFails(w)
  PROVE  PInv'
<1>1. ws[w].pc # "idle" /\ Goto(w, "failed")
  BY DEF BuildFails, At
<1>2. QED
  BY <1>1, GotoKeeps DEF BuildFails

-------------------------------------------------------------------------------
(* Any number of workers *)

LEMMA PInvInit == Init => PInv
<1> SUFFICES ASSUME Init PROVE PInv
  OBVIOUS
<1>1. TypeInv
  BY IdleIsState DEF Init, TypeInv, Queue!LedgerInit, Statuses
<1>2. WorkInv
  BY IdleIsState DEF Init, WorkInv
<1>3. AckedWasServed
  BY DEF Init, AckedWasServed
<1>4. QED
  BY <1>1, <1>2, <1>3 DEF PInv

LEMMA PInvNext == PInv /\ [Next]_vars => PInv'
<1> SUFFICES ASSUME PInv, [Next]_vars PROVE PInv'
  OBVIOUS
<1>1. ASSUME NEW b \in Batches, Write(b) PROVE PInv'
  BY <1>1, WriteKeeps
<1>2. ASSUME NEW w \in Workers, Step(w) PROVE PInv'
  BY <1>2, ReceiveKeeps, ListKeeps, AllocateKeeps, PrepareKeeps, UploadKeeps, SwapKeeps, SettleKeeps
  DEF Step
<1>3. ASSUME NEW w \in Workers, BuildFails(w) \/ Crash(w) \/ LoseSignal(w) PROVE PInv'
  BY <1>3, BuildFailsKeeps, CrashKeeps, LoseSignalKeeps
<1>4. CASE UNCHANGED vars
  BY <1>4 DEF PInv, TypeInv, WorkInv, AckedWasServed, vars, queue
<1>5. QED
  BY <1>1, <1>2, <1>3, <1>4 DEF Next

LEMMA PipelineInvariant == Spec => []PInv
BY PInvInit, PInvNext, PTL DEF Spec

\* build_worker.rs, queue.rs: with any number of workers, a job leaves the queue
\* other than by dying only after a head served its segment.
THEOREM AckedAlwaysServed == Spec => []AckedWasServed
<1>1. PInv => AckedWasServed
  BY DEF PInv
<1>2. QED
  BY <1>1, PipelineInvariant, PTL

-------------------------------------------------------------------------------
(* One worker *)

OneWorker == \A v, w \in Workers : v = w

\* The queue has a job for b.
Known(b) == status[b] # "none" \/ holder[b] # Nobody

\* What is served is in the WAL, and in every snapshot that is on its way.
HeadInv ==
  /\ head.keys \subseteq wal
  /\ served \subseteq head.keys
  /\ \A b \in Batches : Known(b) => b \in wal
  /\ \A w \in Workers : /\ todo[w] \subseteq wal /\ ws[w].keys \subseteq wal
                        /\ ws[w].pc \in Busy => head.keys \subseteq ws[w].keys

\* What the ledger holds was posted.
LEMMA LedgerKnown ==
  ASSUME LedgerTypes, \A c \in Batches : Known(c) => c \in wal,
         \/ UNCHANGED queue
         \/ \E b \in wal : Queue!Post(b)
         \/ \E w \in Workers, S \in SUBSET Batches : Queue!Take(w, S) \/ Queue!Forsake(w, S)
         \/ \E w \in Workers, b \in Batches : Queue!Complete(w, b) \/ Queue!Fail(w, b),
         NEW c \in Batches, Known(c)'
  PROVE  c \in wal
<1>1. CASE UNCHANGED queue
  BY <1>1 DEF queue, Known
<1>2. ASSUME NEW b \in wal, Queue!Post(b) PROVE c \in wal
  BY <1>2 DEF LedgerTypes, Queue!Post, Known
<1>3. ASSUME NEW w \in Workers, NEW S \in SUBSET Batches, Queue!Take(w, S) \/ Queue!Forsake(w, S)
      PROVE  c \in wal
  BY <1>3 DEF LedgerTypes, Queue!Take, Queue!Forsake, Known
<1>4. ASSUME NEW w \in Workers, NEW b \in Batches, Queue!Complete(w, b) \/ Queue!Fail(w, b)
      PROVE  c \in wal
  <2>1. b \in wal
    BY <1>4, PipelineConstants DEF Queue!Complete, Queue!Fail, Known
  <2>2. c # b => Known(c)
    BY <1>4 DEF LedgerTypes, Queue!Complete, Queue!Fail, Known
  <2>3. QED
    BY <2>1, <2>2
<1>5. QED
  BY <1>1, <1>2, <1>3, <1>4

LEMMA HeadInvInit == Init => HeadInv
BY IdleIsState DEF Init, HeadInv, Known, Queue!LedgerInit, Busy

LEMMA HeadInvNext ==
  ASSUME OneWorker, PInv, PInv', HeadInv, [Next]_vars
  PROVE  HeadInv' /\ head.keys \subseteq head'.keys
<1>1. /\ LedgerTypes /\ ws \in [Workers -> WorkerState] /\ ws' \in [Workers -> WorkerState]
      /\ \A c \in Batches : Known(c) => c \in wal
  BY DEF PInv, TypeInv, LedgerTypes, HeadInv
<1>2. ASSUME NEW b \in Batches, Write(b) PROVE HeadInv' /\ head.keys \subseteq head'.keys
  <2>1. (Queue!Post(b) /\ b \in wal') \/ UNCHANGED queue
    BY <1>2 DEF Write, WriteAtomic, Append, Send
  <2>2. wal \subseteq wal' /\ UNCHANGED <<head, served, todo, ws>>
    BY <1>2 DEF Write, WriteAtomic, Append, Send
  <2>3. ASSUME NEW c \in Batches, Known(c)' PROVE c \in wal'
    BY <1>1, <2>1, <2>2, <2>3 DEF LedgerTypes, Queue!Post, Known, queue
  <2>4. QED
    BY <2>2, <2>3 DEF HeadInv
<1>3. ASSUME NEW w \in Workers, Step(w) PROVE HeadInv' /\ head.keys \subseteq head'.keys
  <2>1. ASSUME NEW c \in Batches, Known(c)' PROVE c \in wal
    <3>1. ws[w].pc \in Settling => ws[w].job \in Batches
      BY <1>1, PInvNext DEF PInv, TypeInv, WorkInv, Settling
    <3>2. \/ UNCHANGED queue
          \/ \E S \in SUBSET Batches : Queue!Take(w, S)
          \/ \E b \in Batches : Queue!Complete(w, b) \/ Queue!Fail(w, b)
      BY <1>3, <3>1 DEF Step, Receive, List, Allocate, Prepare, Upload, Swap, Settle, Signal, Settling
    <3>3. QED
      BY <1>1, <2>1, <3>2, LedgerKnown
  <2>2. CASE Receive(w)
    <3>1. PICK S \in SUBSET Batches : Queue!Take(w, S) /\ todo' = [todo EXCEPT ![w] = S]
      BY <2>2 DEF Receive
    <3>2. \A b \in S : b \in wal
      BY <1>1, <3>1 DEF Queue!Take, Known
    <3>3. QED
      BY <2>1, <2>2, <3>1, <3>2 DEF Receive, HeadInv, OneWorker, PInv, TypeInv
  <2>3. CASE List(w)
    <3>1. PICK b \in todo[w] :
             ws' = [ws EXCEPT ![w] = [pc |-> "listed", job |-> b, keys |-> SnapshotKeys(b),
                                      version |-> 0, expected |-> 0, retried |-> FALSE]]
      BY <2>3 DEF List
    <3>2. ws'[w].keys = wal
      BY <1>1, <3>1 DEF SnapshotKeys, HeadInv
    <3>3. QED
      BY <1>1, <2>1, <2>3, <3>2 DEF List, HeadInv, OneWorker
  <2>4. CASE Allocate(w) \/ Prepare(w) \/ Upload(w) \/ (Swap(w) /\ UNCHANGED <<head, served>>)
    <3>1. UNCHANGED <<wal, head, served, todo>> /\ ws'[w].keys = ws[w].keys /\ ws[w].pc \in Busy
      BY <1>1, <2>4 DEF Allocate, Prepare, Upload, Swap, Goto, Conflict, At, Busy, WorkerState
    <3>2. QED
      BY <1>1, <2>1, <3>1 DEF HeadInv, OneWorker
  <2>5. CASE Swap(w) /\ head' = [version |-> ws[w].version, keys |-> ws[w].keys]
             /\ served' = served \cup ws[w].keys /\ Goto(w, "published")
    <3>1. ws'[w].pc = "published" /\ ws'[w].keys = ws[w].keys /\ head'.keys = ws[w].keys
      BY <1>1, <2>5 DEF Goto, WorkerState
    <3>2. head.keys \subseteq ws[w].keys /\ ws[w].keys \subseteq wal
      BY <2>5 DEF HeadInv, Swap, At, Busy
    <3>3. UNCHANGED <<wal, todo>>
      BY <2>5 DEF Swap
    <3>4. QED
      BY <1>1, <2>1, <2>5, <3>1, <3>2, <3>3 DEF HeadInv, OneWorker, Busy
  <2>6. CASE Settle(w)
    <3>1. ws'[w] = Idle /\ todo'[w] \subseteq todo[w] /\ UNCHANGED <<wal, head, served>>
      BY <1>1, <2>6 DEF Settle, Done, PInv, TypeInv
    <3>2. QED
      BY <1>1, <2>1, <3>1, IdleIsState DEF HeadInv, OneWorker, Busy
  <2>7. QED
    BY <1>3, <2>2, <2>3, <2>4, <2>5, <2>6 DEF Step, Swap
<1>4. ASSUME NEW w \in Workers, BuildFails(w) \/ Crash(w) \/ LoseSignal(w)
      PROVE  HeadInv' /\ head.keys \subseteq head'.keys
  <2>1. ASSUME NEW c \in Batches, Known(c)' PROVE c \in wal
    <3>1. Held(w) \in SUBSET Batches /\ (ws[w].pc \in Settling => {ws[w].job} \in SUBSET Batches)
      BY <1>1 DEF PInv, TypeInv, WorkInv, Settling, Held
    <3>2. \/ UNCHANGED queue
          \/ \E S \in SUBSET Batches : Queue!Forsake(w, S)
          \/ \E b \in Batches : Queue!Fail(w, b)
      BY <1>4, <3>1 DEF BuildFails, Crash, Abandon, LoseSignal, Settling, Held
    <3>3. QED
      BY <1>1, <2>1, <3>2, LedgerKnown
  <2>2. UNCHANGED <<wal, head, served>>
    BY <1>4 DEF BuildFails, Crash, LoseSignal
  <2>3. ws'[w].keys \subseteq ws[w].keys /\ ws'[w].pc \notin Busy /\ todo'[w] \subseteq todo[w]
    BY <1>1, <1>4, IdleIsState DEF BuildFails, Crash, LoseSignal, Goto, Done, Busy, PInv, TypeInv,
                                   WorkerState
  <2>4. QED
    BY <1>1, <2>1, <2>2, <2>3 DEF HeadInv, OneWorker
<1>5. CASE UNCHANGED vars
  BY <1>5 DEF vars, queue, HeadInv, Known
<1>6. QED
  BY <1>2, <1>3, <1>4, <1>5 DEF Next

LEMMA OneWorkerInvariant ==
  ASSUME OneWorker
  PROVE  Spec => [](PInv /\ HeadInv)
<1>1. PInv /\ HeadInv /\ [Next]_vars => (PInv /\ HeadInv)'
  BY PInvNext, HeadInvNext
<1>2. QED
  BY <1>1, PInvInit, HeadInvInit, PTL DEF Spec

\* build_worker.rs, write/api.rs: with one worker, whatever fails, crashes or is
\* delivered again, an accepted write is served, queued or in the dead letters.
THEOREM OneWorkerLosesNothing ==
  ASSUME OneWorker
  PROVE  Spec => []NoAcceptedBatchLost
<1>1. PInv /\ HeadInv => NoAcceptedBatchLost
  BY DEF PInv, HeadInv, AckedWasServed, NoAcceptedBatchLost
<1>2. QED
  BY <1>1, OneWorkerInvariant, PTL

\* build_worker.rs:22-24: with one worker no new head drops a segment.
THEOREM OneWorkerNeverForgets ==
  ASSUME OneWorker
  PROVE  Spec => HeadNeverForgets
<1>1. PInv /\ HeadInv /\ [Next]_vars => head.keys \subseteq head'.keys
  BY PInvNext, HeadInvNext
<1>2. QED
  BY <1>1, OneWorkerInvariant, PTL DEF Spec, HeadNeverForgets
===============================================================================
