--------------------------- MODULE IndexPublish ---------------------------
(***************************************************************************)
(* How an index version is built and becomes the active one.               *)
(*                                                                         *)
(*   builder.rs         stage the version, then rename its parts, one at a *)
(*                      time, into the site's staging tree                 *)
(*   publisher.rs       read _head, upload the parts CreateOnly, then      *)
(*                      compare-and-swap _head; rollback                   *)
(*   build_worker.rs    allocate head+1, retry once on a publish conflict  *)
(*   http/build.rs      POST /build with a version the caller chose        *)
(*   s3_publish.rs, fs_publish.rs, sqlite/head.rs   the two storages       *)
(*                                                                         *)
(* What a build contains is only a number here, different for each build.  *)
(* The etag of _head is a hash of its bytes, and its bytes are the version *)
(* and updated_at: a head is that pair, and the CAS compares the pair.     *)
(***************************************************************************)
EXTENDS Integers, FiniteSets

CONSTANTS
    Workers,     \* queue workers (process_queue_message)
    Callers,     \* clients of POST /build
    Operators,   \* clients of IndexPublisher::rollback
    Sites,       \* staging trees: one per Lambda container, one per local root
    Site,        \* builder -> the site it builds in
    OnS3,        \* TRUE: S3 with If-None-Match; FALSE: filesystem and SQLite
    MaxVersion,  \* bound: version ids
    MaxBuilds,   \* bound: builds that are started
    MaxAt,       \* bound: values of updated_at
    MaxFaults    \* bound: crashes and I/O errors

Builders == Workers \cup Callers

ASSUME PublishConstants ==
    /\ Workers \cap Callers = {}
    /\ Site \in [Builders -> Sites]
    /\ OnS3 \in BOOLEAN
    /\ ~OnS3 => \A a, b \in Builders : Site[a] = Site[b]  \* one <root>/staging
    /\ MaxVersion \in Nat \ {0}
    /\ MaxBuilds \in Nat /\ MaxAt \in Nat \ {0} /\ MaxFaults \in Nat

VARIABLES
    head,     \* the object at INDEX_HEAD_KEY
    store,    \* publish storage: version -> part -> what is there
    staged,   \* site -> version -> part -> the build it comes from, 0 if absent
    bs,       \* builder -> where it is in build and publish
    ops,      \* operator -> where it is in rollback
    builds,   \* history: builds started so far; numbers them
    lastAct,  \* history: the last activation, as its author would report it
    faults    \* history: crashes and I/O errors so far

vars == <<head, store, staged, bs, ops, builds, lastAct, faults>>

Versions == 1 .. MaxVersion

\* The shard's LanceDB directory, its Tantivy directory, the manifest file, in
\* the order in which both the builder moves them and the publisher uploads them.
Part == <<"lance", "index", "manifest">>
Parts == {"lance", "index", "manifest"}

Head == [version : 0 .. MaxVersion, at : 0 .. MaxAt]
NoHead == [version |-> 0, at |-> 0]

\* A part in publish storage: the build its bytes come from (Mixed if they come
\* from two), and whether its upload finished.
Mixed == MaxBuilds + 1
Stored == [build : 0 .. Mixed, done : BOOLEAN]
Nothing == [build |-> 0, done |-> FALSE]

\* expected = 0 is expected_current_version = None.
BuilderState ==
    [pc : {"idle", "assigned", "moving", "built", "upload", "put", "copy", "swap", "retry"},
     version : 0 .. MaxVersion, expected : 0 .. MaxVersion, build : 0 .. MaxBuilds,
     seen : Head, part : 1 .. 3, retried : BOOLEAN]

Idle == [pc |-> "idle", version |-> 0, expected |-> 0, build |-> 0,
         seen |-> NoHead, part |-> 1, retried |-> FALSE]

OperatorState == [pc : {"idle", "swap"}, target : 0 .. MaxVersion, seen : Head]
OpIdle == [pc |-> "idle", target |-> 0, seen |-> NoHead]

TypeOK ==
    /\ head \in Head
    /\ store \in [Versions -> [Parts -> Stored]]
    /\ staged \in [Sites -> [Versions -> [Parts -> 0 .. MaxBuilds]]]
    /\ bs \in [Builders -> BuilderState]
    /\ ops \in [Operators -> OperatorState]
    /\ builds \in 0 .. MaxBuilds
    /\ lastAct \in [kind : {"none", "publish", "rollback"},
                    version : 0 .. MaxVersion, prev : 0 .. MaxVersion]
    /\ faults \in 0 .. MaxFaults

Init ==
    /\ head = NoHead
    /\ store = [v \in Versions |-> [p \in Parts |-> Nothing]]
    /\ staged = [s \in Sites |-> [v \in Versions |-> [p \in Parts |-> 0]]]
    /\ bs = [b \in Builders |-> Idle]
    /\ ops = [o \in Operators |-> OpIdle]
    /\ builds = 0
    /\ lastAct = [kind |-> "none", version |-> 0, prev |-> 0]
    /\ faults = 0

----------------------------------------------------------------------------
At(b, pc) == bs[b].pc = pc
Goto(b, pc) == bs' = [bs EXCEPT ![b].pc = pc]
PartOf(b) == Part[bs[b].part]

\* The request ends with an error that nobody retries at once.
GiveUp(b) == bs' = [bs EXCEPT ![b] = Idle]

\* "publish conflict": process_queue_message runs the build once more, with a
\* version it allocates anew; POST /build just reports the error.
Conflict(b) ==
    IF b \in Workers /\ ~bs[b].retried THEN Goto(b, "retry") ELSE GiveUp(b)

Start(b, v, expected, retried) ==
    /\ builds < MaxBuilds
    /\ v \in Versions
    /\ builds' = builds + 1
    /\ bs' = [bs EXCEPT ![b] = [pc |-> "assigned", version |-> v, expected |-> expected,
                                build |-> builds + 1, seen |-> NoHead, part |-> 1,
                                retried |-> retried]]
    /\ UNCHANGED <<head, store, staged, ops, lastAct, faults>>

\* next_version_id: (head + 1, Some(head)), or (1, None) without a head.
Allocate(w) ==
    \/ At(w, "idle") /\ Start(w, head.version + 1, head.version, FALSE)
    \/ At(w, "retry") /\ Start(w, head.version + 1, head.version, TRUE)

\* handle_build: the version of the request, expected_current_version = None.
Request(c, v) == At(c, "idle") /\ Start(c, v, 0, FALSE)

----------------------------------------------------------------------------
(* LocalIndexBuilder::build *)

StagedAt(b) == staged[Site[b]][bs[b].version]

\* write_staged_build: ensure_target_is_publishable on the three targets, then
\* write the artifacts into a private .index-build-staging directory.
Stage(b) ==
    /\ At(b, "assigned")
    /\ IF \A p \in Parts : StagedAt(b)[p] = 0 THEN Goto(b, "moving") ELSE GiveUp(b)
    /\ UNCHANGED <<head, store, staged, ops, builds, lastAct, faults>>

\* Mutant of Moved: every destination, whoever moved a part there.
MovedByAnyone(b) == Parts

\* The parts this build moved before the one it is at.
Moved(b) == {Part[i] : i \in 1 .. bs[b].part - 1}

\* StagedDir::commit, its clean-up: remove the destinations moved so far.
Unmove(b) ==
    staged' = [staged EXCEPT ![Site[b]][bs[b].version] =
                 [p \in Parts |-> IF p \in Moved(b) THEN 0 ELSE @[p]]]

\* rename(2) does not replace a directory that has files; it does replace a file.
Movable(b) == PartOf(b) = "manifest" \/ StagedAt(b)[PartOf(b)] = 0

\* StagedDir::commit, one rename.
Move(b) ==
    /\ At(b, "moving")
    /\ IF Movable(b)
       THEN /\ staged' = [staged EXCEPT ![Site[b]][bs[b].version][PartOf(b)] = bs[b].build]
            /\ bs' = IF bs[b].part = 3 THEN [bs EXCEPT ![b].pc = "built", ![b].part = 1]
                     ELSE [bs EXCEPT ![b].part = @ + 1]
       ELSE Unmove(b) /\ GiveUp(b)
    /\ UNCHANGED <<head, store, ops, builds, lastAct, faults>>

----------------------------------------------------------------------------
(* IndexPublisher::publish *)

\* The two checks of the request against the head that was read.
Supersedes(b) ==
    /\ bs[b].expected # 0 => head.version = bs[b].expected
    /\ bs[b].version > head.version

\* The local manifest is the one of this very build, its directories are there.
SourcesMatch(b) ==
    /\ StagedAt(b)["manifest"] = bs[b].build
    /\ \A p \in Parts : StagedAt(b)[p] # 0

\* Read _head and its etag, check the request, check the local artifacts.
Prepare(b) ==
    /\ At(b, "built")
    /\ IF ~Supersedes(b) THEN Conflict(b)
       ELSE IF ~SourcesMatch(b) THEN GiveUp(b)
       ELSE bs' = [bs EXCEPT ![b].pc = "upload", ![b].seen = head]
    /\ UNCHANGED <<head, store, staged, ops, builds, lastAct, faults>>

PartStored(b) == store[bs[b].version][PartOf(b)]

\* fs_publish: CreateOnly is a test of the destination ...
CheckAbsent(b) ==
    /\ ~OnS3
    /\ At(b, "upload")
    /\ IF PartStored(b) = Nothing THEN Goto(b, "put") ELSE GiveUp(b)
    /\ UNCHANGED <<head, store, staged, ops, builds, lastAct, faults>>

\* ... and the copy, which starts later, writes whatever is there by then.
PutLocal(b) ==
    /\ At(b, "put")
    /\ store' = [store EXCEPT ![bs[b].version][PartOf(b)] =
                   [build |-> IF @.build = 0 THEN StagedAt(b)[PartOf(b)] ELSE Mixed,
                    done |-> FALSE]]
    /\ Goto(b, "copy")
    /\ UNCHANGED <<head, staged, ops, builds, lastAct, faults>>

\* s3_publish: CreateOnly is If-None-Match on each object.  A directory belongs
\* to the build that created the object whose name does not depend on the build.
PutS3(b) ==
    /\ OnS3
    /\ At(b, "upload")
    /\ IF PartStored(b) = Nothing
       THEN /\ store' = [store EXCEPT ![bs[b].version][PartOf(b)] =
                           [build |-> StagedAt(b)[PartOf(b)], done |-> FALSE]]
            /\ Goto(b, "copy")
       ELSE GiveUp(b) /\ UNCHANGED store
    /\ UNCHANGED <<head, staged, ops, builds, lastAct, faults>>

\* Mutants of FinishPart: it stops before the manifest; it never stops.
FinishPartEarly(b) ==
    /\ At(b, "copy")
    /\ store' = [store EXCEPT ![bs[b].version][PartOf(b)].done = TRUE]
    /\ IF bs[b].part = 2 THEN Goto(b, "swap")
       ELSE bs' = [bs EXCEPT ![b].pc = "upload", ![b].part = @ + 1]
    /\ UNCHANGED <<head, staged, ops, builds, lastAct, faults>>
FinishPartForever(b) ==
    /\ At(b, "copy")
    /\ store' = [store EXCEPT ![bs[b].version][PartOf(b)].done = TRUE]
    /\ bs' = [bs EXCEPT ![b].pc = "upload", ![b].part = @ + 1]
    /\ UNCHANGED <<head, staged, ops, builds, lastAct, faults>>

\* The last byte of the part is there.
FinishPart(b) ==
    /\ At(b, "copy")
    /\ store' = [store EXCEPT ![bs[b].version][PartOf(b)].done = TRUE]
    /\ IF bs[b].part = 3 THEN Goto(b, "swap")
       ELSE bs' = [bs EXCEPT ![b].pc = "upload", ![b].part = @ + 1]
    /\ UNCHANGED <<head, staged, ops, builds, lastAct, faults>>

Activate(kind, v, prev, at) ==
    /\ head' = [version |-> v, at |-> at]
    /\ lastAct' = [kind |-> kind, version |-> v, prev |-> prev]

\* Mutant of Swap: an unconditional put.
SwapBlindly(b, at) ==
    /\ At(b, "swap")
    /\ Activate("publish", bs[b].version, bs[b].seen.version, at)
    /\ GiveUp(b)
    /\ UNCHANGED <<store, staged, ops, builds, faults>>

\* compare_and_swap of _head with the etag read by Prepare.
Swap(b, at) ==
    /\ At(b, "swap")
    /\ IF head = bs[b].seen
       THEN Activate("publish", bs[b].version, bs[b].seen.version, at) /\ GiveUp(b)
       ELSE Conflict(b) /\ UNCHANGED <<head, lastAct>>
    /\ UNCHANGED <<store, staged, ops, builds, faults>>

----------------------------------------------------------------------------
(* IndexPublisher::rollback *)

\* Mutant of RollbackRead: the target's manifest is not looked for.
RollbackReadUnchecked(o, target, expected) ==
    /\ ops[o].pc = "idle"
    /\ head.version = expected
    /\ ops' = [ops EXCEPT ![o] = [pc |-> "swap", target |-> target, seen |-> head]]
    /\ UNCHANGED <<head, store, staged, bs, builds, lastAct, faults>>

\* Read _head, compare its version with the caller's, look for the manifest of
\* the target.
RollbackRead(o, target, expected) ==
    /\ ops[o].pc = "idle"
    /\ head.version = expected
    /\ store[target]["manifest"].done
    /\ ops' = [ops EXCEPT ![o] = [pc |-> "swap", target |-> target, seen |-> head]]
    /\ UNCHANGED <<head, store, staged, bs, builds, lastAct, faults>>

RollbackSwap(o, at) ==
    /\ ops[o].pc = "swap"
    /\ IF head = ops[o].seen
       THEN Activate("rollback", ops[o].target, ops[o].seen.version, at)
       ELSE UNCHANGED <<head, lastAct>>
    /\ ops' = [ops EXCEPT ![o] = OpIdle]
    /\ UNCHANGED <<store, staged, bs, builds, faults>>

----------------------------------------------------------------------------
(* Faults *)

Fault == faults < MaxFaults /\ faults' = faults + 1

\* An I/O error in a step of build or publish: the builder removes what it
\* moved, the publisher leaves what it uploaded.
IoError(b) ==
    /\ Fault
    /\ bs[b].pc \notin {"idle", "retry"}
    /\ IF At(b, "moving") THEN Unmove(b) ELSE UNCHANGED staged
    /\ GiveUp(b)
    /\ UNCHANGED <<head, store, ops, builds, lastAct>>

\* The process dies between two steps.
Crash(b) ==
    /\ Fault
    /\ bs[b].pc # "idle"
    /\ GiveUp(b)
    /\ UNCHANGED <<head, store, staged, ops, builds, lastAct>>

\* The conditional write of _head took effect but its answer was lost.
SwapUnanswered(b, at) ==
    /\ OnS3
    /\ Fault
    /\ At(b, "swap")
    /\ head = bs[b].seen
    /\ Activate("publish", bs[b].version, bs[b].seen.version, at)
    /\ GiveUp(b)
    /\ UNCHANGED <<store, staged, ops, builds>>

\* Lambda discards an idle container, and its /tmp with it.
Recycle(s) ==
    /\ OnS3
    /\ \A b \in Builders : Site[b] = s => At(b, "idle")
    /\ staged' = [staged EXCEPT ![s] = [v \in Versions |-> [p \in Parts |-> 0]]]
    /\ UNCHANGED <<head, store, bs, ops, builds, lastAct, faults>>

----------------------------------------------------------------------------
BuildStep(b) == Stage(b) \/ Move(b)

PublishStep(b) ==
    \/ Prepare(b) \/ CheckAbsent(b) \/ PutLocal(b) \/ PutS3(b) \/ FinishPart(b)
    \/ \E at \in 1 .. MaxAt : Swap(b, at)

Next ==
    \/ \E w \in Workers : Allocate(w)
    \/ \E c \in Callers, v \in Versions : Request(c, v)
    \/ \E b \in Builders : BuildStep(b)
    \/ \E b \in Builders : PublishStep(b)
    \/ \E o \in Operators, target \in Versions, expected \in 0 .. MaxVersion :
          RollbackRead(o, target, expected)
    \/ \E o \in Operators, at \in 1 .. MaxAt : RollbackSwap(o, at)
    \/ \E b \in Builders : IoError(b) \/ Crash(b)
    \/ \E b \in Builders, at \in 1 .. MaxAt : SwapUnanswered(b, at)
    \/ \E s \in Sites : Recycle(s)

Spec == Init /\ [][Next]_vars

----------------------------------------------------------------------------
Complete(v) ==
    \E n \in 1 .. MaxBuilds : \A p \in Parts : store[v][p] = [build |-> n, done |-> TRUE]

\* The active version can be served: whatever was uploaded, lost, crashed or
\* rolled back, _head names a version whose three parts are all there, whole,
\* and from one and the same build (publisher.rs: parts, manifest, then _head).
HeadServable == head # NoHead => Complete(head.version)

\* No upload ever adds to a version that another build began: its parts come
\* from one build (publisher.rs: CreateOnly; builder.rs: the renames).
VersionsNotMixed ==
    \A v \in Versions : \A p, q \in Parts :
        /\ store[v][p].build # Mixed
        /\ store[v][p].build # 0 /\ store[v][q].build # 0 => store[v][p].build = store[v][q].build

\* An activation replaces exactly the head its author saw, and only a rollback
\* lowers the version, although the checks and the write are separate calls
\* (publisher.rs: the etag that the CAS presents; previous_version_id).
ActivationsInOrder ==
    [][head' # head =>
         /\ lastAct'.prev = head.version
         /\ lastAct'.version = head'.version
         /\ lastAct'.kind = "publish" => head'.version > head.version]_vars

\* publisher.rs:58-59: "A retry of a partially-uploaded version must therefore
\* use a fresh version_id": the version a lone worker allocates has no parts in
\* storage yet.
RetryUsesFreshVersion ==
    \A w \in Workers : At(w, "assigned") =>
        \A p \in Parts : store[bs[w].version][p] = Nothing

----------------------------------------------------------------------------
\* Publish storage as a catalogue of finished versions: see VersionCatalog.
FinishedBuild(v) ==
    IF \A p \in Parts : store[v][p].done THEN store[v]["manifest"].build ELSE 0

Catalog == INSTANCE VersionCatalog WITH
    active  <- head.version,
    catalog <- [v \in Versions |-> FinishedBuild(v)],
    Builds  <- 0 .. Mixed

\* Building, uploading, swapping and rolling back implement the catalogue: a
\* version is entered whole, once, never changes, and only entered versions
\* become active (publisher.rs).
ImplementsCatalog == Catalog!Spec
============================================================================
