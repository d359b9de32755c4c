# LTSearch in TLA+

LTSearch accepts documents over a write API, logs them in a write-ahead log (WAL),
rebuilds a full search index in the background, publishes it as an immutable version,
and serves queries from the version that a single pointer, `_head`, names. This
directory holds TLA+ modules of its core, the TLC configurations that check them, and
TLAPS proofs about them. Paths are relative to the repository; `queue.rs` is
`src/local/sqlite/queue.rs`, other short names are resolved in section 1.

1. The system and its parts
2. Modules and how they correspond to the code
3. What each run checks, and its bounds
4. Fairness
5. What is proved
6. What the runs found
7. What is not modelled
8. What could come next

## 1. The system and its parts

The same domain code runs in two profiles. The *local* profile is one binary, files and
one SQLite database; the worker is one process. The *AWS* profile is Lambda functions
over S3 and SQS; SQS starts as many build containers as it likes.

    writer --POST--> WriteApi --segment--> WAL          (files / S3)
                        \------job-------> build queue  (SQLite / SQS)
                                              |
                 worker: receive -> list WAL -> allocate version -> build -> publish -> ack/nack
                                                                       |         |
                                                  staging tree (renames)   publish storage, _head
                                                                                 |
    client --POST--> QueryService --reads _head, caches a handler per version----+

| Component (source) | State it keeps | Operations |
|---|---|---|
| SQLite job queue (`local/sqlite/queue.rs`, `schema.rs`) | table `build_jobs`: one row per batch with state, attempts, `available_at`, `claimed_at`, claim token; `dead_jobs` | `insert_build_job`, `append_and_enqueue`, `receive`, `ack`, `nack` |
| Worker loop (`build_worker.rs`, `contracts.rs`) | deliveries in hand | poll, process each delivery, signal the outcome; list the WAL; allocate `head + 1`; retry once on a conflict |
| Index builder (`indexing/builder.rs`, `storage/staged_publish.rs`) | staging tree of a host: three parts per version | materialise the newest record per document; check the targets; stage; rename part by part, remove what was moved on failure |
| Publisher (`indexing/publisher.rs`) | none of its own | `publish`: read `_head`, check, upload the parts, compare-and-swap `_head`; `rollback` |
| Publish storage (`adapters/s3_publish.rs`, `local/fs_publish.rs`, `local/sqlite/head.rs`, `storage/head.rs`) | objects or files, `_head` and its etag | CreateOnly upload, read, compare-and-swap |
| Write API and WAL (`write/api.rs`, `write/wal.rs`, `models/write.rs`, the two WAL stores) | segments `wal/YYYY/MM/DD/batch-<uuid>.jsonl` | `ingest`, `delete`, `append_and_enqueue` (default: two calls; SQLite: one transaction), list, read |
| Build entry points (`http/build.rs`, `build_lambda.rs`, `lambda_events.rs`, `aws_wiring.rs`, `adapters/sqs_job_source.rs`, `app.rs`) | none | POST /build; SQS event; wiring of the loop |
| Query service (`query_service.rs`, `query_lambda.rs`, `http/query.rs`) | cached handler with its key, behind a mutex | sync; load the key; hit, or bootstrap under the mutex with one retry; `/query`, `/health` |
| Query routing and ranking (`query/*`) | counters of the shards that are open | embed with one retry; search vectors, keywords and the static release; fuse by reciprocal rank; filter; widen the window; fall back to keywords; cut a context to its budget |
| Artifact sync (`adapters/s3_artifact_sync.rs`) | local copies of versions and static releases, and of both heads | list and copy object by object; pull a release through a staging directory, then plant its pointer |
| Static releases (`index/static_release.rs`, `release_manifest.rs`, `mmap_index.rs`, `indexing/static_publisher.rs`, `bin/static_activate.rs`) | release directories with their manifests, `static/_head` | build into an output directory and replace it whole; verify; install by rename, by copy or by upload; swap the pointer; load and read an image |
| Model assets (`embedding/model_assets.rs`) | bundle directory, manifest as its completeness mark | provision, manifest last |
| Engines and codecs (`embedding/*`, `index/turbo_prod.rs`, `rotation.rs`, `codebook.rs`, `qjl.rs`, `codec_config.rs`) | generated matrices and tables, their files | generate from a seed, write, parse, quantise, pack, score |
| Configuration (`bootstrap.rs`, `app.rs`, `bin/ltsearch.rs`) | environment | choose providers and adapters |

**Interactions.** Writer and worker share only the WAL and the queue. Workers share the
queue, publish storage and `_head`, and on one host also the staging tree. `_head` and
`static/_head` are the only mutable objects of publish storage. A query process reads them
and copies what they name; its requests share the artifact root and the cached handler.
Build and activation commands meet in the output directory, the store and the pointer;
cold starts of a container meet in the bundle directory that outlives them.

**What is hard here.** Leases that end while a worker is still busy, and its late `ack`
or `nack`; a batch that is enqueued again while it is claimed; a crash with several jobs
in hand or between publishing and acking; the WAL listing that ages while another builder
publishes; a version id that is given again after a half-finished attempt; CreateOnly
that is per object on S3 and a test before a copy on the filesystem; a head swap whose
answer is lost, or whose head went away and came back; records that are replayed in the
order of random names. On the query side: a key that is two reads, taken before the mutex
that guards the cache; a copy of the bucket that is no snapshot of it; heads that move
during a bootstrap. For releases and model bundles: directories that are replaced, copied
and uploaded in many steps by processes that die. In the static images: offsets, lengths
and codecs that come from files somebody else wrote.

**What makes each part correct.**

- Queue: one live delivery per job can settle it; nobody is given a job within another's
  lease; a job leaves the queue built or dead-lettered; only real failures are charged;
  every job leaves in the end.
- Publisher and storage: whatever `_head` names is whole and from one build; a stored
  version never changes; an activation replaces exactly the head its author saw.
- Worker: a batch whose write succeeded is searchable, queued, or dead-lettered; a new
  head does not forget documents; accepted batches become searchable.
- Builder: the snapshot holds, for each document, what the last accepted write said, and
  can be built. WAL: keys carry the civil date, so days sort in order.
- Query service: an answer comes from a version and a release that were active while the
  request ran; one publication does not refuse a request; `/health` shows a pair that
  really was served.
- Static releases: the output directory, the store and the pointer only ever show whole
  releases, and no rebuild loses the last one. What verifies is one build, what loads can
  be read, what was built reads back.
- Model assets: what is taken for ready is complete and of one revision.
- Codec: a stored code is the nearest one, and what is scored is what was stored.
- Retrieval: each retriever finds the best of what it holds; fusion respects both
  rankings; filters cost no result; the context fits its budget.

## 2. Modules and how they correspond to the code

| Module | Models | Uses |
|---|---|---|
| `JobLedger` | what a job queue promises: each job has at most one owner, only the owner completes or fails it | |
| `BuildQueue` | the SQLite queue and the loop that consumes it | instantiates `JobLedger` as its abstraction |
| `BuildQueueProofs` | theorems about `BuildQueue`, that it implements `JobLedger` among them | extends `BuildQueue` |
| `VersionCatalog` | what publish storage promises: finished versions are immutable, only finished versions become active | |
| `IndexPublish` | staging, renames, uploads, head swap, rollback, on S3 or on one host | instantiates `VersionCatalog` |
| `IndexPublishProofs` | theorems about `IndexPublish`, that it implements `VersionCatalog` among them | extends `IndexPublish` |
| `Pipeline` | write -> WAL and queue -> worker -> head, in both profiles | instantiates `JobLedger` as its queue |
| `PipelineProofs` | theorems about `Pipeline` | extends `Pipeline` |
| `Snapshot` | which records a full snapshot keeps, and whether it can be built | extends `Ordering` |
| `Calendar` | the date arithmetic of WAL keys | |
| `QueryServing` | sync, key, cached handler, `/query` and `/health` against heads that move | |
| `QueryServingProofs` | theorems about `QueryServing` | extends `QueryServing` |
| `StaticRelease` | `static-build` and `static-activate` as processes over directories, S3 and the pointer | |
| `ModelAssets` | the cold start of an embedding process | |
| `InstallProofs` | theorems about `StaticRelease`, `ModelAssets` and the two together | extends `MCInstalls` |
| `TurboCodec` | the arithmetic of the codec: rotation, codebook, packing, scoring | |
| `CodecAssets` | codec configurations and the asset files | |
| `ReleaseImage` | the files of a static image: built, damaged, loaded, verified; the hash of an id is a parameter | extends `CodecAssets`, `Ordering` |
| `DocIdHash` | that hash, for the runs: FNV-1a on its low bits | |
| `ReleaseImageProofs` | theorems about `ReleaseImage` and `TurboCodec` | extends the two and `FoldLemmas` |
| `Retrieval` | retrievers, fusion, filters, the router's window and fallback | extends `Ordering` |
| `Ordering` | sorting, as the place each element takes | |
| `LanceCache` | accounting of open shards, shared by concurrent searches | |
| `ContextBudget` | the loop that drops chunks until a context fits | |
| `AlgorithmProofs` | theorems about `Calendar`, `Snapshot`, `ContextBudget`, `LanceCache` and `Retrieval` | extends the five and `FoldLemmas` |
| `FoldLemmas` | least elements, sums over finite sets and over matrices, places in a finite order, sorting, recursion over an interval, concatenation | extends `Ordering` |
| `MC*` | constants of the small instances; three of them put modules that share nothing beside each other and let a behaviour choose one | |

`Pipeline` uses the abstract queue, and `BuildQueue` is checked to implement it: tokens,
leases and back-off are examined once, in `BuildQueue`, and need not be carried along.
`QueryServing` takes publishing and static activation as its environment in the same
spirit: what it assumes of them (objects before heads, whole releases only) is what
`IndexPublish` and, for releases that no two commands met in, `StaticRelease` are checked
for.

**BuildQueue.** `jobs[b]` is the row of batch `b`, `dead[b]` its dead letter, `inbox[w]`
the deliveries worker `w` got from its last `receive`. Each transaction (BEGIN IMMEDIATE,
or one statement) is one action: `Enqueue` (the upsert, which resets the attempts and
leaves the token in place), `Receive` (reclaim expired leases, then claim *every* due
row, each with a fresh token), `Ack` and `Nack` (conditioned on batch and token; no row
means no effect), `LoseSignal` (the loop logs a failed `ack`/`nack` and goes on), `Crash`.
Deadlines are stored as the time left, which `Tick` decreases; the code compares absolute
milliseconds, so the two agree as long as the clock does not run backwards (a comment in
the code calls it monotonic, it is `SystemTime`). `receive` reads the clock before it
waits for the database; a stale reading only makes rows due or expired *later*, and the
lease it writes end *earlier*, which `Lease` in the model covers by ticks that may fall
right after the action. Tokens are 16 random bytes; the model takes any nonce that no row
and no delivery of that batch carries, which is all a comparison can tell.
`built`, `failures`, `enqueued` and the fields `left` and `enq` of a delivery are history
that no guard reads. The header of `build_worker.rs` (3-4) and the comment at 105-107
still say the loop acks regardless of the outcome; the model follows the code, which
nacks failures (193-212).
Nothing in `src/` enqueues a batch id twice (it is a fresh uuid); the upsert of
`insert_build_job` admits it, and the queue is modelled for callers that retry.

**IndexPublish.** `staged[site][v][part]` and `store[v][part]` say which *build* a part
comes from: builds are numbered, and what they contain does not matter. A version has
three parts, moved and uploaded in this order: LanceDB directory, Tantivy directory,
manifest. `bs[b].pc` follows `LocalIndexBuilder::build` (`Stage`, `Move`),
`IndexPublisher::publish` (`Prepare`, then `CheckAbsent`/`PutLocal` or `PutS3`,
`FinishPart`, `Swap`) and the retry of `process_queue_message` (`Conflict`, `Allocate`).
A failed rename removes exactly what this build moved (`Unmove`). The etag of `_head` is a
hash of its bytes, that is, of version and `updated_at`: a head is that pair, `MaxAt`
gives it two values, and equal ones make a head that went away and came back
indistinguishable, as in the code. On S3 an upload goes object by object; some objects
have names that depend on the build, and such left-overs are never read. A part belongs
to the build that created the object whose name every build shares. `SwapUnanswered` is
the conditional put whose answer is lost; `Recycle` a Lambda container that loses `/tmp`.
Rollback has no caller in `src/`; it is part of the library's interface and modelled as an
operator.

**Pipeline.** A document is identified with the segment of its batch, so a head is a
version and the set of segments it was built from. Publishing is reduced to the version
check, the refusal of a version that already has parts somewhere (`taken`), and the swap.
On SQLite `WriteAtomic` is one step; on AWS `Append` and `Send` are two, and `Send` may
never come. On AWS, `Crash` charges an attempt (SQS counts receives), on SQLite the lease
gives the job back uncharged. The queue may take a job from its owner at any moment
(`Receive` of a held job), which covers a lease or a visibility timeout that ends early
and SQS's duplicate deliveries. POST /build with a single segment is left out: choosing
the segments is there the caller's duty (`http/build.rs:23-25`).

**Snapshot.** `Accept` is one request: one record per document, all with the time of the
request, in a segment whose name is drawn without regard to order. `Latest` is the loop of
`materialize_latest_snapshot`, as a recursive function; the reference is the log in the
order of acceptance. The listing may or may not show the segment that triggered the build (`Replayed`).
`fits` says whether a document's embedding has the dimension of the index: `Ingest` does
not ask, `BuildAccepts` does, and `LastWriteWins` says how long such a document stops the
builds. `SnapshotSegments` sorts by giving each segment for its place
the number of segments with a smaller key.

**Calendar.** `civil_from_days` against the calendar, one day at a time. Rust cuts
quotients towards zero, which is `\div` for the non-negative numbers that occur, since
`validate_timestamp` refuses times before 2001-09-09.

**QueryServing.** `remote` and `disk` are the bucket and the artifact root as trees: two
heads, the versions under `index/` and under `lance/`, the releases. One S3 request, one
file that is written, one read of a head, one critical section of the cache's mutex is a
step. `index/_head` lists before `index/versions/`, so a copied head can run ahead of what
was listed with it; `fs::write` truncates before it writes (`Torn`). `Begin` .. `Report`
follow a request: `S3ArtifactSync::sync` (`ListIndex` .. `PlantPointer`), the key
(`LoadVersion`, `LoadRelease`), `resolve_versioned_handler` (`CacheHit`, `CacheMiss`),
bootstrap under the mutex (`BootstrapRetry`, `FreezeManifest`, `LoadStatic`) and the search
or the health report. `vs`, `rs` and `moved` record which heads were active since the
request began. A handler reads by path what its frozen manifest names; the directory of a
version never changes, so the version is all that matters of it. While another request's
copy rewrites a version that is on disk already, a search of it may fail (`Overwritten`).

**StaticRelease.** A path maps to a directory with its files and its manifest; a release
id is the pair (corpus, format) it is a digest of, and bytes are named after the part of
the input they depend on, which is how a conflict is seen. Three files stand for the nine
or ten of a release: one asset, the records, one blob. `commit_replace_dir` is
`MoveAside`, `MoveIn`, `DropBackup`; `install_into_managed_store` is `CheckInstalled`,
`RenameIntoStore` and, across devices, `ClearIncoming`, `CreateIncoming`, `CopyFile`,
`PlaceCopy`; `upload_release` is `UploadFile`, `ReadLocalManifest` and `UploadManifest`;
then `ReadPointer` and `SwapPointer`. Any of them may fail, and `BuildDies` and
`ActivationDies` may come between any two. Commands are processes that no lock keeps apart:
an activation verifies a directory and reads it again, by path, when it moves, copies or
uploads it, so a rebuild can come in between; and the staging directory of the copying
fallback, `.{id}-staging` (`IncomingPath`), has one name per release, so two copies of one
release clear and fill the same one. `crossed` is a history of the releases in which that
happened (`Crossing`); no action reads it, some properties do. `read_dir` lists in an order
of its own, for which one order stands, and the copy of one file is one step. The
pointer's ETag is a counter; in the code it is a hash of the content, the time
of activation included, and no property turns on two contents that are equal by chance.

**ModelAssets.** Every file is a revision number, `Absent` or `Cut`; files of different
revisions have equal sizes, the worst case for the size check of a warm directory. The
bundle on S3 may be uploaded again object by object while a process copies it. The
manifest on disk is the marker: removed first, written last and in place.

**TurboCodec.** Numbers are multiples of one unit and exact. Householder's reflectors, the
sign convention and the accumulation of Q are followed column by column on matrices whose
norms are integers; the sampler is followed value by value through its Box-Muller pairs;
a codebook's thresholds are midpoints rounded to the unit, as `f32` midpoints are rounded
to the next float. Packed bytes are computed, not assumed. `CodecConstants` says what a codec
is: ascending centroids, four of them to a two-bit index, a rotation with orthonormal columns
(the `f32` rounding of its entries is not modelled) and a sketch with rows of its size.

**CodecAssets and ReleaseImage.** A digest is what it digests, so an equal digest is an
equal content. An asset file is its header words, the number of values behind them, odd
bytes at the end, and what the values are. `Built` lays out the files of v2, v3 and v4;
`Lose`, `Mix`, `Cut`, `Spoil`, `AlterHeader`, `AlterMeta` and `AlterManifest` are what may
happen to them; `Loads` and `Verifies` are the checks of `MmapIndex::load` and
`verify_release_dir` in full. `U64` and `HashWidth` scale 64-bit arithmetic down to what
the instance can reach. Texts are sequences over four bytes of which two make UTF-8
matter. The hash of a `doc_id` is the constant `DocHash`, so nothing that is proved depends on
which it is; the run gives it `StableHash` of `DocIdHash`.

**Retrieval.** Tantivy, LanceDB and the scoring of a record are external: a keyword query
returns the best matches in order, a vector query any set of nearest rows, a scan any
scores. What the code does with them is modelled: deduplication, ties, the window that
grows, rayon's cuts and joins, reciprocal rank fusion in exact fractions, filters,
stripping, the retry of the embedding and the fallback. `merge_metadata`
(`query/ranker.rs:78-93`) unites the two maps of a document key by key; as both artifacts
come from one snapshot, the two are equal where both are there, and `MergedMeta` takes the
one that is there.

**LanceCache, ContextBudget.** Each lock of the cache is one action; between `Measure` and
`RecordAccess` the lock is free. In `ContextBudget` a text is its two character counts and
a group is its prefix sums, which keeps the module free of recursion and open to proof.

## 3. What each run checks, and its bounds

Sizes are distinct states.

| Run | Question | Properties | Bounds, and why they suffice |
|---|---|---|---|
| `queue_safety` (73 062) | Can a late, lost or repeated signal settle a job it should not? | `TypeOK`, `OneEffectiveDelivery`, `LeaseExclusive`, `SettledForCause`, `AttemptsAreFailures`, `ImplementsLedger` | Three workers: the owner, one that outlived its lease, one that outlived it before. Two enqueues: the upsert meets a claimed row. Two attempts: retry and dead letter. One fault: crash or lost signal. A lease of two ticks: expired, about to, and not. One batch: rows do not interact, and the proofs hold for any number. |
| `queue_liveness` (20 010) | Does every job leave the queue? | `EveryJobSettles` | Two batches claimed by one `receive`, two enqueues, two faults, one worker (section 4). |
| `publish` (301 753) | Is the active version whole, whoever builds, activates and fails? | `TypesOK`, `HeadServable`, `VersionsNotMixed`, `ActivationsInOrder`, `ImplementsCatalog` | On S3 two containers, on one host the worker and a POST /build with an arbitrary version over one staging tree; an operator in both. Two versions: one to replace and to roll back to, one to fight for. Three builds: a loser that retries. Two `updated_at` values: equal and different heads of a version. One fault at any step. |
| `publish_retry` (violation) | Is a retry given a fresh version? | `RetryUsesFreshVersion` | One worker, one fault. |
| `pipeline_local` | Is an accepted batch ever lost, a served one forgotten, and does each become searchable? | `NoAcceptedBatchLost`, `HeadNeverForgets`, `AcceptedBecomesSearchable` | Three batches, so that a receive takes several; two faults anywhere with two attempts, so that a job can die; one worker, as deployed. |
| `pipeline_aws` (176 816) | Is a job deleted only for cause when builders overlap? | `AckedWasServed` | Two containers, two batches, two faults, four versions. |
| `pipeline_overlap` (violation) | Does a new head keep every served batch when builders overlap? | `HeadNeverForgets` | Two containers, no faults. |
| `serving` | Is an answer from what was active, and who is refused? | `TypeOK`, `PointerComplete`, `HealthPairBuilt`, `AnswersFresh`, `RefusedOnlyWhenMoving` | Two requests: one that fills the cache and one that overtakes it. Two versions and two releases. Heads move twice on a Lambda (a key of two reads, then a bootstrap), once on a concurrent server, three times on one machine (one more than the retry makes up for). |
| `installs` (463 752) | Do directories, uploads and pointers show whole releases, and bundles one revision, whatever overlaps, fails and dies? | `TypesOK`, `OutputWhole`, `InstalledWhole`, `PointerServable`, `UploadsResume`, `ReleaseKept`, `ServesOneBundle` | Two builds and two activations, four commands in all: an activation that dies, one that resumes it, and a rebuild between or beside them. One corpus in two formats from two sources: equal ids, equal bytes, different manifests. Two model files, three revisions, four starts: two that die and one that serves on what they left. |
| `installs_copy` (violation) | Does the target of a copy only ever appear fully formed? | `TargetFullyFormed` | Two activations of one release across devices, one build, three commands. |
| `installs_id` (violation) | Is there one manifest per release id? | `OneManifestPerId` | One builder, one activation at a time. |
| `algorithms` (238 573) | Do the parts that share nothing compute what they should? | `LastWriteWins`, `DateIsCivil`, `GeneratedAlike`, `CodesAreOfTheVector`, `BuiltReadsBack`, `LoadedIsSound`, `VerifiedIsBuilt`, `RetrieversFindBest`, `AnswersComplete`, `BothRankingsCount`, `CacheAdds`, `BudgetHolds` | see below |

The instance of `algorithms`, part by part:

- *Snapshot*: two documents, requests of up to two records with repetition, three records in
  all, with embeddings of the right dimension and of another, two days, up to three segments,
  every order of names.
- *Calendar*: every day from 2001-09-09 to 2402, more than one 400-year era, after which
  the arithmetic repeats.
- *Codec*: every coordinate from -6 to 6 against codebooks with exact and rounded
  midpoints; every integer orthogonal matrix of size 2 and 3 times small triangles; rows
  of odd and even length; vectors of 5 values and sketches of 9, so that neither fills its
  last byte.
- *Images*: ids that are prefixes of one another, empty titles, duplicates, refused rows;
  v2, v3, v4 and configurations that are refused; two alterations one after the other, so
  that a file and the check that would notice it can both be altered.
- *Retrieval*: up to four rows over two shards with distances beyond both clamps; up to
  four matches of three documents; four records cut in three runs anywhere and reduced
  either way; rankings of five with every pattern of metadata, and a window that doubles
  from 1 to 4.
- *Cache*: two searches at a time of two versions with two shards, four searches in all.
- *Budget*: groups of up to three blocks with every remainder of four characters, budgets
  from 1 to 9. The proofs hold for any.

Deadlock is not checked: all counters are capped, so an instance comes to rest when its
bounds are used up, and the system itself may have nothing to do. Every bound is a
CONSTANT whose comment says so.

`PROJECT.json` names, for every property, at least one mutant: a definition replaced the
way a plausible bug would change it (no token comparison, an upsert that keeps the
attempts, a swap without the etag, a put without If-None-Match, a backup dropped instead of
restored, a marker that stays during the copy, a range check that wraps, a threshold that
is not nudged up, results counted before they are filtered, ...) after which the run
reports a violation. A property that joins the parts of one promise has a mutant for each
part. The mutated definitions stand right before the originals, marked `Mutant of`.

**Assumptions that are in the bounds, not in the code.** `Snapshot` has one monotone clock.
`read_dir` has one order (`NextEntry`), and `fs::copy` of one file is a step.

**What two properties leave out.** `InstalledWhole` and `PointerServable` are about releases
that no two commands met in (`crossed`): of the others less is true, as `installs_copy`
shows. The commands of `installs` meet freely, so these two properties are checked, and
proved, for every other release, before, during and after such meetings; `OutputWhole`,
`ReleaseKept` and the types hold whatever meets. `UploadsResume` leaves out only an upload of
a release that another command met. `EveryJobSettles` leaves out a job that kills its worker
each time (section 4), and the pipeline's properties a segment whose job was never sent:
its writer got an error.

## 4. Fairness

- `queue_liveness`: the loop (`run_build_job_loop`) polls forever, so `Receive` and, for
  what is in hand, `Settle` are weakly fair; time passes, so `Tick` is. Producers,
  crashes and lost signals are never obliged to happen. Two assumptions show in the
  bounds. `MaxFaults` is finite, because the lease path charges no attempt: a job that
  kills its worker each time is reclaimed for ever. And there is one worker, as in the
  local deployment: with two, a job whose processing always outlasts the lease can be
  passed back and forth without end.
- `pipeline_local`: one weak fairness per worker over its whole loop. Back-off and leases
  only delay `Receive`, which the ledger leaves open. Nobody is obliged to write, and
  faults need not happen; when one blocks a version id half-way, later jobs end in the
  dead-letter queue, which the property counts as an end.

The other runs check safety only. Requests, commands and cold starts are started from
outside and end on their own; whoever waits in them waits for a mutex whose holder never
waits.

## 5. What is proved

### The job queue

`BuildQueueProofs` proves, with the assumption `QueueConstants` of `BuildQueue` alone
(`Lease` and `MaxAttempts` positive, `Backoff` and the bounds natural, nonces natural and
different from `NoToken`, no worker called `"nobody"`, the ledger's word for no owner), for any sets of batches and workers, any number of enqueues and
faults:

| Theorem | Statement |
|---|---|
| `TypeCorrect` | `Spec => []TypeOK` |
| `SettledOnce` | `Spec => []OneEffectiveDelivery` |
| `LeaseRespected` | `Spec => []LeaseExclusive` |
| `NoJobVanishes` | `Spec => []SettledForCause` |
| `OnlyFailuresCharged` | `Spec => []AttemptsAreFailures` |

**The argument.** None of the four safety properties is inductive. `IInv` adds what the
code relies on silently:

- `DeliveredBefore`: a delivery comes from an enqueue that happened.
- `TokensUnique`: two deliveries of one batch never carry the same nonce.
- `EffectiveIsCurrent`: a delivery whose token is in the row comes from the row's present
  enqueue and has as much of its lease left as the row. `Enqueue` keeps the token of a row that is claimed, and
  this is why that is harmless: the row is `ready` again, so the old token has no effect
  until a new claim overwrites it.
- `SupersededIsExpired`: a delivery of the last enqueue that has lost its effect has
  outlived its lease; this is what carries `LeaseExclusive` through `Receive`.
- `CountersBounded`: `built` never exceeds `enqueued`, `failures` never `MaxAttempts`.

`OneEffectiveDelivery` follows from `TokensUnique`; `SettledForCause` from
`EffectiveIsCurrent` (an effective delivery speaks for the last enqueue) together with
`AttemptsAreFailures`. `IInv` splits into facts about rows (`RowInv`) and about
deliveries (`DeliveryInv`, `LeaseExclusive`), so that the steps that only remove
deliveries or only change one row are handled once each (`RowStep`, `DeliveryStep`).

It also proves `QueueImplementsLedger`, `Spec => ImplementsLedger`: under
the refinement mapping of `BuildQueue` every step of the queue is a step of `JobLedger` or
a stutter. The mapping takes for the owner of a job the worker with an effective delivery
of it, so it needs `IInv`: `HolderIs` shows from `TokensUnique` that there is at most one. A
`Receive` maps to one `Take` of every batch it claims, the others unchanged; a late `Ack`
or `Nack` and every `Tick` to a stutter; a `Crash` or a lost signal to a `Forsake` of what
the worker still owned. One fact more is carried along, `ClaimedIsDue`: a claimed row was
due, so a row whose lease has ended is claimed by the very `Receive` that reclaims it,
and none is left `ready` on the way.

### Publishing

`IndexPublishProofs` proves, from `PublishConstants` (workers and callers are different
builders, each at a site; on one machine all at the same site, because they share
`<root>/staging`; bounds natural), on S3 and on one machine, for any sets of workers,
callers, operators and sites, any numbers of versions, builds, faults and crashes:

| Theorem | Statement |
|---|---|
| `PublishTypeCorrect` | `Spec => []TypeOK` |
| `HeadAlwaysServable` | `Spec => []HeadServable` |
| `NeverMixed` | `Spec => []VersionsNotMixed` |
| `ActivationsOrdered` | `Spec => ActivationsInOrder` |
| `PublishingImplementsCatalog` | `Spec => ImplementsCatalog` |

**The argument.** `HeadServable` is about the last moment of a publication, its reasons are
earlier ones. `IInv` follows a build from its first rename:

- `BuilderOK`: the parts a builder has renamed into its staging tree are of its build
  (`Placed`), and those it has uploaded are in storage, whole and of its build
  (`Uploaded`); while it publishes, its version is above the head it has seen.
- `StoreInv`: the parts of a version are written in their order, each on top of a finished
  one of the same build (`InOrder`).
- `BuildsDiffer`: no two builders are busy with the same build.
- `HeadInv`: what `_head` names, and what an operator is about to write to it, is complete.

That two builders never mix their parts is decided at different places in the two
profiles, and the proof shows where. On S3 `CreateOnly` lets one builder alone put the
`lance` part, and the next part is only put by one that saw its own part finished. On
one machine the local store checks and then renames, and two builders could pass the
check together; but they share the staging tree, where the rename of a directory onto
one that is there fails, so by `Placed` and `BuildsDiffer` only one of them has its parts
there and comes to publish the version at all. The proof for one machine needs the shared
tree, and `PublishConstants` says so.

`PublishingImplementsCatalog` maps a version to the build of its manifest, once all its
parts are finished. `FinishedIs` shows from `StoreInv` that a finished manifest alone
decides this, so every step before the last part is a stutter (`UnfinishedStays`), the
last `FinishPart` is the catalogue's `Enter`, and a swap its `MakeActive`.

### The pipeline

`PipelineProofs` proves, from `PipelineConstants` alone, `AckedAlwaysServed`
(`Spec => []AckedWasServed`) for any number of workers, leases that end early and late
signals. With `OneWorker` (the server starts one) it proves `OneWorkerLosesNothing`
(`Spec => []NoAcceptedBatchLost`) and `OneWorkerNeverForgets` (`Spec => HeadNeverForgets`);
`pipeline_overlap` shows that the last fails with two.

**The argument.** `PInv` adds to the types `WorkInv`: a worker builds for a job it was
given, from a listing that has that job's segment, and what it settles with success has
been served. `AckedWasServed` follows for every number of workers, because a stale `ack`
has no effect on the ledger. For one worker `HeadInv` adds that every snapshot on its
way contains what `_head` serves: the listing is taken from a WAL that `_head` is a subset
of, and with nobody else to move `_head` this stays true until the swap. With two workers
exactly this conjunct fails.

### Static releases

`InstallProofs` proves, from `InstallsAssumption` (`NoId` is no release id, `MaxCommands`
natural, `Installs` among the three ways to install), for any builders, activations, ids,
sources and ways to install, however commands overlap, fail and die:

| Theorem | Statement |
|---|---|
| `ReleaseInvariant` | `Spec => []IInv` |
| `ReleaseTypeCorrect` | `Spec => []TypeOK` |
| `OutputAlwaysWhole` | `Spec => []OutputWhole` |
| `InstalledAlwaysWhole` | `Spec => []InstalledWhole` |
| `PointerAlwaysServable` | `Spec => []PointerServable` |
| `UploadsAlwaysResume` | `Spec => UploadsResume` |
| `ReleasesAlwaysKept` | `Spec => ReleaseKept` |

**The argument.** `IInv` says of every place what is true there at all times. Of directories
(`FsInv`, `DirOK`): one in the output place, in staging or in a backup is whole; one in the
store is whole and of the id it is named after, if no commands met in that release. Of S3, for
such releases: an object has the bytes its key stands for (`RemoteInv`), whichever build they
come from, which is why a second upload may take up what a first one left; a manifest is
there only when everything it lists is (`ManifestsInv`); and the pointer names only what is
installed (`HeadInv`).

Of the commands it says what they rely on between two steps. Nothing in the code keeps what
was verified from being replaced before it is read again; what the proof uses is that, if
it was, the commands met. `ReadsVerified` is that fact: in a release that no commands met in,
what an activation reads by path is what it verified. A release in the store is given to an
activation only to be checked and pointed to, never to be moved or copied again (`ArgOK`), so
what is installed stays. For a copy (`CopyOK`), the shared staging directory is absent when the copy
begins, whatever a dead one left there, holds during the copy all but the entries that are
still to come (`Partial`), and is whole when it is renamed; no second fallback of the release is under way then
(`CopiesAlone`, a lemma: two would have met). For an upload (`UploadOK`), what is still to do and
what is on S3 already make up the release.

`ReleaseKept` needs `KeptInv`: a build that is about to drop its backup does so beside
another release. It needs no history, because a rename moves whole directories and a copy leaves its source.
File-system steps are renames, and `Moved` is treated once, with one lemma for what it does to
`FsInv` and to whatever else points at a path. `MeetInv` says that the history is kept up to
date. TLC checked `IInv` on the instance of `installs` before it was proved.

### The token budget

`AlgorithmProofs` proves, from `ContextsAddUp` (budgets are natural numbers; the blocks
of each group add up, in characters and in estimates), for contexts and budgets of any size:

| Theorem | Statement |
|---|---|
| `BudgetTypeCorrect` | `BudgetSpec => []BudgetTypeOK` |
| `BudgetCorrect` | `BudgetSpec => []BudgetHolds` |
| `DropCorrect` | `BudgetSpec => DropsTheDearer` |

**The argument.** The loop compares the budget with the *sum* of the estimates of the
blocks, but the model reads one text, whose estimate is rounded once. `EstimateSubadditive`
shows that rounding the parts never gives less than rounding the whole. `CostCovers`
carries this over the prefix of a group: induction over the number of blocks is out of
the prover's reach, so it takes the least prefix whose estimate would exceed its cost
(`LeastNatural` in `FoldLemmas`, from the well-foundedness of `<` on the naturals) and contradicts it with
the prefix before (`BlockCost`). `BudgetHolds` is not inductive, because it says nothing of
the running totals; `BudgetInv` adds that the context and the budget stay the given ones
(`Given`) and that the totals are those of the blocks still kept (`TotalsMatch`).
`DearerHasOne` shows that the group a chunk is taken from has one, so that nothing is
subtracted from an empty group.

### Model bundles

`InstallProofs` proves, from `AssetConstants` (the bundle is a finite list of names, the
manifest not among them), `AssetTypeCorrect` (`AssetSpec => []AssetTypeOK`) and
`BundleCorrect` (`AssetSpec => []ServesOneBundle`), for any bundle and any number of uploads,
starts and deaths. `InstallTypesCorrect` (`MCSpec => []TypesOK`) is about
releases and bundles beside each other, as the run `installs` has them: each step of one
leaves the other alone, so both invariants hold together.

**The argument.** What a serving process sees was put together by processes before it, so
the invariant speaks of the directory at every moment: there is no manifest on disk while
files change (`MarkerFirstAndLast`); below a manifest every file is of its revision or has
been lost since (`MarkedIsOfOneRevision`); what was fetched so far is of the revision of
the manifest at hand (`FetchedIsOfManifest`), because each file is accepted only with the
hash which that manifest gives. When the last file is in place the third fact becomes the
second.

### The query service

`QueryServingProofs` proves, from `ServingConstants`
(`NoRelease` is no release, `MaxVersion` positive, `MaxMoves` natural), for any sets of
requests and releases, in the profiles named:

| Theorem | Statement | Profiles |
|---|---|---|
| `ServingTypeCorrect` | `Spec => []TypeOK` | all |
| `PointerAlwaysComplete` | `Spec => []PointerComplete` | all |
| `HealthReportsBuiltPair` | `Spec => []HealthPairBuilt` | all |
| `AnswersAreFresh` | `Spec => AnswersFresh` | Lambda, and one machine |
| `RefusalsExplained` | `Spec => RefusedOnlyWhenMoving` | Lambda, and one machine |

**The argument.** For the first three, `IInv` adds that heads are torn only in a copy,
never at their source; that what the cache holds was built; and what each
request relies on where it stands (`RequestOK`): a release is on disk before its pointer is planted, a
key is loaded before the mutex is asked for. For `AnswersFresh`, `FInv` carries what
a request has witnessed so far (`Fresh`): the heads at their source are among
those it saw active, then so is each head that it copied, then each half of its key.
`FreshPublish` shows that a movement of the heads adds the new one to what every running
request has witnessed; `FreshSync` that a copy is of a head that was there at some moment
of the request. A Lambda process has one request at a time, which `FInv` includes, because
with two the head that one finds on disk may be a copy by the other of what it read
before the first began; that is why the property leaves the concurrent server on S3 out.

For `RefusedOnlyWhenMoving`, `SInv` says what keeps a request from being refused
(`Steady`). A release that was on disk when its pointer was read stays there
(`ReleaseHeld`). On a Lambda, as long as no head has moved since the request began, the active
version is among those listed and, behind each copy, on disk (`Copied`); this needs
`SourceOK`, that publishers put a version's objects in place before its head, and that S3
lists the head before what it names. On one machine a spent retry, or a key behind the head,
stands for one movement, and both together for two (`RetryLeft`). `RefusedBy` lists the
steps that refuse a request, and `RefusedMoving` shows that each of them finds what it
looks for until the heads have moved, once with a copy and twice without.

### Dates

`AlgorithmProofs` proves `DatesFromTheEpoch`: `CalendarSpec => []DateIsCivil` when the first
day is the epoch, 1970-01-01, for any last day (`DatesAreCivil` starts from any day that
has its right date, back to 0000-03-01; `Epoch` shows that the epoch has). The run goes
through four centuries of days, the theorem through all.

**The argument.** `CivilFromDays` cuts a day number into an era of 146 097 days, a year of
that era and a day of that year, with years that begin in March (`CivilIs`). `YearIs` shows
that the four quotients of `YearOfEra` find the year, on the last day of the era too, the
one day on which the fourth of them matters. `DayAfterDay` then follows the calendar's
next day: within a month, into the next month (`MonthStep`), into the next year
(`NewYear`), into the next era.

### Snapshots

`AlgorithmProofs` proves, from `SnapshotConstants` (names and bounds are natural, a day has a
length), `LastWriteAlwaysWins`: `Spec => []LastWriteWins`, for any documents, names, requests
and length of a day: what a snapshot shows (`ShowsLast`), and when it is refused
(`RefusedWhileLast`).

**The argument.** The property is about what a build would give, so the invariant is about
the writers: `LogInv` says that accepted segments are not empty, that all records of one have
its time, that times follow the order of acceptance, and that no two have one name. The rest
is what a build makes of such a log. `SegmentsListed` shows that sorting by key lists every
segment once (`Places`: in a finite order, the numbers of smaller elements are 0, 1, 2 and so
on). `Concatenation` gives every record of a replay its place, by its segment and its place in
it. `LatestIsNewest` follows the loop of `materialize_latest_snapshot` record by record: of each document it
keeps a record that no other exceeds in time, and of equal times the last. The last write of
a document that is `Untied` has the greatest time, whatever its name, and its records stand
together, so the last of them is kept (`LastIsLatest`). `ReplayIsWritten` adds that a replay has
no records but accepted ones, so a build is refused only over a document somebody wrote. That two segments of one day may be
replayed in the wrong order never matters, because the loop compares times before places.

The prover has no induction over sequences and cannot look into TLC's sort. `Ordering` sorts
by places instead, which `SortedSorts` shows to be what is meant. The places of an order, a
recursion over an interval (`RecursionExists`, `RecursionAgrees`) and the concatenation
of sequences are therefore lemmas of `FoldLemmas`, each by the least counterexample.

### Open shards

`AlgorithmProofs` proves, from `CacheConstants` (versions and the number of shards are
positive), `CacheAddsUp`: `CacheSpec => []CacheAdds`, for any searchers, versions and shards.

**The argument.** `CacheInv` says of the counters that they are those of the noted paths
(`CountersOf`), of a searcher that what it measured outside the lock is still the size of
its shard (`SizeKept`), and, as long as searches of different versions have not
overlapped, that all of them are of the version the cache counts for. `RecordKeeps` is the step that matters:
a shard that two searches measured is counted by the first of them only. That the bytes of
one more path are the bytes so far plus its own is a fact about a fold in the order of
CHOOSE. `FoldLemmas` has it for any weights: a function that takes a first element off
every set exists (`SumExists`), is unique (`SumAgrees`), and can take off any element
instead (`SumTakes`); each by the smallest set of which it would not hold (`LeastSet`).

### Queries

`AlgorithmProofs` proves, from `RetrievalConstants`, for any shards, matches, records,
rankings, `top_k`, windows and constant of the fusion:

| Theorem | Statement |
|---|---|
| `RetrieversAlwaysFindBest` | `RetrievalSpec => []RetrieversFindBest` |
| `AnswersAlwaysComplete` | `RetrievalSpec => []AnswersComplete` |
| `BothRankingsAlwaysCount` | `RetrievalSpec => []BothRankingsCount` |

`RetrievalConstants` says that shards are numbered and each holds a document once (a build
materialises one record of each), that Tantivy returns matches best first, that `top_k` lies
between 1 and the widest window (`TOP_K_MAX` is `SEARCH_WINDOW_MAX`), and that a ranking has
each document once, which is what the first theorem shows of the retrievers.

**What the retrievers find.** The vector and the keyword search have seen only part of what
matches when they sort and cut. `Covers` says when that is enough: a row that they have not seen belongs to a
document that they have seen with a score as good, or `topK` other documents have scores
as good (`Crowded`). `CoversFindBest` shows that the best row per document, sorted and cut,
is then what the whole would have given. `VectorCovers` has it because each shard returned its nearest
rows and `lancedb_distance_to_score` keeps their order, equal scores beyond the clamp
included; `KeywordCovers` because `KeywordLoop` ends only with `topK` documents or with
all matches, whatever duplicates the first of them were. The static scan is compared with a
sequential one. `IsTop` says what a bounded heap is after it has seen a set: as many as fit, each better than all that is left out.
`PushTop` takes one candidate more, `PushedTop` a run of them, `ReducedTop` joins two heaps
(`TopOfTops`: the top of a set and of the top of another is the top of both), so `ScanTop`
holds for every cut and either order of joining. `TopInOrder` shows that such a heap, sorted, is the
beginning of everything sorted; there is nothing left that threads could change.

**What a request is answered with.** `SearchInv` follows a request: the window it wants is
between its `top_k` and the widest, and there is no warning before the fallback. The step
that answers (`RetrieveKeeps`) finds either enough or the widest window. Without filters one
pass is enough because a window as wide as `top_k` costs no result (`NarrowIsEnough`): when a list is longer than the
window, its documents in the window alone are enough. A filter keeps hits in
their order (`AtPicks`, `ResponseGroupIs`), and each hit of a fused list has the metadata of its own
document from one of the rankings (`MergedIs`, `FoundIs`). That fusion follows both rankings
is arithmetic of fractions: comparing by cross products is an order (`FractionOrder`,
`FusedIsOrder`), and the sum of two fractions, neither of them less and one of them more, is
more (`SumsCompare`, `AheadIs`).

### Static images

`ReleaseImageProofs` proves, from `CodecAssetsAssumption` (the dimension is positive) and
`ImageConstants` (the columns of a scan are UTF-8, a file has fewer than 2^64 bytes, formats
are of the versions 2 to 4 and only version 4 has a configuration of its own), for any
scans, formats, dimension, hash, generator version and number of alterations:

| Theorem | Statement |
|---|---|
| `ImagesReadBack` | `ImageSpec => []BuiltReadsBack` |
| `LoadedImagesAreSound` | `ImageSpec => []LoadedIsSound` |
| `VerifiedReleasesAreBuilt` | `ImageSpec => []VerifiedIsBuilt` |

**What was built is read back.** The blobs of an image are its parts, concatenated, and the
offsets are sums of lengths that the writer keeps as it goes. `Concatenation` (`FoldLemmas`) says
where each part of a concatenation lies, `BlobHolds` that the stored range is that place and is
within the blob without a carry over 2^64. `MetaIs`, `MetaExtIs` and the `...ReadBack`
lemmas carry this through the files and through the header words of the assets, so `BuiltLoads`,
`BuiltReads` and `BuiltVerifies` hold of any build. Rows are sorted by their ids: `LexTotal`
makes the byte order an order, ids are unique after the snapshot of the scan (`NoneTwice`),
and a finite set has one ascending sequence (`OneOrder`), so scans of the same rows give one
image (`SameRowsSameBuild`).

**What is left of it after damage.** `LoadedIsSound` and `VerifiedIsBuilt` say something only of
images that pass checks, and are not inductive: they forget what a second alteration can
build on. `ImageInv` says what an altered directory still is. Its records file is, whatever its
header and its length claim, one whose records were encoded with the codec of one accepted
format, with that format's fingerprint when it is of v4 (`RecordsMeant`); its manifest lists, in whatever
order and number, outputs of its own build with their digests, and describes the codec of one
accepted format (`ManifestMeant`). Each kind of damage keeps this (`LoseKeeps` to
`AlterManifestKeeps`, one lemma each). Then the fingerprint that `Loads` compares can only be
that of the records at hand (`InvOwnCodec`), the ranges that it checks are those the accessors
take (`InvInBounds`), and the outputs that a verified manifest pins are all of the build's
(`InvVerified`), also when the manifest was rewritten and its id derived again. TLC checked
`ImageInv` on the instance of `algorithms` before it was proved.

### The codec

`ReleaseImageProofs` proves, from `CodecConstants`, for any codebooks, rotations, sketches, sizes,
vectors and queries:

| Theorem | Statement |
|---|---|
| `CodesAlwaysOfTheVector` | `CodecSpec => []CodesAreOfTheVector` |
| `RowsAlwaysPrefix` | `CodecSpec => []RowsArePrefix` |
| `InverseUndoesRotation` | `InverseRotate(m, Rotate(m, y)) = y` for any rotation |

**The argument.** *Codes:* centroids ascend, so the thresholds a value reaches are the first ones
(`FirstPlaces`, `QuantizeIs`), and a threshold is the least value that is no nearer to the lower
centroid (`ThresholdIs`), which is what rounding up after rounding is for. *Bytes:* a byte is a
sum over the places that go to it; `StretchSums` unrolls the sum into its four or eight terms,
of which division and remainder take out one (`PackedTwo`, `PackedOne`); places beyond the end
count as zero, so a last byte that is not full is no exception. *Scores:* what is read from the
table is the product with the centroids, and centroids and residual make up the rotated
vector (`CentroidsAre`, `DotPlus`). That a rotation keeps the product is `turbo_prod.rs` 19-20, and
is the one place where sums of sums matter: `OverExchange` (`FoldLemmas`) takes them in the
other order, `Adjoint` moves a matrix to the other side of a product, and orthonormal columns
leave one term of the inner sum (`OverOne`). Sums are over sets, not sequences, and each of their
laws is shown by the least set it fails of (`SetInduction`). `CodecInv` only adds where the input comes
from. *The sampler:* the stream after k values is named (`Drawn`), one value leads to the next
(`NextIsDrawn`), so filling n at a time goes on where the last fill ended (`FillIsDrawn`).

### What is only model-checked

- Liveness (`EveryJobSettles`, `AcceptedBecomesSearchable`): fairness and ENABLED are out of
  the prover's reach.
- `GeneratedAlike`, for its half `RotationIsUnique`: that Householder's reflections find the
  orthogonal factor is an induction over columns in which every step takes square roots and
  quotients, integers only on the samples of the run; for real matrices it is a fact about
  real numbers, which the provers do not have. Its other half is `RowsAlwaysPrefix`.
- `MCIndexPublish.TypesOK` as it stands, which chooses between two instances of one module.
  `PublishTypeCorrect` proves the invariant it chooses from, for any storage, builders and sites.
- The four properties that the code violates (section 6); they are false.

## 6. What the runs found

1. **Overlapping builders can drop documents from the active index**
   (`pipeline_overlap`). `process_queue_message` lists the WAL (118-121) before it reads
   `_head` (123), and the retry after a conflict reads `_head` again but keeps the old
   list. A lists {1}; B lists {1, 2} and publishes version 1 with both; A allocates
   version 2 and publishes it from {1}. Batch 2 was searchable and its job acked; it stays
   invisible until another write. `template.yaml` (118-131) sets no concurrency limit on
   the build function. The comment at `build_worker.rs:22-24` states the property.
2. **A half-finished publish blocks the queue** (`publish_retry`). After a fault between
   the first upload (on one host: the first rename) and the swap, `next_version_id`
   gives the next job `head + 1` again, whose parts exist; every later job fails the same
   way and ends in the dead-letter queue, until somebody removes the parts. The comment at
   `publisher.rs:58-59` asks for a fresh version id.
3. **Equal ids, different manifests** (`installs_id`). `derive_release_id`
   (`index/release_manifest.rs:174-227`) leaves `source` out, the manifest contains it, and
   `upload_release` compares manifests byte for byte: one corpus built from another path
   or table version is refused as corrupt. `bin/static_activate.rs:18-20` calls that
   impossible.
4. **A release directory that lacks files is installed** (`installs_copy`).
   `install_into_managed_store` (`indexing/static_publisher.rs:409-427`) falls back to a copy
   into `.{id}-staging`, clears it first and renames it into place last, without a lock. A has
   listed the release and copied a part of it; B clears the directory and creates it anew, A
   copies the rest into it and renames it: the store has a release without its first files. Nothing verifies it
   afterwards, the pointer is swapped to it, and later activations find it installed
   (393-395). It takes two activations of one release at the same time, across devices. The
   comment at 409-410 says that "the target only ever appears fully-formed".

**A rebuild during an activation** is the other way in which commands meet. An activation
reads its directory by path after it was verified; when `static-build` replaces that directory
meanwhile, by a release of another corpus or format, the files of the one are installed or
uploaded under the id of the other. Without `crossed` in them, `InstalledWhole` and
`PointerServable` fail for this too. No comment promises more, so there is no run for it.

**One document can block every later build.** `Document::validate` checks the values of an
embedding, not their number (`models/index.rs:43-47`); the build checks the number, for
every document of the full snapshot (`indexing/builder.rs:95`). A document with another
dimension is accepted, and from then on every job fails until it is overwritten or
deleted. `docs/design.md:394` states the dimension as a rule of validation.
`RefusedWhileLast`, a part of `LastWriteWins`, states what the code does: the builds fail as
long as such a write is the last one of some document, and no longer.

Other places where comments and code part, without a run of their own: the header of
`build_worker.rs` (section 2, BuildQueue); `storage/staged_publish.rs:62-67` describes the
replacement of a directory without the moment between its two renames at which the path is
absent (`OutputWhole` and `ReleaseKept` state what does hold); the comment at
`query_service.rs:78-80` says that a release id read after the handler was resolved is that
of the pair just written, "no TOCTOU window", but another request may have replaced the
cache in between. `/health` reads both halves at once, so the pair it shows is one that a
handler was built for (`HealthPairBuilt`), if not always its own.

## 7. What is not modelled

- Third-party engines: LanceDB, Tantivy, LTEmbed, rayon's scheduler, S3, SQS and Lambda.
  They are modelled from how the code uses them, or left out.
- Floating point: the Lloyd-Max solver (`index/codebook.rs` 297-476) integrates densities
  numerically, and sums of `f32` depend on their order. `TurboCodec` is exact. Memory
  alignment and `unsafe` casts of mapped files are layout facts without behaviour.
- Parsing and validation of requests, events and command lines; logging; metrics. They are
  pure, and their failures appear as `GiveUp`, `Nack`, `IoError` or a refused request.
- The wording and the order of the sections of a context (`build_context`).
- Writers with clocks that disagree, or a clock that is set back: the record with the
  larger time wins, so a later write may lose. Nothing in the repository promises more.
- POST /build replaces the active snapshot by one built from a single segment; choosing
  it is the caller's duty (`http/build.rs:23-25`).
- The S3 WAL store appends by reading, concatenating and putting back
  (`adapters/s3_wal.rs`); each key is a fresh uuid and is written once, so two appends
  never meet.
- `run_sqs_worker_loop` and `SqsBuildJobSource` (`build_worker.rs:216-228`,
  `adapters/sqs_job_source.rs`), whose `nack` is `ack`: no binary starts that loop any
  more; on AWS the jobs come as Lambda events.
- The benchmark under `examples/` and the scripts: tools beside the system.

## 8. What could come next

Proofs: the decomposition of `TurboCodec`, over numbers that have roots. Models: the half-way
states of a pull of a static release (`PullRelease` of `QueryServing` is its rename), clocks of
several writers, once the code says what it wants of them.
