--------------------------- MODULE QueryServing ---------------------------
(***************************************************************************)
(* How a query process follows the published index and the static release. *)
(*                                                                         *)
(*   s3_artifact_sync.rs   copy index/, lance/ and the active release to   *)
(*                         the artifact root, object by object             *)
(*   manifest_store.rs, static_release_store.rs, sqlite/manifest.rs        *)
(*                         the two heads as the process reads them         *)
(*   query_service.rs      the handler cache, keyed by the pair (version,  *)
(*                         release)                                        *)
(*   query_lambda.rs       load the key; bootstrap a handler for a key     *)
(*   http/query.rs, bin/query_lambda.rs    /query and /health              *)
(*                                                                         *)
(* Publishing (IndexPublish) and static activation (StaticRelease) are the *)
(* environment: they put a version's or a release's objects in place, then *)
(* move a head. Three deployments are told apart by `profile`:             *)
(*   lambda   S3, one request at a time in the process                     *)
(*   server   S3, requests served concurrently by the HTTP server          *)
(*   local    no sync: publisher and process share one directory           *)
(***************************************************************************)
EXTENDS Integers, FiniteSets

CONSTANTS
    Requests,    \* requests in flight at once
    Releases,    \* static release ids
    NoRelease,   \* release_id = None
    MaxVersion,  \* bound: version ids
    MaxMoves     \* bound: movements of the two heads, for each deployment

Profiles == {"lambda", "server", "local"}

ASSUME ServingConstants ==
    /\ NoRelease \notin Releases
    /\ MaxVersion \in Nat \ {0}
    /\ MaxMoves \in [Profiles -> Nat]

VARIABLES
    profile,  \* the deployment, fixed by features and environment variables
    remote,   \* the bucket
    disk,     \* the artifact root of the query process
    cache,    \* QueryService.cache: the key of the cached handler
    lock,     \* who holds the cache's mutex
    rq,       \* request -> where it is
    moves,    \* history: movements of the heads so far
    built     \* history: the keys a handler was ever built for

vars == <<profile, remote, disk, cache, lock, rq, moves, built>>

Versions == 1 .. MaxVersion
ReleaseIds == Releases \cup {NoRelease}
Key == [version : Versions, release : ReleaseIds]
NoKey == [version |-> 0, release |-> NoRelease]
Torn == -1  \* a head that fs::write has truncated and not written yet

\* An artifact tree: the two heads, the versions whose Tantivy directory and
\* manifest (index/) and whose LanceDB directory (lance/) are there, and the
\* releases that are there with their release manifest.
Tree == [head : Torn .. MaxVersion, index : SUBSET Versions, lance : SUBSET Versions,
         static : ReleaseIds, releases : SUBSET Releases]
EmptyTree == [head |-> 0, index |-> {}, lance |-> {}, static |-> NoRelease, releases |-> {}]

\* got, static: heads read from S3; todo: versions listed and not copied yet;
\* vs, rs, moved: history of what happened since the request began.
Request ==
    [pc : {"idle", "answered", "refused",
           "list", "head", "truncated", "index", "lance", "pull", "plant",
           "gate", "version", "release", "lock", "manifest", "load", "search", "report"},
     kind : {"query", "health"}, got : 0 .. MaxVersion, todo : SUBSET Versions,
     static : ReleaseIds, key : Key \cup {NoKey}, retried : BOOLEAN,
     vs : SUBSET (0 .. MaxVersion), rs : SUBSET ReleaseIds, moved : Nat]

IdleRequest ==
    [pc |-> "idle", kind |-> "query", got |-> 0, todo |-> {}, static |-> NoRelease,
     key |-> NoKey, retried |-> FALSE, vs |-> {}, rs |-> {}, moved |-> 0]

TypeOK ==
    /\ profile \in Profiles
    /\ remote \in Tree /\ disk \in Tree
    /\ cache \in Key \cup {NoKey}
    /\ lock \in Requests \cup {"free"}
    /\ rq \in [Requests -> Request]
    /\ moves \in 0 .. MaxMoves[profile]
    /\ built \subseteq Key

OnS3 == profile # "local"

\* What is published when the process starts: nothing, or a first version.
FirstTrees == {[EmptyTree EXCEPT !.releases = Releases]} \cup
              {[EmptyTree EXCEPT !.releases = Releases, !.lance = {1}, !.index = {1}, !.head = 1]}

Init ==
    /\ profile \in Profiles
    /\ \E tree \in FirstTrees :
         /\ remote = IF OnS3 THEN tree ELSE EmptyTree
         /\ disk = IF OnS3 THEN EmptyTree ELSE tree
    /\ cache = NoKey /\ lock = "free"
    /\ rq = [r \in Requests |-> IdleRequest]
    /\ moves = 0 /\ built = {}

\* Where the publisher writes, and where a request finds the truth.
Source == IF OnS3 THEN remote ELSE disk

----------------------------------------------------------------------------
(* The publishers.                                                         *)

SourceBecomes(tree) ==
    IF OnS3 THEN remote' = tree /\ UNCHANGED disk ELSE disk' = tree /\ UNCHANGED remote

\* IndexPublish uploads the LanceDB directory, then Tantivy and the manifest.
UploadLance(v) ==
    /\ v \notin Source.lance
    /\ SourceBecomes([Source EXCEPT !.lance = @ \cup {v}])
    /\ UNCHANGED <<profile, cache, lock, rq, moves, built>>

UploadIndex(v) ==
    /\ v \in Source.lance \ Source.index
    /\ SourceBecomes([Source EXCEPT !.index = @ \cup {v}])
    /\ UNCHANGED <<profile, cache, lock, rq, moves, built>>

Running(r) == rq[r].pc \notin {"idle", "answered", "refused"}

\* A head moves: every running request has now seen one more value.
Witnessed(v, s) ==
    rq' = [r \in Requests |->
             IF Running(r) THEN [rq[r] EXCEPT !.vs = @ \cup {v}, !.rs = @ \cup {s}, !.moved = @ + 1]
             ELSE rq[r]]

\* Publication or rollback: any complete version may become the active one.
MoveHead(v) ==
    /\ moves < MaxMoves[profile] /\ v \in Source.index /\ v # Source.head
    /\ SourceBecomes([Source EXCEPT !.head = v])
    /\ Witnessed(v, Source.static)
    /\ moves' = moves + 1
    /\ UNCHANGED <<profile, cache, lock, built>>

MoveStaticHead(s) ==
    /\ moves < MaxMoves[profile] /\ s \in Source.releases /\ s # Source.static
    /\ SourceBecomes([Source EXCEPT !.static = s])
    /\ Witnessed(Source.head, s)
    /\ moves' = moves + 1
    /\ UNCHANGED <<profile, cache, lock, built>>

----------------------------------------------------------------------------
At(r, pc) == rq[r].pc = pc
Goto(r, pc) == rq' = [rq EXCEPT ![r].pc = pc]
Finish(r, how) == rq' = [rq EXCEPT ![r] = [IdleRequest EXCEPT !.pc = how]]
Fail(r) == Finish(r, "refused")

\* A request that passed validation. A Lambda process handles one at a time.
Begin(r, kind) ==
    /\ ~Running(r)
    /\ profile = "lambda" => \A q \in Requests : ~Running(q)
    /\ rq' = [rq EXCEPT ![r] = [IdleRequest EXCEPT !.pc = IF OnS3 THEN "list" ELSE "version",
                                   !.kind = kind, !.vs = {Source.head}, !.rs = {Source.static}]]
    /\ UNCHANGED <<profile, remote, disk, cache, lock, moves, built>>

(* S3ArtifactSync::sync. S3 lists a prefix in key order, so index/_head comes *)
(* before the index/versions/ and shard objects it names.                     *)
ListIndex(r) ==
    /\ At(r, "list")
    /\ rq' = [rq EXCEPT ![r].todo = remote.index,
                        ![r].pc = IF remote.head = 0 THEN "index" ELSE "head"]
    /\ UNCHANGED <<profile, remote, disk, cache, lock, moves, built>>

GetHead(r) ==
    /\ At(r, "head")
    /\ disk' = [disk EXCEPT !.head = Torn]
    /\ rq' = [rq EXCEPT ![r].got = remote.head, ![r].pc = "truncated"]
    /\ UNCHANGED <<profile, remote, cache, lock, moves, built>>

WriteHead(r) ==
    /\ At(r, "truncated")
    /\ disk' = [disk EXCEPT !.head = rq[r].got]
    /\ Goto(r, "index")
    /\ UNCHANGED <<profile, remote, cache, lock, moves, built>>

\* The objects of one listed version after those of another.
NextListed(r) == CHOOSE v \in rq[r].todo : \A w \in rq[r].todo : v <= w

CopyIndex(r) ==
    /\ At(r, "index") /\ rq[r].todo # {}
    /\ disk' = [disk EXCEPT !.index = @ \cup {NextListed(r)}]
    /\ rq' = [rq EXCEPT ![r].todo = @ \ {NextListed(r)}]
    /\ UNCHANGED <<profile, remote, cache, lock, moves, built>>

ListLance(r) ==
    /\ At(r, "index") /\ rq[r].todo = {}
    /\ rq' = [rq EXCEPT ![r].todo = remote.lance, ![r].pc = "lance"]
    /\ UNCHANGED <<profile, remote, disk, cache, lock, moves, built>>

CopyLance(r) ==
    /\ At(r, "lance") /\ rq[r].todo # {}
    /\ disk' = [disk EXCEPT !.lance = @ \cup {NextListed(r)}]
    /\ rq' = [rq EXCEPT ![r].todo = @ \ {NextListed(r)}]
    /\ UNCHANGED <<profile, remote, cache, lock, moves, built>>

Synced(r) == IF rq[r].kind = "health" THEN "gate" ELSE "version"

\* Mutant of ReadStaticHead: the pointer is planted and the release never pulled.
ReadStaticHeadOnly(r) ==
    /\ At(r, "lance") /\ rq[r].todo = {}
    /\ rq' = [rq EXCEPT ![r].static = remote.static,
                        ![r].pc = IF remote.static = NoRelease THEN Synced(r) ELSE "plant"]
    /\ UNCHANGED <<profile, remote, disk, cache, lock, moves, built>>

\* read_static_head: no pointer, nothing to do; a release already on disk is
\* not pulled again.
ReadStaticHead(r) ==
    /\ At(r, "lance") /\ rq[r].todo = {}
    /\ rq' = [rq EXCEPT ![r].static = remote.static,
                        ![r].pc = CASE remote.static = NoRelease -> Synced(r)
                                    [] remote.static \in disk.releases -> "plant"
                                    [] OTHER -> "pull"]
    /\ UNCHANGED <<profile, remote, disk, cache, lock, moves, built>>

\* The release is downloaded to a staging directory of this attempt alone and
\* renamed into place; when another pull was first, its copy stands.
PullRelease(r) ==
    /\ At(r, "pull")
    /\ rq[r].static \in remote.releases
    /\ disk' = [disk EXCEPT !.releases = @ \cup {rq[r].static}]
    /\ Goto(r, "plant")
    /\ UNCHANGED <<profile, remote, cache, lock, moves, built>>

PlantPointer(r) ==
    /\ At(r, "plant")
    /\ disk' = [disk EXCEPT !.static = rq[r].static]
    /\ Goto(r, Synced(r))
    /\ UNCHANGED <<profile, remote, cache, lock, moves, built>>

\* Any S3 or file operation of sync may fail; what was copied stays.
SyncFails(r) ==
    /\ rq[r].pc \in {"list", "head", "truncated", "index", "lance", "pull", "plant"}
    /\ Fail(r)
    /\ UNCHANGED <<profile, remote, disk, cache, lock, moves, built>>

----------------------------------------------------------------------------
(* QueryService::resolve_handler.                                          *)

\* The heads are files, or rows of SQLite where there is a database. A torn
\* file does not parse; a row is whole.
HeadFile == IF disk.head = Torn THEN 0 ELSE disk.head
HeadRow == disk.head
ActiveVersion == IF OnS3 THEN HeadFile ELSE HeadRow

ReleaseFile == disk.static
ReleaseRow == disk.static
ActiveRelease == IF OnS3 THEN ReleaseFile ELSE ReleaseRow

\* load_active_manifest: the head, then the manifest it names.
ActiveManifestReads == ActiveVersion \in disk.index

\* /health looks at the head first: no head at all is healthy.
HealthGate(r) ==
    /\ At(r, "gate")
    /\ \/ /\ disk.head = 0
          /\ Finish(r, "answered")
       \/ /\ disk.head = Torn
          /\ Fail(r)
       \/ /\ ActiveVersion \in Versions
          /\ Goto(r, "version")
    /\ UNCHANGED <<profile, remote, disk, cache, lock, moves, built>>

\* Mutant of LoadVersion: whatever the head file holds is taken for a version.
LoadVersionUnchecked(r) ==
    /\ At(r, "version")
    /\ rq' = [rq EXCEPT ![r].key = [version |-> disk.head, release |-> NoRelease],
                        ![r].pc = "release"]
    /\ UNCHANGED <<profile, remote, disk, cache, lock, moves, built>>

\* load_active_query_key_from_env: two reads, one after the other.
LoadVersion(r) ==
    /\ At(r, "version")
    /\ IF ActiveVersion \in Versions
       THEN rq' = [rq EXCEPT ![r].key = [version |-> ActiveVersion, release |-> NoRelease],
                             ![r].pc = "release"]
       ELSE Fail(r)
    /\ UNCHANGED <<profile, remote, disk, cache, lock, moves, built>>

LoadRelease(r) ==
    /\ At(r, "release")
    /\ rq' = [rq EXCEPT ![r].key.release = ActiveRelease, ![r].pc = "lock"]
    /\ UNCHANGED <<profile, remote, disk, cache, lock, moves, built>>

Resolved(r) == IF rq[r].kind = "health" THEN "report" ELSE "search"

\* Mutant of Hits: only the version decides, as before there were releases.
HitsVersionOnly(r) == cache.version = rq[r].key.version

\* The key was loaded before the mutex is taken; bootstrap runs under it.
Hits(r) == cache = rq[r].key

\* The handler that answers is the cached one.
CacheHit(r) ==
    /\ At(r, "lock") /\ lock = "free" /\ Hits(r)
    /\ rq' = [rq EXCEPT ![r].key = cache, ![r].pc = Resolved(r)]
    /\ UNCHANGED <<profile, remote, disk, cache, lock, moves, built>>

CacheMiss(r) ==
    /\ At(r, "lock") /\ lock = "free" /\ ~Hits(r)
    /\ lock' = r
    /\ Goto(r, "manifest")
    /\ UNCHANGED <<profile, remote, disk, cache, moves, built>>

\* "active manifest version changed during bootstrap": the one retry.
HeadChanged(r) == ActiveManifestReads /\ ActiveVersion # rq[r].key.version

BootstrapRetry(r) ==
    /\ At(r, "manifest") /\ HeadChanged(r) /\ ~rq[r].retried
    /\ rq' = [rq EXCEPT ![r].pc = "version", ![r].retried = TRUE]
    /\ lock' = "free"
    /\ UNCHANGED <<profile, remote, disk, cache, moves, built>>

\* Mutant of BootstrapFails: a changed head is reported, not retried.
BootstrapFailsAtOnce(r) ==
    /\ At(r, "manifest")
    /\ ~ActiveManifestReads \/ HeadChanged(r)
    /\ Fail(r)
    /\ lock' = "free"
    /\ UNCHANGED <<profile, remote, disk, cache, moves, built>>

\* The head moved again, or it or its manifest cannot be read.
BootstrapFails(r) ==
    /\ At(r, "manifest")
    /\ ~ActiveManifestReads \/ (HeadChanged(r) /\ rq[r].retried)
    /\ Fail(r)
    /\ lock' = "free"
    /\ UNCHANGED <<profile, remote, disk, cache, moves, built>>

FreezeManifest(r) ==
    /\ At(r, "manifest")
    /\ ActiveManifestReads /\ ActiveVersion = rq[r].key.version
    /\ Goto(r, "load")
    /\ UNCHANGED <<profile, remote, disk, cache, lock, moves, built>>

\* try_load_static_searcher: a release that cannot be loaded is an error.
LoadStatic(r) ==
    /\ At(r, "load")
    /\ lock' = "free"
    /\ IF rq[r].key.release \in disk.releases \cup {NoRelease}
       THEN /\ cache' = rq[r].key
            /\ built' = built \cup {rq[r].key}
            /\ Goto(r, Resolved(r))
       ELSE Fail(r) /\ UNCHANGED <<cache, built>>
    /\ UNCHANGED <<profile, remote, disk, moves>>

\* Another request's sync is writing over the objects of v.
Overwritten(r, v) ==
    \E q \in Requests \ {r} : rq[q].pc \in {"index", "lance"} /\ v \in rq[q].todo

\* The handler reads Tantivy and LanceDB of its frozen manifest from disk.
Answer(r) ==
    /\ At(r, "search")
    /\ rq[r].key.version \in disk.index \cap disk.lance
    /\ Finish(r, "answered")
    /\ UNCHANGED <<profile, remote, disk, cache, lock, moves, built>>

SearchFails(r) ==
    /\ At(r, "search")
    /\ \/ rq[r].key.version \notin disk.index \cap disk.lance
       \/ Overwritten(r, rq[r].key.version)
    /\ Fail(r)
    /\ UNCHANGED <<profile, remote, disk, cache, lock, moves, built>>

\* Mutant of Reported: the version read earlier beside the cached release.
ReportedHalves(r) == [version |-> rq[r].key.version, release |-> cache.release]

\* cached_pair: both halves under one lock, once the handler is resolved.
Reported(r) == cache

Report(r) ==
    /\ At(r, "report") /\ lock = "free"
    /\ Finish(r, "answered")
    /\ UNCHANGED <<profile, remote, disk, cache, lock, moves, built>>

\* The process dies and another starts on the same directory.
Restart ==
    /\ \E r \in Requests : Running(r)
    /\ rq' = [r \in Requests |-> IdleRequest]
    /\ cache' = NoKey /\ lock' = "free" /\ built' = {}
    /\ UNCHANGED <<profile, remote, disk, moves>>

Sync(r) ==
    \/ ListIndex(r) \/ GetHead(r) \/ WriteHead(r) \/ CopyIndex(r) \/ ListLance(r)
    \/ CopyLance(r) \/ ReadStaticHead(r) \/ PullRelease(r) \/ PlantPointer(r)

Resolve(r) ==
    \/ HealthGate(r) \/ LoadVersion(r) \/ LoadRelease(r) \/ CacheHit(r) \/ CacheMiss(r)
    \/ BootstrapRetry(r) \/ BootstrapFails(r) \/ FreezeManifest(r) \/ LoadStatic(r)

Serve(r) == Sync(r) \/ Resolve(r) \/ Answer(r) \/ SearchFails(r) \/ Report(r)

Publish ==
    \/ \E v \in Versions : UploadLance(v) \/ UploadIndex(v) \/ MoveHead(v)
    \/ \E s \in Releases : MoveStaticHead(s)

Next ==
    \/ Publish
    \/ \E r \in Requests, kind \in {"query", "health"} : Begin(r, kind)
    \/ \E r \in Requests : Serve(r) \/ SyncFails(r)
    \/ Restart

Spec == Init /\ [][Next]_vars

----------------------------------------------------------------------------
(* The pointer names a release that is on disk whole, whatever concurrent  *)
(* pulls and crashes did (sync_static_release writes the pointer last).    *)
PointerComplete == disk.static = NoRelease \/ disk.static \in disk.releases

(* Whoever syncs alone, or does not sync, gets an answer from a version and *)
(* a release that were active while the request ran, although the handler  *)
(* is cached, the key is two reads and the mutex is taken after them.      *)
AnswersFresh ==
    [][\A r \in Requests :
           At(r, "search") /\ rq'[r].pc = "answered" /\ profile # "server" =>
               rq[r].key.version \in rq[r].vs /\ rq[r].key.release \in rq[r].rs]_vars

(* One retry is enough for one publication: once something is published, a *)
(* request is refused only if the heads moved twice while it ran. With S3  *)
(* the copy is not one snapshot, so one movement, or an I/O error, may do. *)
RefusedOnlyWhenMoving ==
    [][\A r \in Requests :
           Running(r) /\ rq'[r].pc = "refused" /\ 0 \notin rq[r].vs /\ profile # "server" =>
               \/ rq[r].moved >= IF OnS3 THEN 1 ELSE 2
               \/ SyncFails(r)]_vars

(* /health reports a pair for which one handler was built, never the       *)
(* version of one handler and the release of another.                      *)
HealthPairBuilt ==
    \A r \in Requests : At(r, "report") /\ lock = "free" => Reported(r) \in built
=============================================================================
