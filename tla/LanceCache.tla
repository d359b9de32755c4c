----------------------------- MODULE LanceCache -----------------------------
(***************************************************************************)
(* The accounting of the shards a warm process has open (lance_cache.rs),  *)
(* as concurrent searches of VectorSearcher share it (vector_searcher.rs). *)
(* Each touch of the cache is one critical section; a shard is measured    *)
(* and queried between two of them, with the lock released.                *)
(***************************************************************************)
EXTENDS Integers, Sequences, FiniteSets, FiniteSetsExt

CONSTANTS
    Searchers,    \* threads that serve requests
    CacheVersions,\* index versions, numbers
    ShardCount,   \* shards of a version
    MaxBegun      \* bound: searches begun

ASSUME CacheConstants ==
    /\ CacheVersions \subseteq Nat \ {0}
    /\ ShardCount \in Nat \ {0}
    /\ MaxBegun \in Nat

VARIABLES
    cache,   \* LocalLanceCache
    at,      \* what each searcher is doing
    begun,   \* searches begun so far
    mixed    \* two searches of different versions were ever under way together

cacheVars == <<cache, at, begun, mixed>>

\* The artifact paths of a version: no other version has them (index publisher).
PathsOf(v) == {v} \X (1 .. ShardCount)

\* What inspect_path_tree_within_artifact_root measures: an artifact never changes.
SizeOf(path) == path[1] + 10 * path[2]

NoVersion == 0

Idle == [phase |-> "idle"]

CacheInit ==
    /\ cache = [seen |-> {}, hits |-> 0, misses |-> 0, attempted |-> NoVersion,
                current |-> NoVersion, bytes |-> 0]
    /\ at = [s \in Searchers |-> Idle]
    /\ begun = 0
    /\ mixed = FALSE

\* Mutant of Reset: the paths survive the counters.
ResetCounters(v) ==
    [cache EXCEPT !.hits = 0, !.misses = 0, !.bytes = 0, !.attempted = v, !.current = NoVersion]

\* reset_for_attempt.
Reset(v) ==
    [seen |-> {}, hits |-> 0, misses |-> 0, attempted |-> v, current |-> NoVersion, bytes |-> 0]

\* search_active_manifest: begin_version_attempt, then shard after shard.
BeginAttempt(s, v) ==
    /\ at[s] = Idle /\ begun < MaxBegun
    /\ cache' = IF cache.attempted = v THEN cache ELSE Reset(v)
    /\ at' = [at EXCEPT ![s] = [phase |-> "measure", version |-> v, shard |-> 1]]
    /\ begun' = begun + 1
    /\ mixed' = (mixed \/ \E o \in Searchers : at[o] # Idle /\ at[o].version # v)

\* shard_size_bytes: from the cache when it is about this version, else from disk.
Measure(s) ==
    /\ at[s].phase = "measure"
    /\ at' = [at EXCEPT ![s] = [phase |-> "query", version |-> at[s].version, shard |-> at[s].shard,
                                size |-> SizeOf(<<at[s].version, at[s].shard>>),
                                known |-> /\ cache.attempted = at[s].version
                                          /\ <<at[s].version, at[s].shard>> \in cache.seen]]
    /\ UNCHANGED <<cache, begun, mixed>>

\* Mutant of Recorded: whether the shard is new was seen before the query.
RecordedAsMeasured(w, path) ==
    IF w.known
    THEN [cache EXCEPT !.hits = @ + 1, !.attempted = w.version, !.current = w.version]
    ELSE [cache EXCEPT !.misses = @ + 1, !.bytes = @ + w.size, !.seen = @ \cup {path},
                       !.attempted = w.version, !.current = w.version]

\* record_shard_access, with publish_version.
Recorded(w, path) ==
    IF path \in cache.seen
    THEN [cache EXCEPT !.hits = @ + 1, !.attempted = w.version, !.current = w.version]
    ELSE [cache EXCEPT !.misses = @ + 1, !.bytes = @ + w.size, !.seen = @ \cup {path},
                       !.attempted = w.version, !.current = w.version]

RecordAccess(s) ==
    /\ at[s].phase = "query"
    /\ cache' = Recorded(at[s], <<at[s].version, at[s].shard>>)
    /\ at' = [at EXCEPT ![s] = IF at[s].shard = ShardCount THEN Idle
                               ELSE [phase |-> "measure", version |-> at[s].version,
                                     shard |-> at[s].shard + 1]]
    /\ UNCHANGED <<begun, mixed>>

\* The tree leaves the artifact root, or the query fails: the search ends there.
QueryFails(s) ==
    /\ at[s].phase \in {"measure", "query"}
    /\ at' = [at EXCEPT ![s] = Idle]
    /\ UNCHANGED <<cache, begun, mixed>>

CacheNext ==
    \E s \in Searchers :
        \/ \E v \in CacheVersions : BeginAttempt(s, v)
        \/ Measure(s)
        \/ RecordAccess(s)
        \/ QueryFails(s)

CacheSpec == CacheInit /\ [][CacheNext]_cacheVars

----------------------------------------------------------------------------
\* lance_cache.rs:20: while searches of different versions do not overlap, the
\* counters are about one version, the one last attempted, and the version shown as
\* current is one whose shard was queried.
CacheOfOneVersion ==
    ~mixed =>
        /\ cache.seen \subseteq PathsOf(cache.attempted)
        /\ cache.current # NoVersion <=> cache.seen # {}

\* vector_searcher.rs:271: the counters are those of the paths that are noted, of one
\* version: two searches that measured a shard before either noted it count it once.
CacheAdds ==
    /\ cache.misses = Cardinality(cache.seen)
    /\ cache.bytes = MapThenSumSet(SizeOf, cache.seen)
    /\ cache.current \in {NoVersion, cache.attempted}
    /\ CacheOfOneVersion
=============================================================================
