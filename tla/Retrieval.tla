----------------------------- MODULE Retrieval -----------------------------
(***************************************************************************)
(* How a query finds its chunks: the three retrievers (keyword_searcher.rs,*)
(* vector_searcher.rs, turbo_searcher.rs), the fusion of their rankings    *)
(* (ranker.rs), the router that widens its window until enough results     *)
(* pass the filters (router.rs, filter.rs).                                *)
(*                                                                         *)
(* A document is a number, compared as its id is; a score is an integer.   *)
(***************************************************************************)
EXTENDS Integers, Sequences, FiniteSets, SequencesExt, Ordering

CONSTANTS
    Shards,       \* shards of the index: numbers, in the manifest's order
    VectorTables, \* bound: what the shards hold, sets of [shard, doc, distance]
    One,          \* the score of distance 0
    Matches,      \* bound: what matches a keyword query, in Tantivy's order
    ScanDocs,     \* bound: how many records a static scan goes over
    ScanScores,   \* bound: their scores
    TopKs,        \* bound: top_k of a request
    WindowMax,    \* SEARCH_WINDOW_MAX: 100
    RrfK,         \* the ranker's constant: 60
    Rankings      \* bound: what the retrievers find at the widest window, records
                  \* of three sequences of [doc, meta]: static, keyword, vector

\* What a hit carries.
Hits == [doc : Nat, meta : {"none", "match", "other"}]

OncePerDoc(list) == \A i, j \in DOMAIN list : list[i].doc = list[j].doc => i = j

ASSUME RetrievalConstants ==
    /\ IsFiniteSet(Shards) /\ Shards = 1 .. Cardinality(Shards)
    /\ \A table \in VectorTables :
         /\ table \in SUBSET [shard : Shards, doc : Nat, distance : Int] /\ IsFiniteSet(table)
         \* a shard holds a document once
         /\ \A a, b \in table : (a.shard = b.shard /\ a.doc = b.doc) => a = b
    \* the best matches first
    /\ \A matches \in Matches :
         /\ matches \in Seq([doc : Nat, score : Int])
         /\ \A i, j \in DOMAIN matches : i < j => matches[i].score >= matches[j].score
    /\ One \in Nat /\ ScanDocs \in Nat /\ ScanScores \subseteq Int
    \* TOP_K_MAX is SEARCH_WINDOW_MAX
    /\ WindowMax \in Nat \ {0} /\ TopKs \subseteq 1 .. WindowMax /\ RrfK \in Nat
    \* a retriever finds a document once
    /\ \A ranking \in Rankings :
         /\ ranking \in [static : Seq(Hits), keyword : Seq(Hits), vector : Seq(Hits)]
         /\ \A l \in DOMAIN ranking : OncePerDoc(ranking[l])

VARIABLES
    lookup,  \* one call of a retriever and its answer
    search   \* one request on its way through the router

retrievalVars == <<lookup, search>>

Smaller(a, b) == IF a <= b THEN a ELSE b

Truncated(s, n) == SubSeq(s, 1, Smaller(n, Len(s)))

----------------------------------------------------------------------------
(* Shared by the retrievers (retrieval_common.rs). *)

\* compare_search_results, compare_ranked_results.
Better(a, b) == a.score > b.score \/ (a.score = b.score /\ a.doc < b.doc)

\* Mutant of BestPerDoc: a document keeps the row that came first.
FirstPerDoc(hits) ==
    {hits[i] : i \in {i \in DOMAIN hits : \A j \in DOMAIN hits : hits[j].doc = hits[i].doc => i <= j}}

\* Of a document's rows the best one stays, of equal ones the first.
BestPerDoc(hits) ==
    {hits[i] : i \in {i \in DOMAIN hits : \A j \in DOMAIN hits :
        hits[j].doc = hits[i].doc =>
            hits[i].score > hits[j].score \/ (hits[i].score = hits[j].score /\ i <= j)}}

DedupeBest(hits, topK) == Truncated(SortedBy(BestPerDoc(hits), Better), topK)

----------------------------------------------------------------------------
(* The vector retriever.  The LanceDB query is external: it returns as many *)
(* rows as asked for, none farther than a row it leaves out.                *)

Nearest(rows, n) ==
    {near \in SUBSET rows :
        /\ Cardinality(near) = n
        /\ \A r \in near, other \in rows \ near : r.distance <= other.distance}

TopKForShard(rowCount, topK) == Smaller(rowCount, topK)

\* lancedb_distance_to_score: 1 - distance, clamped between 0 and 1.
ScoreOf(distance) == IF distance > One THEN 0 ELSE IF distance < 0 THEN One ELSE One - distance

Nearer(a, b) == a.distance < b.distance \/ (a.distance = b.distance /\ a.doc < b.doc)

Decoded(rows) ==
    LET byDistance == SortedBy(rows, Nearer)
    IN  [i \in DOMAIN byDistance |->
            [doc |-> byDistance[i].doc, score |-> ScoreOf(byDistance[i].distance)]]

OfShard(table, s) == {r \in table : r.shard = s}

\* search_active_manifest: shard after shard, then the best row per document.
VectorSearch(nearest, topK) ==
    DedupeBest(FlattenSeq([s \in 1 .. Cardinality(Shards) |-> Decoded(nearest[s])]), topK)

LookupVector ==
    \E table \in VectorTables, topK \in TopKs :
      \E nearest \in [Shards -> SUBSET table] :
        /\ \A s \in Shards : LET rows == OfShard(table, s) IN
             nearest[s] \in Nearest(rows, TopKForShard(Cardinality(rows), topK))
        /\ lookup' = [of |-> "vector", topK |-> topK,
                      rows |-> {[doc |-> r.doc, score |-> ScoreOf(r.distance)] : r \in table},
                      answer |-> VectorSearch(nearest, topK)]

----------------------------------------------------------------------------
(* The keyword retriever.  Tantivy returns the limit best matches; maxDocs *)
(* counts all documents of the index.                                      *)

\* Mutant of KeywordSearch: duplicates among the first matches are not made up for.
KeywordOnce(matches, maxDocs, topK) == DedupeBest(Truncated(matches, topK), topK)

KeywordSearch(matches, maxDocs, topK) ==
    LET From[limit \in 1 .. maxDocs + 1] ==
          LET results == DedupeBest(Truncated(matches, limit), topK)
          IN  IF Len(results) >= topK \/ limit >= maxDocs THEN results
              ELSE From[Smaller(2 * limit, maxDocs)]
    IN  From[Smaller(topK, IF maxDocs = 0 THEN 1 ELSE maxDocs)]

LookupKeyword ==
    \E matches \in Matches, unmatched \in 0 .. 1, topK \in TopKs :
        lookup' = [of |-> "keyword", topK |-> topK, rows |-> ToSet(matches),
                   answer |-> KeywordSearch(matches, Len(matches) + unmatched, topK)]

----------------------------------------------------------------------------
(* The static scan: rayon folds runs of the records into bounded heaps and *)
(* reduces the heaps in a tree, both cut as it pleases.                    *)

Worst(heap) == CHOOSE c \in heap : \A other \in heap \ {c} : Better(other, c)

\* Mutant of PushBounded: a candidate must score higher to replace the worst.
PushIfHigher(heap, c, topK) ==
    IF Cardinality(heap) < topK THEN heap \cup {c}
    ELSE IF c.score > Worst(heap).score THEN (heap \ {Worst(heap)}) \cup {c}
    ELSE heap

PushBounded(heap, c, topK) ==
    IF Cardinality(heap) < topK THEN heap \cup {c}
    ELSE IF Better(c, Worst(heap)) THEN (heap \ {Worst(heap)}) \cup {c}
    ELSE heap

\* The candidates of a run, one after the other.
Pushed(heap, run, topK) ==
    LET after[i \in 0 .. Len(run)] ==
          IF i = 0 THEN heap ELSE PushBounded(after[i - 1], run[i], topK)
    IN  after[Len(run)]

HeapOf(run, topK) == Pushed({}, run, topK)

Reduced(left, right, topK) == Pushed(left, SortedBy(right, Better), topK)

\* The records cut in three runs, any of them empty, and reduced either way.
ScanTopK(records, topK, cut1, cut2, leftFirst) ==
    LET a == HeapOf(SubSeq(records, 1, cut1), topK)
        b == HeapOf(SubSeq(records, cut1 + 1, cut2), topK)
        c == HeapOf(SubSeq(records, cut2 + 1, Len(records)), topK)
    IN  IF leftFirst THEN Reduced(Reduced(a, b, topK), c, topK)
        ELSE Reduced(a, Reduced(b, c, topK), topK)

\* The release's records, each document once, in any order of their ids.
ScanRecords ==
    {[i \in 1 .. ScanDocs |-> [doc |-> order[i], score |-> scores[i]]] :
        order \in {o \in [1 .. ScanDocs -> 1 .. ScanDocs] : IsInjective(o)},
        scores \in [1 .. ScanDocs -> ScanScores]}

LookupStatic ==
    \E records \in ScanRecords, topK \in TopKs, leftFirst \in BOOLEAN, cut1 \in 0 .. ScanDocs :
      \E cut2 \in cut1 .. ScanDocs :
        lookup' = [of |-> "static", topK |-> topK, rows |-> ToSet(records),
                   answer |-> SortedBy(ScanTopK(records, topK, cut1, cut2, leftFirst), Better)]

\* What every retriever owes: as many documents as there are up to topK, each once
\* and with its best score, in order, and none left out that scores higher.
FindsBest(l) ==
    LET best == {r \in l.rows : \A o \in l.rows : o.doc = r.doc => r.score >= o.score}
        last == l.answer[Len(l.answer)]
    IN  /\ Len(l.answer) = Smaller(l.topK, Cardinality({r.doc : r \in l.rows}))
        /\ \A i \in DOMAIN l.answer :
             /\ [doc |-> l.answer[i].doc, score |-> l.answer[i].score] \in best
             /\ \A j \in 1 .. i - 1 : Better(l.answer[j], l.answer[i])
        /\ \A r \in best :
             (\A i \in DOMAIN l.answer : l.answer[i].doc # r.doc) => r.score <= last.score

\* retrieval_common.rs:60: results of all shards are merged, a document that two
\* shards hold, or two documents that clamping makes equal, cost no result.
VectorFindsBest == lookup.of = "vector" => FindsBest(lookup)

\* keyword_searcher.rs:136: matches of one document do not crowd out the others:
\* the search widens until topK documents are found or all were seen.
KeywordFindsBest == lookup.of = "keyword" => FindsBest(lookup)

\* turbo_searcher.rs:216: the parallel scan finds what a sequential one would,
\* down to the order of equal scores, however rayon cuts and joins the runs.
ScanIsSequential ==
    lookup.of = "static" =>
        lookup.answer = Truncated(SortedBy(lookup.rows, Better), lookup.topK)

\* Each retriever returns the best of what it holds, best first: duplicates, shards,
\* equal scores and threads cost no result and change no order.
RetrieversFindBest == VectorFindsBest /\ KeywordFindsBest /\ ScanIsSequential

----------------------------------------------------------------------------
(* The ranker: reciprocal rank fusion, in exact fractions. *)

RankIn(list, d) == SelectInSeq(list, LAMBDA hit : hit.doc = d)

\* compute_rrf_score, as a fraction; a document that is not in the list adds nothing.
Rrf(rank) == IF rank = 0 THEN <<0, 1>> ELSE <<1, RrfK + rank>>

\* Mutant of FusedScore: the keyword list's score replaces the vector list's.
FusedScoreReplaced(vector, keyword, d) ==
    IF RankIn(keyword, d) # 0 THEN Rrf(RankIn(keyword, d)) ELSE Rrf(RankIn(vector, d))

FusedScore(vector, keyword, d) ==
    LET v == Rrf(RankIn(vector, d))
        k == Rrf(RankIn(keyword, d))
    IN  <<v[1] * k[2] + k[1] * v[2], v[2] * k[2]>>

\* merge_result_payload: the vector result's metadata, or the keyword result's
\* when it has none.  The code unites two maps key by key, the vector result's
\* values first; both are those of one document of one snapshot, so the union
\* of two is either of them.
MergedMeta(vector, keyword, d) ==
    LET v == RankIn(vector, d)
        k == RankIn(keyword, d)
    IN  IF v # 0 /\ (vector[v].meta # "none" \/ k = 0) THEN vector[v].meta ELSE keyword[k].meta

\* The higher fraction first, of equal ones the smaller id.
FusedBefore(vector, keyword, a, b) ==
    LET s == FusedScore(vector, keyword, a.doc)
        t == FusedScore(vector, keyword, b.doc)
    IN  s[1] * t[2] > t[1] * s[2] \/ (s[1] * t[2] = t[1] * s[2] /\ a.doc < b.doc)

Fuse(vector, keyword) ==
    LET docs == {hit.doc : hit \in ToSet(vector) \cup ToSet(keyword)}
    IN  SortedBy({[doc |-> d, meta |-> MergedMeta(vector, keyword, d)] : d \in docs},
                 LAMBDA a, b : FusedBefore(vector, keyword, a, b))

----------------------------------------------------------------------------
(* The router.  meta says what a filter sees of a hit: "none", no metadata; *)
(* "match", metadata with the fields of the filters; or "other".            *)

Window(topK) == Smaller(3 * topK, WindowMax)

\* The hits at these places, in their order.
At(hits, places) ==
    LET kept == SortedBy(places, LAMBDA i, j : i < j)
    IN  [i \in DOMAIN kept |-> hits[kept[i]]]

\* Mutant of ApplyFilters: a hit without metadata passes.
ApplyFiltersLoose(hits, filters) ==
    IF filters THEN At(hits, {i \in DOMAIN hits : hits[i].meta # "other"}) ELSE hits

ApplyFilters(hits, filters) ==
    IF filters THEN At(hits, {i \in DOMAIN hits : hits[i].meta = "match"}) ELSE hits

\* Mutant of ResponseGroup: metadata is stripped before the filters look at it.
ResponseGroupStripped(hits, request) ==
    LET Strip(hit) == IF request.includeMeta THEN hit ELSE [hit EXCEPT !.meta = "none"]
    IN  Truncated(ApplyFilters([i \in DOMAIN hits |-> Strip(hits[i])], request.filters),
                  Window(request.topK))

\* A group of the response: filtered, cut at the request's window, then stripped.
ResponseGroup(hits, request) ==
    LET kept == Truncated(ApplyFilters(hits, request.filters), Window(request.topK))
    IN  [i \in DOMAIN kept |->
            IF request.includeMeta THEN kept[i] ELSE [kept[i] EXCEPT !.meta = "none"]]

\* SearchResponse::validate: the caps of the groups.
ResponseValid(groups, request) ==
    /\ Len(groups.static) <= Window(request.topK)
    /\ Len(groups.dynamic) <= Window(request.topK)

SearchRequests == [topK : TopKs, filters : BOOLEAN, includeMeta : BOOLEAN]

NoSearch == [phase |-> "none"]

\* The request is valid and the active manifest is loaded.
Start ==
    /\ search = NoSearch
    /\ \E request \in SearchRequests, ranking \in Rankings :
         search' = [phase |-> "embed", request |-> request, ranking |-> ranking, tries |-> 0,
                    wanted |-> request.topK, warnings |-> 0]
    /\ UNCHANGED lookup

\* generate_embedding_with_retry: two attempts.
Embed ==
    /\ search.phase = "embed"
    /\ \/ search' = [search EXCEPT !.phase = "retrieve"]
       \/ search' = [search EXCEPT !.tries = @ + 1, !.phase = IF search.tries = 0 THEN @ ELSE "fallback"]
    /\ UNCHANGED lookup

\* search_grouped, or search_keyword_only when there is no embedding: the groups
\* found with a window.
Grouped(window) ==
    LET r == search.ranking
        keyword == Truncated(r.keyword, window)
    IN  IF search.phase = "fallback" THEN [static |-> <<>>, dynamic |-> keyword]
        ELSE [static |-> Truncated(r.static, window),
              dynamic |-> Fuse(Truncated(r.vector, window), keyword)]

\* Mutant of WideEnough: the results are counted before they are filtered.
WideEnoughUnfiltered(found) ==
    \/ ~search.request.filters
    \/ Len(found.dynamic) >= search.request.topK
    \/ search.wanted >= WindowMax

\* Without filters one pass is all there is.  With them the loop ends when the
\* dynamic results that pass are enough, or at the limit.
WideEnough(found) ==
    \/ ~search.request.filters
    \/ Len(ApplyFilters(found.dynamic, TRUE)) >= search.request.topK
    \/ search.wanted >= WindowMax

\* Mutant of Warned: the fallback answers without saying so.
WarnedNot == search.warnings

\* One warning for the whole fallback, whatever the number of passes.
Warned == IF search.phase = "fallback" /\ search.warnings = 0 THEN 1 ELSE search.warnings

Retrieve ==
    /\ search.phase \in {"retrieve", "fallback"}
    /\ LET found == Grouped(Window(search.wanted))
           groups == [static |-> ResponseGroup(found.static, search.request),
                      dynamic |-> ResponseGroup(found.dynamic, search.request)]
       IN  IF ~WideEnough(found)
           THEN search' = [search EXCEPT !.wanted = Smaller(2 * search.wanted, WindowMax),
                                         !.warnings = Warned]
           ELSE search' = [phase |-> IF ResponseValid(groups, search.request) THEN "answered" ELSE "failed",
                           embedded |-> search.phase = "retrieve", request |-> search.request,
                           ranking |-> search.ranking, groups |-> groups, warnings |-> Warned]
    /\ UNCHANGED lookup

\* A retriever fails, or panics on its thread: the request fails.
RetrieverFails ==
    /\ search.phase \in {"retrieve", "fallback"}
    /\ search' = [phase |-> "failed", request |-> search.request]
    /\ UNCHANGED lookup

NoLookup == [of |-> "none"]

RetrievalInit == lookup = NoLookup /\ search = NoSearch

Lookup ==
    /\ lookup = NoLookup /\ search = NoSearch
    /\ LookupVector \/ LookupKeyword \/ LookupStatic
    /\ UNCHANGED search

Route == lookup = NoLookup /\ (Start \/ Embed \/ Retrieve \/ RetrieverFails)

RetrievalNext == Lookup \/ Route

RetrievalSpec == RetrievalInit /\ [][RetrievalNext]_retrievalVars

----------------------------------------------------------------------------
Answered == search.phase = "answered"

\* Everything the retrievers know of, as the answer would be from the widest window.
Widest ==
    LET r == search.ranking
    IN  IF search.embedded THEN Fuse(Truncated(r.vector, WindowMax), Truncated(r.keyword, WindowMax))
        ELSE Truncated(r.keyword, WindowMax)

\* router.rs:256: filters never make an answer shorter than top_k while the widest
\* window holds more dynamic chunks that pass them.
FiltersCostNoResult ==
    Answered =>
        Len(search.groups.dynamic)
          >= Smaller(search.request.topK, Len(ApplyFilters(Widest, search.request.filters)))

DocsOf(hits) == {hits[i].doc : i \in DOMAIN hits}

\* filter.rs, ranker.rs: a chunk of the answer is one the filters let through by the
\* metadata of its own document, and no document comes twice; metadata is shown
\* only on demand.
AnswerPasses ==
    Answered =>
        \A group \in {search.groups.static, search.groups.dynamic} :
          /\ Cardinality(DocsOf(group)) = Len(group)
          /\ search.request.filters =>
               \A d \in DocsOf(group) : \E list \in {search.ranking[l] : l \in DOMAIN search.ranking} :
                 \E i \in DOMAIN list : list[i].doc = d /\ list[i].meta = "match"
          /\ ~search.request.includeMeta => \A i \in DOMAIN group : group[i].meta = "none"

\* a is not behind b in this list, and ahead when strictly is asked for.
Ahead(list, a, b, strictly) ==
    LET ra == RankIn(list, a)
        rb == RankIn(list, b)
    IN  IF rb = 0 THEN ra # 0 \/ ~strictly ELSE ra # 0 /\ (ra < rb \/ (ra = rb /\ ~strictly))

\* ranker.rs:25: both rankings count: a chunk that neither list puts behind another,
\* and one of them ahead of it, comes first in the fused order.
BothRankingsCount ==
    (Answered /\ search.embedded) =>
        LET v == search.ranking.vector
            k == search.ranking.keyword
            docs == search.groups.dynamic
        IN  (Len(v) <= Window(search.request.topK) /\ Len(k) <= Window(search.request.topK)) =>
              \A i, j \in DOMAIN docs :
                LET a == docs[i].doc
                    b == docs[j].doc
                IN  (/\ Ahead(v, a, b, FALSE) /\ Ahead(k, a, b, FALSE)
                     /\ Ahead(v, a, b, TRUE) \/ Ahead(k, a, b, TRUE)) => i < j

\* router.rs:263: an embedding that cannot be had costs the vector and the static
\* results and one warning, whatever the number of passes: it fails no request
\* that the keyword index can answer.
FallbackAnswers ==
    /\ search.phase = "failed" => DOMAIN search = {"phase", "request"}
    /\ Answered => search.warnings = IF search.embedded THEN 0 ELSE 1

\* A request is answered with all that passes its filters and nothing else, with or
\* without an embedding.
AnswersComplete == FiltersCostNoResult /\ AnswerPasses /\ FallbackAnswers
=============================================================================
