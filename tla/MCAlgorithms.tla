---------------------------- MODULE MCAlgorithms ----------------------------
(* The components that share nothing with the others, on small instances: a  *)
(* behaviour is about one of them, chosen at the start, and the others keep  *)
(* still.                                                                    *)
EXTENDS Snapshot, Calendar, TurboCodec, ReleaseImage, DocIdHash, Retrieval, LanceCache, ContextBudget

VARIABLE about

\* Snapshot and Calendar.
MCNames == 1 .. 3
MCSymmetry == Permutations(Docs)
MCFirstDate == <<2001, 9, 9>>

\* TurboCodec.
MCCoordinates == -6 .. 6
MCCodebooks == {<<0, 1>>, <<-3, -1, 1, 4>>, <<-4, -1, 2, 5>>, <<-5, 0>>}
MCCodecs ==
  {[rotation |-> <<<<0, 1, 0, 0, 0>>, <<1, 0, 0, 0, 0>>, <<0, 0, 0, -1, 0>>, <<0, 0, 1, 0, 0>>, <<0, 0, 0, 0, 1>>>>,
    codebook |-> <<-3, -1, 1, 4>>,
    qjl |-> [j \in 1 .. 9 |-> [i \in 1 .. 5 |-> ((i * j + i + 2 * j) % 5) - 2]]],
   [rotation |-> <<<<0, 0, 0, 0, -1>>, <<0, 1, 0, 0, 0>>, <<1, 0, 0, 0, 0>>, <<0, 0, 1, 0, 0>>, <<0, 0, 0, -1, 0>>>>,
    codebook |-> <<-2, 0, 1, 2>>,
    qjl |-> [j \in 1 .. 9 |-> [i \in 1 .. 5 |-> ((i * i + 3 * j) % 7) - 3]]]}
MCQueries == {<<1, 2, -1, 3, 0>>, <<-2, 1, 1, 0, 4>>}

\* ReleaseImage: rows whose ids are prefixes of one another, rows that do not
\* count, and formats with each of the refusals of codec_config.rs.
MCRow(id, text, title) ==
  [id |-> id, text |-> text, title |-> title, metadata |-> "object", embedding |-> "vector"]
MCRowA == MCRow(<<1>>, <<2, 3>>, <<1>>)
MCRowB == MCRow(<<1, 0>>, <<1, 2, 3>>, <<>>)
MCRowC == MCRow(<<0>>, <<0>>, <<2, 3>>)
MCScans ==
  {<<MCRowA, MCRowB>>, <<MCRowB, MCRowA>>, <<MCRowC>>, <<MCRowA, MCRowA>>,
   <<MCRowA, [MCRowC EXCEPT !.text = <<>>]>>, <<MCRowB, [MCRowC EXCEPT !.embedding = "null"]>>}
MCFormats ==
  {[version |-> 2, config |-> LegacyV1], [version |-> 3, config |-> LegacyV1],
   [version |-> 4, config |-> ProdV1],
   [version |-> 4, config |-> [ProdV1 EXCEPT !.qjl_seed = <<1, 0>>, !.qjl_dim = Dim - 1]],
   [version |-> 4, config |-> [ProdV1 EXCEPT !.generator = 1]],
   [version |-> 4, config |-> [ProdV1 EXCEPT !.qjl_dim = 8]]}

\* Retrieval: a shard holds a document once, two shards may hold the same one.
MCTables ==
  {t \in SUBSET [shard : Shards, doc : 1 .. 3, distance : {-1, 0, 1, 3}] :
     Cardinality(t) <= 4 /\ \A a, b \in t : (a.shard = b.shard /\ a.doc = b.doc) => a = b}
MCMatches ==
  {m \in UNION {[1 .. n -> [doc : 1 .. 3, score : 1 .. 2]] : n \in 0 .. 4} :
     \A i, j \in DOMAIN m : i < j => m[i].score >= m[j].score}
MCRankings ==
  {[static |-> <<[doc |-> 7, meta |-> "match"], [doc |-> 6, meta |-> "none"]>>,
    keyword |-> [i \in DOMAIN k |-> [doc |-> k[i], meta |-> IF stored THEN m[k[i]] ELSE "none"]],
    vector |-> [i \in DOMAIN v |-> [doc |-> v[i], meta |-> m[v[i]]]]] :
   k \in {<<5, 4, 3, 2, 1>>, <<2, 3, 4>>, <<2, 4, 5>>, <<>>},
   v \in {<<1, 2, 3, 4, 5>>, <<5, 3, 1>>, <<2, 4>>, <<>>},
   m \in [1 .. 5 -> {"match", "other"}], stored \in BOOLEAN}

\* ContextBudget: groups of up to three blocks.
MCSums(blocks, Of(_)) ==
  [i \in 0 .. Len(blocks) |-> FoldLeft(LAMBDA s, b : s + Of(b), 0, SubSeq(blocks, 1, i))]
MCGroup(blocks) ==
  LET cjk == MCSums(blocks, LAMBDA b : b[1])
      other == MCSums(blocks, LAMBDA b : b[2])
  IN  [text |-> [i \in 0 .. Len(blocks) |-> <<cjk[i], other[i]>>],
       cost |-> MCSums(blocks, EstimateTokens)]
MCBlocks ==
  {<<>>, <<<<0, 1>>>>, <<<<1, 3>>>>, <<<<2, 5>>>>, <<<<0, 1>>, <<2, 5>>>>, <<<<1, 3>>, <<1, 3>>>>,
   <<<<2, 5>>, <<0, 1>>, <<1, 3>>>>, <<<<0, 1>>, <<0, 1>>, <<0, 2>>>>}
MCContexts ==
  {[question |-> <<1, 2>>, static |-> MCGroup(s), statics |-> Len(s),
    dynamic |-> MCGroup(d), dynamics |-> Len(d)] : s \in MCBlocks, d \in MCBlocks}
MCMaxTokens == {1, 3, 4, 7, 9}

----------------------------------------------------------------------------
MCInit ==
  /\ Init /\ CalendarInit /\ CodecInit /\ ImageInit /\ RetrievalInit /\ CacheInit /\ BudgetInit
  /\ \/ about \in {"snapshot", "calendar", "codec", "image", "retrieval", "cache"}
        /\ context.statics = 0 /\ context.dynamics = 0
        /\ budget = 1
     \/ about = "context"

MCNext ==
  /\ UNCHANGED about
  /\ \/ about = "snapshot" /\ Next
        /\ UNCHANGED <<calendarVars, given, image, retrievalVars, cacheVars, budgetVars>>
     \/ about = "calendar" /\ NextDay
        /\ UNCHANGED <<vars, given, image, retrievalVars, cacheVars, budgetVars>>
     \/ about = "codec" /\ CodecNext
        /\ UNCHANGED <<vars, calendarVars, image, retrievalVars, cacheVars, budgetVars>>
     \/ about = "image" /\ ImageNext
        /\ UNCHANGED <<vars, calendarVars, given, retrievalVars, cacheVars, budgetVars>>
     \/ about = "retrieval" /\ RetrievalNext
        /\ UNCHANGED <<vars, calendarVars, given, image, cacheVars, budgetVars>>
     \/ about = "cache" /\ CacheNext
        /\ UNCHANGED <<vars, calendarVars, given, image, retrievalVars, budgetVars>>
     \/ about = "context" /\ BudgetNext
        /\ UNCHANGED <<vars, calendarVars, given, image, retrievalVars, cacheVars>>

MCSpec ==
  MCInit /\ [][MCNext]_<<about, vars, calendarVars, given, image, retrievalVars, cacheVars, budgetVars>>
=============================================================================
