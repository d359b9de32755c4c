-------------------------- MODULE QueryServingProofs --------------------------
(***************************************************************************)
(* What a query process may rely on, for any number of requests, versions, *)
(* releases and movements of the heads: the planted pointer names a whole  *)
(* release, /health reports a pair one handler was built for, answers come *)
(* from what was active while the request ran, and only heads that moved   *)
(* meanwhile, or a sync that failed, refuse a request one.                 *)
(***************************************************************************)
EXTENDS QueryServing, WellFoundedInduction, TLAPS

Pcs == {"idle", "answered", "refused",
        "list", "head", "truncated", "index", "lance", "pull", "plant",
        "gate", "version", "release", "lock", "manifest", "load", "search", "report"}

\* A request that has loaded its version.
Keyed == {"release", "lock", "manifest", "load", "search", "report"}

\* What holds of a request, wherever it is.
RequestOK(q) ==
  /\ q.pc \in {"list", "head", "truncated"} => OnS3
  /\ q.pc = "plant" => q.static \in disk.releases
  /\ q.pc \in Keyed => q.key \in Key
  /\ q.pc = "report" => cache # NoKey

IInv ==
  /\ TypeOK
  /\ PointerComplete
  /\ remote.head # Torn /\ (OnS3 \/ disk.head # Torn)
  /\ cache # NoKey => cache \in built
  /\ \A r \in Requests : RequestOK(rq[r])

\* A request that is somewhere else.
LEMMA RequestFields ==
  ASSUME NEW q \in Request
  PROVE  \A pc \in Pcs : /\ [q EXCEPT !.pc = pc] \in Request
                         /\ [q EXCEPT !.pc = pc].pc = pc
                         /\ [q EXCEPT !.pc = pc].key = q.key
BY DEF Request, Pcs

\* A request that runs no more is one of them.
LEMMA IdleIsRequest == IdleRequest \in Request
BY ServingConstants DEF IdleRequest, Request, NoKey, ReleaseIds, Versions

\* One request moves; the tree on disk keeps its releases and its pointer whole.
LEMMA RequestStep ==
  ASSUME IInv, NEW r \in Requests, NEW q \in Request, rq' = [rq EXCEPT ![r] = q],
         UNCHANGED <<profile, remote, cache, moves, built>>,
         lock' \in Requests \cup {"free"},
         NEW d \in Tree, disk' = d, disk.releases \subseteq d.releases,
         d.static = disk.static \/ d.static \in d.releases,
         OnS3 \/ d.head = disk.head,
         q.pc \in {"list", "head", "truncated"} => OnS3,
         q.pc = "plant" => q.static \in d.releases,
         q.pc \in Keyed => q.key \in Key,
         q.pc = "report" => cache # NoKey
  PROVE  IInv'
<1>1. rq' \in [Requests -> Request] /\ \A s \in Requests : rq'[s] = q \/ rq'[s] = rq[s]
  BY DEF IInv, TypeOK
<1>2. TypeOK'
  BY <1>1 DEF IInv, TypeOK
<1>3. PointerComplete'
  BY DEF IInv, PointerComplete
<1>4. (\A s \in Requests : RequestOK(rq[s]))'
  BY <1>1 DEF IInv, RequestOK, OnS3
<1>5. QED
  BY <1>2, <1>3, <1>4 DEF IInv, OnS3

\* It writes to the disk while it syncs.
LEMMA DiskStep ==
  ASSUME IInv, NEW r \in Requests, NEW q \in Request, rq' = [rq EXCEPT ![r] = q],
         UNCHANGED <<profile, remote, cache, lock, moves, built>>,
         NEW d \in Tree, disk' = d, disk.releases \subseteq d.releases,
         d.static = disk.static \/ d.static \in d.releases,
         OnS3 \/ d.head = disk.head,
         q.pc \in {"list", "head", "truncated"} => OnS3,
         q.pc = "plant" => q.static \in d.releases,
         q.pc \notin Keyed
  PROVE  IInv'
BY RequestStep DEF IInv, TypeOK, Keyed

\* It moves and nothing else does, the mutex apart.
LEMMA QuietStep ==
  ASSUME IInv, NEW r \in Requests, NEW q \in Request, rq' = [rq EXCEPT ![r] = q],
         UNCHANGED <<profile, remote, disk, cache, moves, built>>,
         lock' \in Requests \cup {"free"},
         q.pc \in {"list", "head", "truncated"} => OnS3,
         q.pc = "plant" => q.static \in disk.releases,
         q.pc \in Keyed => q.key \in Key,
         q.pc = "report" => cache # NoKey
  PROVE  IInv'
BY RequestStep DEF IInv, TypeOK

\* One request fills the cache and gives the mutex back.
LEMMA CacheStep ==
  ASSUME IInv, NEW r \in Requests, NEW q \in Request, rq' = [rq EXCEPT ![r] = q],
         UNCHANGED <<profile, remote, disk, moves>>, lock' = "free",
         rq[r].key \in Key, q.key = rq[r].key, q.pc \in {"search", "report"},
         cache' = rq[r].key, built' = built \cup {rq[r].key}
  PROVE  IInv'
<1>1. NoKey \notin Key
  BY DEF NoKey, Key, Versions
<1>2. /\ built \subseteq Key /\ disk \in Tree /\ rq \in [Requests -> Request]
      /\ \A s \in Requests : RequestOK(rq[s])
  BY DEF IInv, TypeOK
<1>3. rq' \in [Requests -> Request] /\ \A s \in Requests : rq'[s] = q \/ rq'[s] = rq[s]
  BY <1>2
<1>4. cache' \in Key /\ cache' # NoKey /\ cache' \in built' /\ built' \subseteq Key
  BY <1>1, <1>2
<1>5. TypeOK'
  BY <1>3, <1>4 DEF IInv, TypeOK
<1>6. (\A s \in Requests : RequestOK(rq[s]))'
  BY <1>2, <1>3, <1>4 DEF RequestOK, OnS3
<1>7. QED
  BY <1>4, <1>5, <1>6 DEF IInv, PointerComplete, OnS3

\* A request that ended, however it did.
LEMMA FinishStep ==
  ASSUME IInv, NEW r \in Requests, Finish(r, "answered") \/ Finish(r, "refused"),
         UNCHANGED <<profile, remote, disk, cache, moves, built>>,
         lock' \in Requests \cup {"free"}
  PROVE  IInv'
<1>1. ASSUME NEW how \in {"answered", "refused"}, Finish(r, how)
      PROVE  IInv'
  <2> DEFINE q == [IdleRequest EXCEPT !.pc = how]
  <2>1. how \in Pcs
    BY DEF Pcs
  <2>2. q \in Request /\ q.pc = how
    BY <2>1, IdleIsRequest, RequestFields
  <2>3. rq' = [rq EXCEPT ![r] = q]
    BY <1>1 DEF Finish
  <2> HIDE DEF q
  <2>4. QED
    BY <2>2, <2>3, QuietStep DEF Keyed
<1>2. QED
  BY <1>1

\* A request that goes to pc and carries what it has.
LEMMA GotoStep ==
  ASSUME IInv, NEW r \in Requests, NEW pc \in Pcs, Goto(r, pc),
         UNCHANGED <<profile, remote, disk, cache, moves, built>>,
         lock' \in Requests \cup {"free"},
         pc \notin {"list", "head", "truncated", "plant", "report"},
         pc \in Keyed => rq[r].key \in Key
  PROVE  IInv'
<1> DEFINE q == [rq[r] EXCEPT !.pc = pc]
<1>1. q \in Request /\ q.pc = pc /\ q.key = rq[r].key
  BY RequestFields DEF IInv, TypeOK
<1>2. rq' = [rq EXCEPT ![r] = q]
  BY DEF Goto
<1> HIDE DEF q
<1>3. QED
  BY <1>1, <1>2, QuietStep

\* The environment: publication goes on, and running requests witness it.
LEMMA PublishStep ==
  ASSUME IInv, NEW tree \in Tree, SourceBecomes(tree), tree.head # Torn,
         Source.releases \subseteq tree.releases,
         tree.static = Source.static \/ tree.static \in tree.releases,
         UNCHANGED <<profile, cache, lock, built>>,
         moves' \in 0 .. MaxMoves[profile],
         \/ UNCHANGED rq
         \/ \E v \in 0 .. MaxVersion, s \in ReleaseIds : Witnessed(v, s)
  PROVE  IInv'
<1>1. /\ rq' \in [Requests -> Request]
      /\ \A r \in Requests : /\ rq'[r].pc = rq[r].pc /\ rq'[r].static = rq[r].static
                             /\ rq'[r].key = rq[r].key
  <2>1. CASE UNCHANGED rq
    BY <2>1 DEF IInv, TypeOK
  <2>2. ASSUME NEW v \in 0 .. MaxVersion, NEW s \in ReleaseIds, Witnessed(v, s)
        PROVE  <1>1
    <3> DEFINE Seen(r) == [rq[r] EXCEPT !.vs = @ \cup {v}, !.rs = @ \cup {s}, !.moved = @ + 1]
    <3>1. \A r \in Requests : /\ rq[r] \in Request
                              /\ Seen(r) \in Request
                              /\ Seen(r).pc = rq[r].pc /\ Seen(r).static = rq[r].static
                              /\ Seen(r).key = rq[r].key
      <4>1. ASSUME NEW r \in Requests
            PROVE  /\ rq[r] \in Request
                   /\ rq[r].vs \cup {v} \in SUBSET (0 .. MaxVersion)
                   /\ rq[r].rs \cup {s} \in SUBSET ReleaseIds
                   /\ rq[r].moved + 1 \in Nat
        BY DEF IInv, TypeOK, Request
      <4> TAKE r \in Requests
      <4> DEFINE q == rq[r]
                 vs == q.vs \cup {v}
                 rs == q.rs \cup {s}
                 n == q.moved + 1
      <4>2. Seen(r) = [q EXCEPT !.vs = vs, !.rs = rs, !.moved = n]
        OBVIOUS
      <4>3. q \in Request /\ vs \in SUBSET (0 .. MaxVersion) /\ rs \in SUBSET ReleaseIds /\ n \in Nat
        BY <4>1
      <4> HIDE DEF q, vs, rs, n, Seen
      <4>4. Seen(r) \in Request /\ Seen(r).pc = q.pc /\ Seen(r).static = q.static /\ Seen(r).key = q.key
        BY <4>2, <4>3 DEF Request
      <4>5. QED
        BY <4>3, <4>4 DEF q
    <3>2. rq' = [r \in Requests |-> IF Running(r) THEN Seen(r) ELSE rq[r]]
      BY <2>2 DEF Witnessed
    <3> HIDE DEF Seen
    <3>3. QED
      BY <3>1, <3>2
  <2>3. QED
    BY <2>1, <2>2
<1>2. /\ remote' \in Tree /\ disk' \in Tree /\ disk.releases \subseteq disk'.releases
      /\ disk'.static = disk.static \/ disk'.static \in disk'.releases
      /\ remote'.head # Torn /\ (OnS3 \/ disk'.head # Torn)
  BY DEF SourceBecomes, Source, OnS3, IInv, TypeOK
<1>3. TypeOK'
  BY <1>1, <1>2 DEF IInv, TypeOK
<1>4. PointerComplete'
  BY <1>2 DEF IInv, PointerComplete
<1>5. (\A r \in Requests : RequestOK(rq[r]))'
  BY <1>1, <1>2 DEF IInv, RequestOK, OnS3
<1>6. QED
  BY <1>2, <1>3, <1>4, <1>5 DEF IInv, OnS3

\* A process starts with no request and an empty cache.
LEMMA InvInit == Init => IInv
<1> SUFFICES ASSUME Init PROVE IInv
  OBVIOUS
<1>1. EmptyTree \in Tree /\ EmptyTree.head = 0 /\ EmptyTree.static = NoRelease
  BY ServingConstants DEF EmptyTree, Tree, Versions, ReleaseIds, Torn
<1>2. \A tree \in FirstTrees : tree \in Tree /\ tree.head \in {0, 1} /\ tree.static = NoRelease
  <2>1. ASSUME NEW tree \in FirstTrees
        PROVE  /\ tree \in [head : {0, 1}, index : {{}, {1}}, lance : {{}, {1}},
                            static : {NoRelease}, releases : {Releases}]
    BY <2>1 DEF FirstTrees, EmptyTree
  <2>2. 1 \in Versions /\ {0, 1} \subseteq Torn .. MaxVersion
    BY ServingConstants DEF Versions, Torn
  <2>3. QED
    BY <2>1, <2>2 DEF Tree, ReleaseIds
<1>3. /\ remote \in Tree /\ remote.head \in {0, 1}
      /\ disk \in Tree /\ disk.head \in {0, 1} /\ disk.static = NoRelease
  BY <1>1, <1>2 DEF Init
<1>4. TypeOK
  BY <1>3, IdleIsRequest, ServingConstants DEF Init, TypeOK
<1>5. IdleRequest.pc = "idle"
  BY DEF IdleRequest
<1>6. \A r \in Requests : RequestOK(rq[r])
  BY <1>5 DEF Init, RequestOK, Keyed
<1>7. QED
  BY <1>3, <1>4, <1>6 DEF IInv, Init, PointerComplete, Torn

\* What the invariant says of the tree a publisher writes to, and of a request.
LEMMA Parts ==
  ASSUME IInv
  PROVE  /\ Source \in Tree /\ Source.head \in 0 .. MaxVersion /\ Source.static \in ReleaseIds
         /\ remote \in Tree /\ disk \in Tree /\ lock \in Requests \cup {"free"}
         /\ remote.head \in 0 .. MaxVersion /\ remote.index \subseteq Versions
         /\ remote.lance \subseteq Versions /\ remote.static \in ReleaseIds
         /\ remote.releases \subseteq Releases
         /\ disk.static = NoRelease \/ disk.static \in disk.releases
         /\ \A r \in Requests : rq[r] \in Request /\ RequestOK(rq[r])
<1>1. /\ remote \in Tree /\ disk \in Tree /\ lock \in Requests \cup {"free"}
      /\ remote.head # Torn /\ (OnS3 \/ disk.head # Torn)
      /\ \A r \in Requests : rq[r] \in Request /\ RequestOK(rq[r])
      /\ disk.static = NoRelease \/ disk.static \in disk.releases
  BY DEF IInv, TypeOK, PointerComplete
<1>2. \A tree \in Tree : tree.head # Torn => tree.head \in 0 .. MaxVersion
  BY ServingConstants DEF Tree, Torn
<1>3. QED
  BY <1>1, <1>2 DEF Source, Tree

\* The publishers' steps.
LEMMA PublishKeeps == IInv /\ Publish => IInv'
<1> SUFFICES ASSUME IInv, Publish PROVE IInv'
  OBVIOUS
<1>p. /\ Source \in Tree /\ Source.head \in 0 .. MaxVersion /\ Source.static \in ReleaseIds
      /\ moves \in 0 .. MaxMoves[profile] /\ MaxMoves[profile] \in Nat
  BY Parts, ServingConstants DEF IInv, TypeOK
<1>1. ASSUME NEW v \in Versions, UploadLance(v) PROVE IInv'
  <2> DEFINE tree == [Source EXCEPT !.lance = @ \cup {v}]
  <2>1. /\ tree \in Tree /\ tree.head = Source.head /\ tree.static = Source.static
        /\ tree.releases = Source.releases
    BY <1>p DEF Tree
  <2>2. SourceBecomes(tree) /\ UNCHANGED <<profile, cache, lock, rq, moves, built>>
    BY <1>1 DEF UploadLance
  <2> HIDE DEF tree
  <2>3. QED
    BY <1>p, <2>1, <2>2, PublishStep DEF Torn
<1>2. ASSUME NEW v \in Versions, UploadIndex(v) PROVE IInv'
  <2> DEFINE tree == [Source EXCEPT !.index = @ \cup {v}]
  <2>1. /\ tree \in Tree /\ tree.head = Source.head /\ tree.static = Source.static
        /\ tree.releases = Source.releases
    BY <1>p DEF Tree
  <2>2. SourceBecomes(tree) /\ UNCHANGED <<profile, cache, lock, rq, moves, built>>
    BY <1>2 DEF UploadIndex
  <2> HIDE DEF tree
  <2>3. QED
    BY <1>p, <2>1, <2>2, PublishStep DEF Torn
<1>3. ASSUME NEW v \in Versions, MoveHead(v) PROVE IInv'
  <2> DEFINE tree == [Source EXCEPT !.head = v]
  <2>0. v \in 0 .. MaxVersion /\ v \in Torn .. MaxVersion /\ v # Torn
    BY ServingConstants DEF Versions, Torn
  <2>1. /\ tree \in Tree /\ tree.head = v /\ tree.static = Source.static
        /\ tree.releases = Source.releases
    BY <1>p, <2>0 DEF Tree
  <2>2. /\ SourceBecomes(tree) /\ UNCHANGED <<profile, cache, lock, built>>
        /\ Witnessed(v, Source.static) /\ moves' \in 0 .. MaxMoves[profile]
    BY <1>p, <1>3 DEF MoveHead
  <2> HIDE DEF tree
  <2>3. QED
    BY <1>p, <2>0, <2>1, <2>2, PublishStep
<1>4. ASSUME NEW s \in Releases, MoveStaticHead(s) PROVE IInv'
  <2> DEFINE tree == [Source EXCEPT !.static = s]
  <2>1. /\ tree \in Tree /\ tree.head = Source.head /\ tree.static = s
        /\ tree.releases = Source.releases /\ s \in ReleaseIds /\ s \in Source.releases
    BY <1>p, <1>4 DEF Tree, ReleaseIds, MoveStaticHead
  <2>2. /\ SourceBecomes(tree) /\ UNCHANGED <<profile, cache, lock, built>>
        /\ Witnessed(Source.head, s) /\ moves' \in 0 .. MaxMoves[profile]
    BY <1>p, <1>4 DEF MoveStaticHead
  <2> HIDE DEF tree
  <2>3. QED
    BY <1>p, <2>1, <2>2, PublishStep DEF Torn
<1>5. QED
  BY <1>1, <1>2, <1>3, <1>4 DEF Publish

\* Some version of a set of them is the first.
LEMMA FirstVersion ==
  ASSUME NEW S \in SUBSET Versions, S # {}
  PROVE  \E v \in S : \A w \in S : v <= w
<1> DEFINE R == OpToRel(<, Nat)
<1>1. S \subseteq Nat
  BY DEF Versions
<1>2. \E v \in S : \A w \in S : ~(<<w, v>> \in R)
  BY <1>1, NatLessThanWellFounded, WFMin
<1>3. ASSUME NEW v \in Nat, NEW w \in Nat, w < v
      PROVE  <<w, v>> \in R
  <2>1. <<w, v>> \in Nat \X Nat /\ <<w, v>>[1] < <<w, v>>[2]
    BY <1>3
  <2>2. QED
    BY <2>1 DEF OpToRel
<1> HIDE DEF R
<1>4. PICK v \in S : \A w \in S : ~(<<w, v>> \in R)
  BY <1>2
<1>5. ASSUME NEW w \in S PROVE v <= w
  <2>1. v \in Nat /\ w \in Nat /\ ~(<<w, v>> \in R)
    BY <1>1, <1>4
  <2>2. ~(w < v)
    BY <1>3, <2>1
  <2>3. QED
    BY <2>1, <2>2
<1>6. QED
  BY <1>5

\* The steps of a sync, and its failure.
LEMMA SyncKeeps ==
  ASSUME IInv, NEW r \in Requests, Sync(r) \/ SyncFails(r)
  PROVE  IInv'
<1>p. /\ rq[r] \in Request /\ RequestOK(rq[r]) /\ lock \in Requests \cup {"free"}
      /\ remote \in Tree /\ disk \in Tree
      /\ remote.head \in 0 .. MaxVersion /\ remote.index \subseteq Versions
      /\ remote.lance \subseteq Versions /\ remote.static \in ReleaseIds
      /\ remote.releases \subseteq Releases
  BY Parts
<1>s. Synced(r) \in {"gate", "version"}
  BY DEF Synced
<1>1. CASE ListIndex(r)
  <2> DEFINE pc == IF remote.head = 0 THEN "index" ELSE "head"
             q == [rq[r] EXCEPT !.todo = remote.index, !.pc = pc]
  <2>1. pc \in {"index", "head"} /\ OnS3
    BY <1>1, <1>p DEF ListIndex, At, RequestOK
  <2>2. rq' = [rq EXCEPT ![r] = q] /\ UNCHANGED <<profile, remote, disk, cache, lock, moves, built>>
    BY <1>1 DEF ListIndex
  <2> HIDE DEF pc
  <2>3. q \in Request /\ q.pc = pc
    BY <1>p, <2>1 DEF Request
  <2> HIDE DEF q
  <2>4. QED
    BY <1>p, <2>1, <2>2, <2>3, QuietStep DEF Keyed
<1>2. CASE GetHead(r)
  <2> DEFINE q == [rq[r] EXCEPT !.got = remote.head, !.pc = "truncated"]
             d == [disk EXCEPT !.head = Torn]
  <2>1. q \in Request /\ q.pc = "truncated"
    BY <1>p DEF Request
  <2>2. d \in Tree /\ d.static = disk.static /\ d.releases = disk.releases
    BY <1>p, ServingConstants DEF Tree, Torn
  <2>3. /\ rq' = [rq EXCEPT ![r] = q] /\ disk' = d /\ OnS3
        /\ UNCHANGED <<profile, remote, cache, lock, moves, built>>
    BY <1>2, <1>p DEF GetHead, At, RequestOK
  <2> HIDE DEF q, d
  <2>4. QED
    BY <1>p, <2>1, <2>2, <2>3, DiskStep DEF Keyed
<1>3. CASE WriteHead(r)
  <2> DEFINE q == [rq[r] EXCEPT !.pc = "index"]
             d == [disk EXCEPT !.head = rq[r].got]
  <2>1. q \in Request /\ q.pc = "index" /\ rq[r].got \in Torn .. MaxVersion
    BY <1>p, ServingConstants DEF Request, Torn
  <2>2. d \in Tree /\ d.static = disk.static /\ d.releases = disk.releases
    BY <1>p, <2>1 DEF Tree
  <2>3. /\ rq' = [rq EXCEPT ![r] = q] /\ disk' = d /\ OnS3
        /\ UNCHANGED <<profile, remote, cache, lock, moves, built>>
    BY <1>3, <1>p DEF WriteHead, Goto, At, RequestOK
  <2> HIDE DEF q, d
  <2>4. QED
    BY <1>p, <2>1, <2>2, <2>3, DiskStep DEF Keyed
<1>4. CASE CopyIndex(r) \/ CopyLance(r)
  <2> DEFINE v == NextListed(r)
             q == [rq[r] EXCEPT !.todo = @ \ {v}]
  <2>1. q \in Request /\ q.pc = rq[r].pc
    BY <1>p DEF Request
  <2>2. v \in Versions
    <3>1. rq[r].todo \in SUBSET Versions /\ rq[r].todo # {}
      BY <1>4, <1>p DEF Request, CopyIndex, CopyLance
    <3>2. \A S \in SUBSET Versions : S # {} => \E m \in S : \A w \in S : m <= w
      BY FirstVersion
    <3>3. QED
      BY <3>1, <3>2 DEF NextListed
  <2>3. /\ rq' = [rq EXCEPT ![r] = q] /\ rq[r].pc \in {"index", "lance"}
        /\ UNCHANGED <<profile, remote, cache, lock, moves, built>>
    BY <1>4 DEF CopyIndex, CopyLance, At
  <2> HIDE DEF v
  <2>4. /\ disk' \in Tree /\ disk'.static = disk.static /\ disk'.releases = disk.releases
        /\ disk'.head = disk.head
    <3>1. \/ disk' = [disk EXCEPT !.index = @ \cup {v}]
          \/ disk' = [disk EXCEPT !.lance = @ \cup {v}]
      BY <1>4 DEF CopyIndex, CopyLance, v
    <3>2. QED
      BY <1>p, <2>2, <3>1 DEF Tree
  <2> HIDE DEF q
  <2>5. QED
    BY <1>p, <2>1, <2>3, <2>4, DiskStep DEF Keyed
<1>5. CASE ListLance(r)
  <2> DEFINE q == [rq[r] EXCEPT !.todo = remote.lance, !.pc = "lance"]
  <2>1. q \in Request /\ q.pc = "lance"
    BY <1>p DEF Request
  <2>2. rq' = [rq EXCEPT ![r] = q] /\ UNCHANGED <<profile, remote, disk, cache, lock, moves, built>>
    BY <1>5 DEF ListLance
  <2> HIDE DEF q
  <2>3. QED
    BY <1>p, <2>1, <2>2, QuietStep DEF Keyed
<1>6. CASE ReadStaticHead(r)
  <2>1. PICK pc \in {"gate", "version", "plant", "pull"} :
          /\ pc = "plant" => remote.static \in disk.releases
          /\ rq' = [rq EXCEPT ![r].static = remote.static, ![r].pc = pc]
    <3>1. CASE remote.static = NoRelease
      <4>1. remote.static \notin disk.releases
        BY <1>p, <3>1, ServingConstants DEF Tree
      <4>2. QED
        BY <1>6, <1>s, <3>1, <4>1 DEF ReadStaticHead
    <3>2. CASE remote.static # NoRelease /\ remote.static \in disk.releases
      BY <1>6, <3>2 DEF ReadStaticHead
    <3>3. CASE remote.static # NoRelease /\ remote.static \notin disk.releases
      BY <1>6, <3>3 DEF ReadStaticHead
    <3>4. QED
      BY <3>1, <3>2, <3>3
  <2> DEFINE q == [rq[r] EXCEPT !.static = remote.static, !.pc = pc]
  <2>2. rq' = [rq EXCEPT ![r] = q] /\ UNCHANGED <<profile, remote, disk, cache, lock, moves, built>>
    BY <1>6, <2>1 DEF ReadStaticHead
  <2>3. q \in Request /\ q.pc = pc /\ q.static = remote.static
    BY <1>p, <2>1 DEF Request
  <2> HIDE DEF q
  <2>4. QED
    BY <1>p, <2>1, <2>2, <2>3, QuietStep DEF Keyed
<1>7. CASE PullRelease(r)
  <2> DEFINE q == [rq[r] EXCEPT !.pc = "plant"]
             d == [disk EXCEPT !.releases = @ \cup {rq[r].static}]
  <2>1. q \in Request /\ q.pc = "plant" /\ q.static = rq[r].static
    BY <1>p DEF Request
  <2>2. /\ d \in Tree /\ d.static = disk.static /\ d.head = disk.head
        /\ d.releases = disk.releases \cup {rq[r].static}
    BY <1>7, <1>p DEF Tree, PullRelease
  <2>3. /\ rq' = [rq EXCEPT ![r] = q] /\ disk' = d
        /\ UNCHANGED <<profile, remote, cache, lock, moves, built>>
    BY <1>7 DEF PullRelease, Goto
  <2> HIDE DEF q, d
  <2>4. QED
    BY <1>p, <2>1, <2>2, <2>3, DiskStep DEF Keyed
<1>8. CASE PlantPointer(r)
  <2> DEFINE q == [rq[r] EXCEPT !.pc = Synced(r)]
             d == [disk EXCEPT !.static = rq[r].static]
  <2>1. q \in Request /\ q.pc \in {"gate", "version"}
    BY <1>p, <1>s DEF Request
  <2>2. rq[r].static \in disk.releases /\ rq[r].static \in ReleaseIds
    BY <1>8, <1>p DEF PlantPointer, At, RequestOK, Request
  <2>3. /\ d \in Tree /\ d.static = rq[r].static /\ d.head = disk.head
        /\ d.releases = disk.releases
    BY <1>p, <2>2 DEF Tree
  <2>4. /\ rq' = [rq EXCEPT ![r] = q] /\ disk' = d
        /\ UNCHANGED <<profile, remote, cache, lock, moves, built>>
    BY <1>8 DEF PlantPointer, Goto
  <2> HIDE DEF q, d
  <2>5. QED
    BY <1>p, <2>1, <2>2, <2>3, <2>4, DiskStep DEF Keyed
<1>9. CASE SyncFails(r)
  BY <1>9, <1>p, FinishStep DEF SyncFails, Fail
<1>10. QED
  BY <1>1, <1>2, <1>3, <1>4, <1>5, <1>6, <1>7, <1>8, <1>9 DEF Sync

\* A request begins.
LEMMA BeginKeeps ==
  ASSUME IInv, NEW r \in Requests, NEW kind \in {"query", "health"}, Begin(r, kind)
  PROVE  IInv'
<1> DEFINE pc == IF OnS3 THEN "list" ELSE "version"
           q == [IdleRequest EXCEPT !.pc = pc, !.kind = kind, !.vs = {Source.head},
                                    !.rs = {Source.static}]
<1>1. rq' = [rq EXCEPT ![r] = q] /\ UNCHANGED <<profile, remote, disk, cache, lock, moves, built>>
  BY DEF Begin
<1>2. pc \in {"list", "version"} /\ (pc = "list" => OnS3)
  OBVIOUS
<1> HIDE DEF pc
<1>3. q \in Request /\ q.pc = pc
  BY <1>2, Parts, IdleIsRequest DEF Request
<1> HIDE DEF q
<1>4. QED
  BY <1>1, <1>2, <1>3, Parts, QuietStep DEF Keyed

\* The handler of a request: its key, the cached one, bootstrap under the mutex.
LEMMA ResolveKeeps ==
  ASSUME IInv, NEW r \in Requests, Resolve(r)
  PROVE  IInv'
<1>p. /\ rq[r] \in Request /\ RequestOK(rq[r]) /\ lock \in Requests \cup {"free"}
      /\ disk \in Tree /\ disk.static \in ReleaseIds
  BY Parts DEF Tree
<1>t. /\ cache \in Key \cup {NoKey} /\ built \subseteq Key /\ cache # NoKey => cache \in built
      /\ disk.static = NoRelease \/ disk.static \in disk.releases
  BY Parts DEF IInv, TypeOK
<1>n. NoKey \notin Key /\ NoRelease \in ReleaseIds
  BY DEF NoKey, Key, Versions, ReleaseIds
<1>s. Resolved(r) \in {"search", "report"}
  BY DEF Resolved
<1>1. CASE HealthGate(r)
  <2>1. CASE Finish(r, "answered")
    BY <1>1, <1>p, <2>1, FinishStep DEF HealthGate
  <2>2. CASE Fail(r)
    BY <1>1, <1>p, <2>2, FinishStep DEF HealthGate, Fail
  <2>3. CASE Goto(r, "version")
    <3>1. "version" \in Pcs /\ "version" \notin Keyed
      BY DEF Pcs, Keyed
    <3>2. QED
      BY <1>1, <1>p, <2>3, <3>1, GotoStep DEF HealthGate
  <2>4. QED
    BY <1>1, <2>1, <2>2, <2>3 DEF HealthGate
<1>2. CASE LoadVersion(r)
  <2>1. CASE ActiveVersion \in Versions
    <3> DEFINE k == [version |-> ActiveVersion, release |-> NoRelease]
               q == [rq[r] EXCEPT !.key = k, !.pc = "release"]
    <3>1. k \in Key
      BY <1>n, <2>1 DEF Key
    <3>2. rq' = [rq EXCEPT ![r] = q] /\ UNCHANGED <<profile, remote, disk, cache, lock, moves, built>>
      BY <1>2, <2>1 DEF LoadVersion
    <3> HIDE DEF k
    <3>3. q \in Request /\ q.pc = "release" /\ q.key = k
      BY <1>p, <3>1 DEF Request
    <3> HIDE DEF q
    <3>4. QED
      BY <1>p, <3>1, <3>2, <3>3, QuietStep
  <2>2. CASE ActiveVersion \notin Versions
    BY <1>2, <1>p, <2>2, FinishStep DEF LoadVersion, Fail
  <2>3. QED
    BY <2>1, <2>2
<1>3. CASE LoadRelease(r)
  <2> DEFINE k == [rq[r].key EXCEPT !.release = ActiveRelease]
             q == [rq[r] EXCEPT !.key = k, !.pc = "lock"]
  <2>1. rq[r].key \in Key
    BY <1>3, <1>p DEF LoadRelease, At, RequestOK, Keyed
  <2>2. k \in Key
    BY <1>p, <2>1 DEF Key, ActiveRelease, ReleaseFile, ReleaseRow
  <2>3. rq' = [rq EXCEPT ![r] = q] /\ UNCHANGED <<profile, remote, disk, cache, lock, moves, built>>
    BY <1>3 DEF LoadRelease
  <2> HIDE DEF k
  <2>4. q \in Request /\ q.pc = "lock" /\ q.key = k
    BY <1>p, <2>2 DEF Request
  <2> HIDE DEF q
  <2>5. QED
    BY <1>p, <2>2, <2>3, <2>4, QuietStep
<1>4. CASE CacheHit(r)
  <2> DEFINE pc == Resolved(r)
             q == [rq[r] EXCEPT !.key = cache, !.pc = pc]
  <2>1. cache \in Key /\ cache # NoKey
    BY <1>4, <1>n, <1>p DEF CacheHit, Hits, At, RequestOK, Keyed
  <2>2. rq' = [rq EXCEPT ![r] = q] /\ UNCHANGED <<profile, remote, disk, cache, lock, moves, built>>
    BY <1>4 DEF CacheHit
  <2> HIDE DEF pc
  <2>3. q \in Request /\ q.pc = pc /\ q.key = cache
    BY <1>p, <1>s, <2>1 DEF Request, pc
  <2> HIDE DEF q
  <2>4. QED
    BY <1>p, <1>s, <2>1, <2>2, <2>3, QuietStep DEF pc
<1>5. CASE CacheMiss(r)
  <2>1. rq[r].key \in Key /\ "manifest" \in Pcs /\ lock' \in Requests \cup {"free"}
    BY <1>5, <1>p DEF CacheMiss, At, RequestOK, Keyed, Pcs
  <2>2. QED
    BY <1>5, <2>1, GotoStep DEF CacheMiss
<1>6. CASE BootstrapRetry(r)
  <2> DEFINE q == [rq[r] EXCEPT !.pc = "version", !.retried = TRUE]
  <2>1. q \in Request /\ q.pc = "version"
    BY <1>p DEF Request
  <2>2. /\ rq' = [rq EXCEPT ![r] = q] /\ lock' = "free"
        /\ UNCHANGED <<profile, remote, disk, cache, moves, built>>
    BY <1>6 DEF BootstrapRetry
  <2> HIDE DEF q
  <2>3. QED
    BY <2>1, <2>2, QuietStep DEF Keyed
<1>7. CASE BootstrapFails(r)
  BY <1>7, FinishStep DEF BootstrapFails, Fail
<1>8. CASE FreezeManifest(r)
  <2>1. rq[r].key \in Key /\ "load" \in Pcs
    BY <1>8, <1>p DEF FreezeManifest, At, RequestOK, Keyed, Pcs
  <2>2. QED
    BY <1>8, <1>p, <2>1, GotoStep DEF FreezeManifest
<1>9. CASE LoadStatic(r)
  <2> DEFINE pc == Resolved(r)
             q == [rq[r] EXCEPT !.pc = pc]
  <2>1. CASE rq[r].key.release \in disk.releases \cup {NoRelease}
    <3>1. rq[r].key \in Key
      BY <1>9, <1>p DEF LoadStatic, At, RequestOK, Keyed
    <3>2. /\ rq' = [rq EXCEPT ![r] = q] /\ UNCHANGED <<profile, remote, disk, moves>>
          /\ lock' = "free" /\ cache' = rq[r].key /\ built' = built \cup {rq[r].key}
      BY <1>9, <2>1 DEF LoadStatic, Goto
    <3> HIDE DEF pc
    <3>3. q \in Request /\ q.pc = pc /\ q.key = rq[r].key
      BY <1>p, <1>s DEF Request, pc
    <3>4. pc \in {"search", "report"}
      BY <1>s DEF pc
    <3> HIDE DEF q
    <3>5. QED
      BY <3>1, <3>2, <3>3, <3>4, CacheStep
  <2>2. CASE rq[r].key.release \notin disk.releases \cup {NoRelease}
    BY <1>9, <2>2, FinishStep DEF LoadStatic, Fail
  <2>3. QED
    BY <2>1, <2>2
<1>10. QED
  BY <1>1, <1>2, <1>3, <1>4, <1>5, <1>6, <1>7, <1>8, <1>9 DEF Resolve

\* The process dies: the cache, the mutex and the requests go with it.
LEMMA RestartKeeps == IInv /\ Restart => IInv'
<1> SUFFICES ASSUME IInv, Restart PROVE IInv'
  OBVIOUS
<1>1. IdleRequest.pc = "idle"
  BY DEF IdleRequest
<1>2. TypeOK'
  BY IdleIsRequest DEF IInv, TypeOK, Restart
<1>3. (\A r \in Requests : RequestOK(rq[r]))'
  BY <1>1 DEF Restart, RequestOK, Keyed
<1>4. QED
  BY <1>2, <1>3 DEF IInv, Restart, PointerComplete, OnS3

\* Every step keeps the invariant.
LEMMA InvNext == IInv /\ [Next]_vars => IInv'
<1> SUFFICES ASSUME IInv, [Next]_vars PROVE IInv'
  OBVIOUS
<1>1. CASE Publish
  BY <1>1, PublishKeeps
<1>2. ASSUME NEW r \in Requests, NEW kind \in {"query", "health"}, Begin(r, kind) PROVE IInv'
  BY <1>2, BeginKeeps
<1>3. ASSUME NEW r \in Requests, Serve(r) PROVE IInv'
  <2>1. CASE Sync(r)
    BY <2>1, SyncKeeps
  <2>2. CASE Resolve(r)
    BY <2>2, ResolveKeeps
  <2>3. CASE Answer(r)
    BY <2>3, Parts, FinishStep DEF Answer
  <2>4. CASE SearchFails(r)
    BY <2>4, Parts, FinishStep DEF SearchFails, Fail
  <2>5. CASE Report(r)
    BY <2>5, Parts, FinishStep DEF Report
  <2>6. QED
    BY <1>3, <2>1, <2>2, <2>3, <2>4, <2>5 DEF Serve
<1>4. ASSUME NEW r \in Requests, SyncFails(r) PROVE IInv'
  BY <1>4, SyncKeeps
<1>5. CASE Restart
  BY <1>5, RestartKeeps
<1>6. CASE UNCHANGED vars
  BY <1>6 DEF vars, IInv, TypeOK, PointerComplete, RequestOK, OnS3
<1>7. QED
  BY <1>1, <1>2, <1>3, <1>4, <1>5, <1>6 DEF Next

\* The trees, the heads, the cache and the requests of a process stay well formed.
THEOREM ServingTypeCorrect == Spec => []TypeOK
<1>1. IInv => TypeOK
  BY DEF IInv
<1>2. QED
  BY InvInit, InvNext, <1>1, PTL DEF Spec

\* sync_static_release: the planted pointer names a release that is on disk whole,
\* whatever syncs ran beside each other, failed, or died with the process.
THEOREM PointerAlwaysComplete == Spec => []PointerComplete
<1>1. IInv => PointerComplete
  BY DEF IInv
<1>2. QED
  BY InvInit, InvNext, <1>1, PTL DEF Spec

\* QueryService::cached_pair: /health reports a pair one handler was built for.
THEOREM HealthReportsBuiltPair == Spec => []HealthPairBuilt
<1>1. IInv => HealthPairBuilt
  BY DEF IInv, HealthPairBuilt, RequestOK, Reported, At
<1>2. QED
  BY InvInit, InvNext, <1>1, PTL DEF Spec

-------------------------------------------------------------------------------
(* Freshness: a Lambda process, and a process that shares the publisher's
   directory, answer from a version and a release that were active while the
   request ran. *)

Syncing == {"list", "head", "truncated", "index", "lance", "pull", "plant"}
Resolving == {"gate", "version"} \cup Keyed

Active(q) == q.pc \notin {"idle", "answered", "refused"}

\* What a running request has witnessed, when d is the tree on disk: the heads at
\* their source, then each head it copied, then each half of its key.
Fresh(q, d) ==
  /\ (IF OnS3 THEN remote ELSE d).head \in q.vs /\ (IF OnS3 THEN remote ELSE d).static \in q.rs
  /\ q.pc \in Syncing => OnS3
  /\ q.pc \in {"head", "truncated"} => remote.head # 0
  /\ q.pc = "truncated" => q.got \in q.vs
  /\ q.pc \in {"index", "lance", "pull", "plant"} \cup Resolving => d.head \in q.vs
  /\ q.pc \in {"pull", "plant"} => q.static \in q.rs /\ remote.static # NoRelease
  /\ q.pc \in Resolving => d.static \in q.rs
  /\ q.pc \in Keyed => q.key.version \in q.vs
  /\ q.pc \in Keyed \ {"release"} => q.key.release \in q.rs

\* A Lambda process has one request, and a head on disk only of one that was published.
FInv ==
  /\ profile = "lambda" =>
       /\ \A r, s \in Requests : Active(rq[r]) /\ Active(rq[s]) => r = s
       /\ remote.head = 0 => disk.head = 0
       /\ remote.static = NoRelease => disk.static = NoRelease
  /\ profile # "server" => \A r \in Requests : Active(rq[r]) => Fresh(rq[r], disk)

USE DEF Syncing, Resolving, Keyed

\* One request moves; it alone may write to the disk, and only if it syncs.
LEMMA FreshStep ==
  ASSUME IInv, FInv, NEW r \in Requests, NEW q \in Request, rq' = [rq EXCEPT ![r] = q],
         UNCHANGED <<profile, remote>>,
         disk' = disk \/ (OnS3 /\ Active(rq[r])),
         Active(rq[r]) \/ ~Active(q) \/ (profile = "lambda" => \A s \in Requests : ~Active(rq[s])),
         profile = "lambda" => /\ remote.head = 0 => disk'.head = 0
                               /\ remote.static = NoRelease => disk'.static = NoRelease,
         profile # "server" /\ Active(q) => Fresh(q, disk')
  PROVE  FInv'
<1>1. rq'[r] = q /\ \A s \in Requests \ {r} : rq'[s] = rq[s]
  BY DEF IInv, TypeOK
<1>2. ASSUME NEW s \in Requests, profile # "server", Active(rq'[s])
      PROVE  Fresh(rq[s], disk)'
  <2>1. CASE s = r
    BY <1>1, <1>2, <2>1 DEF Fresh, OnS3
  <2>2. CASE s # r
    <3>1. Fresh(rq[s], disk) /\ rq'[s] = rq[s]
      BY <1>1, <1>2, <2>2 DEF FInv
    <3>2. disk' = disk
      BY <1>1, <1>2, <2>2 DEF FInv, IInv, TypeOK, Profiles, OnS3
    <3>3. QED
      BY <3>1, <3>2 DEF Fresh, OnS3
  <2>3. QED
    BY <2>1, <2>2
<1>3. profile = "lambda" => \A s, t \in Requests : Active(rq'[s]) /\ Active(rq'[t]) => s = t
  BY <1>1 DEF FInv
<1>4. QED
  BY <1>2, <1>3 DEF FInv, Active

\* A request that ended has witnessed all it will.
LEMMA FreshEnd ==
  ASSUME IInv, FInv, NEW r \in Requests, Finish(r, "answered") \/ Finish(r, "refused"),
         UNCHANGED <<profile, remote, disk>>
  PROVE  FInv'
<1>1. ASSUME NEW how \in {"answered", "refused"}, Finish(r, how)
      PROVE  FInv'
  <2> DEFINE q == [IdleRequest EXCEPT !.pc = how]
  <2>1. how \in Pcs
    BY DEF Pcs
  <2>2. q \in Request /\ q.pc = how
    BY <2>1, IdleIsRequest, RequestFields
  <2>3. rq' = [rq EXCEPT ![r] = q]
    BY <1>1 DEF Finish
  <2> HIDE DEF q
  <2>4. ~Active(q)
    BY <2>2 DEF Active
  <2>5. profile = "lambda" => /\ remote.head = 0 => disk.head = 0
                              /\ remote.static = NoRelease => disk.static = NoRelease
    BY DEF FInv
  <2>6. QED
    BY <2>2, <2>3, <2>4, <2>5, FreshStep
<1>2. QED
  BY <1>1

\* A request that moves on and leaves the disk alone.
LEMMA FreshMove ==
  ASSUME IInv, FInv, NEW r \in Requests, NEW q \in Request, rq' = [rq EXCEPT ![r] = q],
         UNCHANGED <<profile, remote, disk>>, Active(rq[r]),
         profile # "server" => Fresh(q, disk)
  PROVE  FInv'
<1>1. profile = "lambda" => /\ remote.head = 0 => disk.head = 0
                            /\ remote.static = NoRelease => disk.static = NoRelease
  BY DEF FInv
<1>2. QED
  BY <1>1, FreshStep

\* What publication makes of the tree at its source, and of the running requests.
Moved(tree) ==
  /\ SourceBecomes(tree) /\ UNCHANGED profile
  /\ tree.head = Source.head \/ tree.head # 0
  /\ tree.static = Source.static \/ tree.static # NoRelease
  /\ \/ UNCHANGED rq /\ tree.head = Source.head /\ tree.static = Source.static
     \/ Witnessed(tree.head, tree.static)

LEMMA PublishMoves == ASSUME IInv, Publish PROVE \E tree : Moved(tree)
<1>p. Source \in Tree
  BY Parts
<1>1. ASSUME NEW v \in Versions, UploadLance(v) PROVE \E tree : Moved(tree)
  <2> DEFINE tree == [Source EXCEPT !.lance = @ \cup {v}]
  <2>1. tree.head = Source.head /\ tree.static = Source.static
    BY <1>p DEF Tree
  <2>2. SourceBecomes(tree) /\ UNCHANGED <<profile, rq>>
    BY <1>1 DEF UploadLance
  <2> HIDE DEF tree
  <2>3. QED
    BY <2>1, <2>2 DEF Moved
<1>2. ASSUME NEW v \in Versions, UploadIndex(v) PROVE \E tree : Moved(tree)
  <2> DEFINE tree == [Source EXCEPT !.index = @ \cup {v}]
  <2>1. tree.head = Source.head /\ tree.static = Source.static
    BY <1>p DEF Tree
  <2>2. SourceBecomes(tree) /\ UNCHANGED <<profile, rq>>
    BY <1>2 DEF UploadIndex
  <2> HIDE DEF tree
  <2>3. QED
    BY <2>1, <2>2 DEF Moved
<1>3. ASSUME NEW v \in Versions, MoveHead(v) PROVE \E tree : Moved(tree)
  <2> DEFINE tree == [Source EXCEPT !.head = v]
  <2>1. tree.head = v /\ v # 0 /\ tree.static = Source.static
    BY <1>p DEF Tree, Versions
  <2>2. SourceBecomes(tree) /\ UNCHANGED profile /\ Witnessed(v, Source.static)
    BY <1>3 DEF MoveHead
  <2> HIDE DEF tree
  <2>3. QED
    BY <2>1, <2>2 DEF Moved
<1>4. ASSUME NEW s \in Releases, MoveStaticHead(s) PROVE \E tree : Moved(tree)
  <2> DEFINE tree == [Source EXCEPT !.static = s]
  <2>1. tree.head = Source.head /\ tree.static = s /\ s # NoRelease
    BY <1>p, ServingConstants DEF Tree
  <2>2. SourceBecomes(tree) /\ UNCHANGED profile /\ Witnessed(Source.head, s)
    BY <1>4 DEF MoveStaticHead
  <2> HIDE DEF tree
  <2>3. QED
    BY <2>1, <2>2 DEF Moved
<1>5. QED
  BY <1>1, <1>2, <1>3, <1>4 DEF Publish

\* The publishers move the heads and every running request witnesses it.
LEMMA FreshPublish ==
  ASSUME IInv, FInv, Publish
  PROVE  FInv'
<1>1. PICK tree : Moved(tree)
  BY PublishMoves
<1>2. UNCHANGED profile /\ IF OnS3 THEN remote' = tree /\ disk' = disk ELSE disk' = tree /\ remote' = remote
  BY <1>1 DEF Moved, SourceBecomes
<1>3. \A r \in Requests :
        /\ rq'[r].pc = rq[r].pc /\ rq'[r].got = rq[r].got /\ rq'[r].static = rq[r].static
        /\ rq'[r].key = rq[r].key
        /\ rq[r].vs \subseteq rq'[r].vs /\ rq[r].rs \subseteq rq'[r].rs
        /\ Active(rq[r]) => \/ tree.head \in rq'[r].vs /\ tree.static \in rq'[r].rs
                            \/ /\ rq'[r] = rq[r]
                               /\ tree.head = Source.head /\ tree.static = Source.static
  <2>1. CASE Witnessed(tree.head, tree.static)
    <3>1. \A r \in Requests : rq[r] \in Request
      BY Parts
    <3>2. ASSUME NEW r \in Requests, Active(rq[r])
          PROVE  /\ rq'[r].pc = rq[r].pc /\ rq'[r].got = rq[r].got /\ rq'[r].static = rq[r].static
                 /\ rq'[r].key = rq[r].key
                 /\ rq'[r].vs = rq[r].vs \cup {tree.head} /\ rq'[r].rs = rq[r].rs \cup {tree.static}
      <4>1. rq'[r] = [rq[r] EXCEPT !.vs = @ \cup {tree.head}, !.rs = @ \cup {tree.static}, !.moved = @ + 1]
        BY <2>1, <3>2 DEF Witnessed, Running, Active
      <4>2. rq[r] \in Request
        BY <3>1
      <4>3. QED
        BY <4>1, <4>2 DEF Request
    <3>3. ASSUME NEW r \in Requests, ~Active(rq[r])
          PROVE  rq'[r] = rq[r]
      BY <2>1, <3>3 DEF Witnessed, Running, Active
    <3>4. QED
      BY <3>2, <3>3
  <2>2. QED
    BY <1>1, <2>1 DEF Moved
<1>4. ASSUME NEW r \in Requests, profile # "server", Active(rq[r])
      PROVE  Fresh(rq[r], disk)'
  <2>1. Fresh(rq[r], disk)
    BY <1>4 DEF FInv
  <2>2. (IF OnS3 THEN remote ELSE disk).head \in rq[r].vs /\ (IF OnS3 THEN remote ELSE disk).static \in rq[r].rs
    BY <2>1 DEF Fresh
  <2>3. tree.head \in rq'[r].vs /\ tree.static \in rq'[r].rs
    BY <1>3, <1>4, <2>2 DEF Source
  <2>4. CASE OnS3
    BY <1>1, <1>2, <1>3, <2>1, <2>3, <2>4 DEF Fresh, OnS3, Moved, Source
  <2>5. CASE ~OnS3
    BY <1>2, <1>3, <2>1, <2>3, <2>5 DEF Fresh, OnS3
  <2>6. QED
    BY <2>4, <2>5
<1>5. profile = "lambda" => /\ remote'.head = 0 => disk'.head = 0
                            /\ remote'.static = NoRelease => disk'.static = NoRelease
  BY <1>1, <1>2 DEF FInv, OnS3, Moved, Source
<1>6. QED
  BY <1>2, <1>3, <1>4, <1>5 DEF FInv, Active

\* A sync copies heads that were active while it ran.
LEMMA FreshSync ==
  ASSUME IInv, FInv, NEW r \in Requests, Sync(r) \/ SyncFails(r)
  PROVE  FInv'
<1>p. /\ rq[r] \in Request /\ remote \in Tree /\ disk \in Tree
      /\ remote.head \in 0 .. MaxVersion /\ remote.static \in ReleaseIds /\ remote.lance \subseteq Versions
      /\ remote.index \subseteq Versions
  BY Parts
<1>a. SyncFails(r) \/ (/\ rq[r].pc \in Syncing /\ Active(rq[r])
                       /\ profile # "server" => OnS3 /\ Fresh(rq[r], disk))
  BY DEF FInv, Fresh, Active, Sync, ListIndex, GetHead, WriteHead, CopyIndex, ListLance, CopyLance,
         ReadStaticHead, PullRelease, PlantPointer, At
<1>l. /\ profile = "lambda" => /\ remote.head = 0 => disk.head = 0
                               /\ remote.static = NoRelease => disk.static = NoRelease
      /\ profile # "server" /\ OnS3 => profile = "lambda"
  BY DEF FInv, IInv, TypeOK, Profiles, OnS3
<1>s. Synced(r) \in {"gate", "version"}
  BY DEF Synced
<1>1. CASE ListIndex(r)
  <2> DEFINE pc == IF remote.head = 0 THEN "index" ELSE "head"
             q == [rq[r] EXCEPT !.todo = remote.index, !.pc = pc]
  <2>1. rq' = [rq EXCEPT ![r] = q] /\ UNCHANGED <<profile, remote, disk>> /\ Active(rq[r])
    BY <1>1, <1>a DEF ListIndex, Active, At
  <2>2. pc \in {"index", "head"} /\ (pc = "index" => remote.head = 0) /\ (pc = "head" => remote.head # 0)
    OBVIOUS
  <2> HIDE DEF pc
  <2>3. q \in Request /\ q.pc = pc /\ q.vs = rq[r].vs /\ q.rs = rq[r].rs
    BY <1>p, <2>2 DEF Request
  <2>4. ASSUME profile # "server" PROVE Fresh(q, disk)
    <3>1. Fresh(rq[r], disk) /\ OnS3 /\ (remote.head = 0 => disk.head = 0)
      BY <1>1, <1>a, <1>l, <2>4 DEF SyncFails, ListIndex, At, FInv, Active, Fresh
    <3> HIDE DEF q
    <3>2. QED
      BY <2>2, <2>3, <3>1 DEF Fresh
  <2> HIDE DEF q
  <2>5. QED
    BY <2>1, <2>3, <2>4, FreshMove
<1>2. CASE GetHead(r)
  <2> DEFINE q == [rq[r] EXCEPT !.got = remote.head, !.pc = "truncated"]
             d == [disk EXCEPT !.head = Torn]
  <2>1. /\ rq' = [rq EXCEPT ![r] = q] /\ disk' = d /\ UNCHANGED <<profile, remote>>
        /\ rq[r].pc = "head" /\ Active(rq[r])
    BY <1>2 DEF GetHead, At, Active
  <2>2. q \in Request /\ q.pc = "truncated" /\ q.got = remote.head /\ q.vs = rq[r].vs /\ q.rs = rq[r].rs
    BY <1>p DEF Request
  <2>3. d.static = disk.static
    BY <1>p DEF Tree
  <2>4. ASSUME profile # "server"
        PROVE  Fresh(q, d) /\ OnS3 /\ remote.head # 0 /\ (remote.static = NoRelease => d.static = NoRelease)
    <3>1. Fresh(rq[r], disk) /\ OnS3
      BY <2>1, <2>4 DEF FInv, Fresh
    <3>2. remote.head # 0
      BY <2>1, <3>1 DEF Fresh
    <3> HIDE DEF q, d
    <3>3. QED
      BY <1>l, <2>2, <2>3, <2>4, <3>1, <3>2 DEF Fresh
  <2> HIDE DEF q, d
  <2>5. OnS3
    BY <2>1, Parts DEF RequestOK
  <2>6. QED
    BY <2>1, <2>2, <2>4, <2>5, FreshStep
<1>3. CASE WriteHead(r)
  <2> DEFINE q == [rq[r] EXCEPT !.pc = "index"]
             d == [disk EXCEPT !.head = rq[r].got]
  <2>1. /\ rq' = [rq EXCEPT ![r] = q] /\ disk' = d /\ UNCHANGED <<profile, remote>>
        /\ rq[r].pc = "truncated" /\ Active(rq[r])
    BY <1>3 DEF WriteHead, At, Goto, Active
  <2>2. q \in Request /\ q.pc = "index" /\ q.vs = rq[r].vs /\ q.rs = rq[r].rs
    BY <1>p DEF Request
  <2>3. d.static = disk.static /\ d.head = rq[r].got
    BY <1>p DEF Tree
  <2>4. OnS3
    BY <2>1, Parts DEF RequestOK
  <2>5. profile # "server" => Fresh(rq[r], disk)
    BY <2>1 DEF FInv
  <2> HIDE DEF q, d
  <2>6. ASSUME profile # "server" PROVE Fresh(q, d)
    BY <2>1, <2>2, <2>3, <2>4, <2>5, <2>6 DEF Fresh
  <2>7. profile = "lambda" => /\ remote.head = 0 => d.head = 0
                              /\ remote.static = NoRelease => d.static = NoRelease
    BY <1>l, <2>1, <2>3, <2>5 DEF Fresh
  <2>8. QED
    BY <2>1, <2>2, <2>4, <2>6, <2>7, FreshStep
<1>4. CASE CopyIndex(r) \/ CopyLance(r)
  <2> DEFINE q == [rq[r] EXCEPT !.todo = @ \ {NextListed(r)}]
  <2>1. /\ rq' = [rq EXCEPT ![r] = q] /\ UNCHANGED <<profile, remote>>
        /\ rq[r].pc \in {"index", "lance"} /\ Active(rq[r])
    BY <1>4 DEF CopyIndex, CopyLance, At, Active
  <2>2. /\ q \in Request /\ q.pc = rq[r].pc /\ q.vs = rq[r].vs /\ q.rs = rq[r].rs
    BY <1>p DEF Request
  <2>3. disk'.static = disk.static /\ disk'.head = disk.head
    BY <1>4, <1>p DEF CopyIndex, CopyLance, Tree
  <2>4. profile # "server" => Fresh(rq[r], disk) /\ OnS3
    BY <1>a, <2>1 DEF FInv, Fresh
  <2> HIDE DEF q
  <2>5. ASSUME profile # "server" PROVE Fresh(q, disk')
    BY <2>1, <2>2, <2>3, <2>4, <2>5 DEF Fresh
  <2>6. profile = "server" => OnS3
    BY DEF OnS3
  <2>7. QED
    BY <1>l, <2>1, <2>2, <2>3, <2>4, <2>5, <2>6, FreshStep
<1>5. CASE ListLance(r)
  <2> DEFINE q == [rq[r] EXCEPT !.todo = remote.lance, !.pc = "lance"]
  <2>1. /\ rq' = [rq EXCEPT ![r] = q] /\ UNCHANGED <<profile, remote, disk>>
        /\ rq[r].pc = "index" /\ Active(rq[r])
    BY <1>5 DEF ListLance, At, Active
  <2>2. q \in Request /\ q.pc = "lance" /\ q.vs = rq[r].vs /\ q.rs = rq[r].rs
    BY <1>p DEF Request
  <2>3. profile # "server" => Fresh(rq[r], disk)
    BY <2>1 DEF FInv
  <2> HIDE DEF q
  <2>4. ASSUME profile # "server" PROVE Fresh(q, disk)
    BY <2>1, <2>2, <2>3, <2>4 DEF Fresh
  <2>5. QED
    BY <2>1, <2>2, <2>4, FreshMove
<1>6. CASE ReadStaticHead(r)
  <2>1. PICK pc \in {"gate", "version", "plant", "pull"} :
          /\ pc \in {"gate", "version"} <=> remote.static = NoRelease
          /\ rq' = [rq EXCEPT ![r].static = remote.static, ![r].pc = pc]
    <3>1. CASE remote.static = NoRelease
      <4>1. remote.static \notin disk.releases
        BY <1>p, <3>1, ServingConstants DEF Tree
      <4>2. QED
        BY <1>6, <1>s, <3>1, <4>1 DEF ReadStaticHead
    <3>2. CASE remote.static # NoRelease /\ remote.static \in disk.releases
      BY <1>6, <3>2 DEF ReadStaticHead
    <3>3. CASE remote.static # NoRelease /\ remote.static \notin disk.releases
      BY <1>6, <3>3 DEF ReadStaticHead
    <3>4. QED
      BY <3>1, <3>2, <3>3
  <2> DEFINE q == [rq[r] EXCEPT !.static = remote.static, !.pc = pc]
  <2>2. /\ rq' = [rq EXCEPT ![r] = q] /\ UNCHANGED <<profile, remote, disk>>
        /\ rq[r].pc = "lance" /\ Active(rq[r])
    BY <1>6, <2>1 DEF ReadStaticHead, At, Active
  <2>3. q \in Request /\ q.pc = pc /\ q.static = remote.static /\ q.vs = rq[r].vs /\ q.rs = rq[r].rs
    BY <1>p, <2>1 DEF Request
  <2>4. profile # "server" =>
          Fresh(rq[r], disk) /\ OnS3 /\ (remote.static = NoRelease => disk.static = NoRelease)
    BY <1>l, <2>2 DEF FInv, Fresh
  <2> HIDE DEF q
  <2>5. ASSUME profile # "server" PROVE Fresh(q, disk)
    BY <2>1, <2>2, <2>3, <2>4, <2>5 DEF Fresh
  <2>6. QED
    BY <2>2, <2>3, <2>5, FreshMove
<1>7. CASE PullRelease(r)
  <2> DEFINE q == [rq[r] EXCEPT !.pc = "plant"]
             d == [disk EXCEPT !.releases = @ \cup {rq[r].static}]
  <2>1. /\ rq' = [rq EXCEPT ![r] = q] /\ disk' = d /\ UNCHANGED <<profile, remote>>
        /\ rq[r].pc = "pull" /\ Active(rq[r])
    BY <1>7 DEF PullRelease, At, Goto, Active
  <2>2. /\ q \in Request /\ q.pc = "plant" /\ q.static = rq[r].static
        /\ q.vs = rq[r].vs /\ q.rs = rq[r].rs
    BY <1>p DEF Request
  <2>3. d.static = disk.static /\ d.head = disk.head
    BY <1>p DEF Tree
  <2>4. profile # "server" => Fresh(rq[r], disk) /\ OnS3
    BY <2>1 DEF FInv, Fresh
  <2> HIDE DEF q, d
  <2>5. ASSUME profile # "server" PROVE Fresh(q, d)
    BY <2>1, <2>2, <2>3, <2>4, <2>5 DEF Fresh
  <2>6. profile = "server" => OnS3
    BY DEF OnS3
  <2>7. QED
    BY <1>l, <2>1, <2>2, <2>3, <2>4, <2>5, <2>6, FreshStep
<1>8. CASE PlantPointer(r)
  <2> DEFINE q == [rq[r] EXCEPT !.pc = Synced(r)]
             d == [disk EXCEPT !.static = rq[r].static]
  <2>1. /\ rq' = [rq EXCEPT ![r] = q] /\ disk' = d /\ UNCHANGED <<profile, remote>>
        /\ rq[r].pc = "plant" /\ Active(rq[r])
    BY <1>8 DEF PlantPointer, At, Goto, Active
  <2>2. /\ q \in Request /\ q.pc \in {"gate", "version"} /\ q.vs = rq[r].vs /\ q.rs = rq[r].rs
    BY <1>p, <1>s DEF Request
  <2>3. d.static = rq[r].static /\ d.head = disk.head
    BY <1>p DEF Tree
  <2>4. profile # "server" => Fresh(rq[r], disk) /\ OnS3
    BY <2>1 DEF FInv, Fresh
  <2> HIDE DEF q, d
  <2>5. ASSUME profile # "server" PROVE Fresh(q, d)
    BY <2>1, <2>2, <2>3, <2>4, <2>5 DEF Fresh
  <2>6. profile = "server" => OnS3
    BY DEF OnS3
  <2>7. profile = "lambda" => /\ remote.head = 0 => d.head = 0
                              /\ remote.static = NoRelease => d.static = NoRelease
    BY <1>l, <2>1, <2>3, <2>4 DEF Fresh
  <2>8. QED
    BY <2>1, <2>2, <2>4, <2>5, <2>6, <2>7, FreshStep
<1>9. CASE SyncFails(r)
  BY <1>9, FreshEnd DEF SyncFails, Fail
<1>10. QED
  BY <1>1, <1>2, <1>3, <1>4, <1>5, <1>6, <1>7, <1>8, <1>9 DEF Sync

\* A request that goes on after its sync and has its key already, or loads it later.
LEMMA FreshGoto ==
  ASSUME IInv, FInv, NEW r \in Requests, NEW pc \in Resolving, Goto(r, pc),
         UNCHANGED <<profile, remote, disk>>, Active(rq[r]), rq[r].pc \in Resolving,
         pc \in Keyed => rq[r].pc \in Keyed,
         pc \in Keyed \ {"release"} => rq[r].pc \in Keyed \ {"release"}
  PROVE  FInv'
<1> DEFINE q == [rq[r] EXCEPT !.pc = pc]
<1>1. rq[r] \in Request /\ pc \in Pcs
  BY Parts DEF Pcs
<1>2. q \in Request /\ q.pc = pc /\ q.key = rq[r].key /\ q.vs = rq[r].vs /\ q.rs = rq[r].rs
  BY <1>1 DEF Request, Pcs
<1>3. rq' = [rq EXCEPT ![r] = q]
  BY DEF Goto
<1>4. profile # "server" => Fresh(rq[r], disk)
  BY DEF FInv
<1> HIDE DEF q
<1>5. ASSUME profile # "server" PROVE Fresh(q, disk)
  BY <1>2, <1>4, <1>5 DEF Fresh
<1>6. QED
  BY <1>2, <1>3, <1>5, FreshMove

\* The key is two reads of a disk whose heads were active while the request ran.
LEMMA FreshResolve ==
  ASSUME IInv, FInv, NEW r \in Requests, Resolve(r)
  PROVE  FInv'
<1>p. rq[r] \in Request /\ RequestOK(rq[r])
  BY Parts
<1>a. rq[r].pc \in Resolving /\ Active(rq[r]) /\ (profile # "server" => Fresh(rq[r], disk))
  BY DEF FInv, Active, Resolve, HealthGate, LoadVersion, LoadRelease, CacheHit, CacheMiss,
         BootstrapRetry, BootstrapFails, FreezeManifest, LoadStatic, At
<1>s. Resolved(r) \in {"search", "report"}
  BY DEF Resolved
<1>1. CASE HealthGate(r)
  <2>1. CASE Goto(r, "version")
    BY <1>1, <1>a, <2>1, FreshGoto DEF HealthGate
  <2>2. CASE Finish(r, "answered") \/ Fail(r)
    BY <1>1, <2>2, FreshEnd DEF HealthGate, Fail
  <2>3. QED
    BY <1>1, <2>1, <2>2 DEF HealthGate
<1>2. CASE LoadVersion(r)
  <2>1. CASE ActiveVersion \in Versions
    <3> DEFINE k == [version |-> ActiveVersion, release |-> NoRelease]
               q == [rq[r] EXCEPT !.key = k, !.pc = "release"]
    <3>1. k \in Key /\ k.version = disk.head
      BY <2>1 DEF Key, ReleaseIds, ActiveVersion, HeadFile, HeadRow, Versions
    <3>2. rq' = [rq EXCEPT ![r] = q] /\ UNCHANGED <<profile, remote, disk>>
      BY <1>2, <2>1 DEF LoadVersion
    <3> HIDE DEF k
    <3>3. q \in Request /\ q.pc = "release" /\ q.key = k /\ q.vs = rq[r].vs /\ q.rs = rq[r].rs
      BY <1>p, <3>1 DEF Request
    <3> HIDE DEF q
    <3>4. ASSUME profile # "server" PROVE Fresh(q, disk)
      BY <1>a, <3>1, <3>3, <3>4 DEF Fresh
    <3>5. QED
      BY <1>a, <3>2, <3>3, <3>4, FreshMove
  <2>2. CASE ActiveVersion \notin Versions
    BY <1>2, <2>2, FreshEnd DEF LoadVersion, Fail
  <2>3. QED
    BY <2>1, <2>2
<1>3. CASE LoadRelease(r)
  <2> DEFINE k == [rq[r].key EXCEPT !.release = ActiveRelease]
             q == [rq[r] EXCEPT !.key = k, !.pc = "lock"]
  <2>1. rq[r].key \in Key /\ rq[r].pc = "release" /\ disk.static \in ReleaseIds
    BY <1>3, <1>p, Parts DEF LoadRelease, At, RequestOK, Tree
  <2>2. k \in Key /\ k.release = disk.static /\ k.version = rq[r].key.version
    BY <2>1 DEF Key, ActiveRelease, ReleaseFile, ReleaseRow
  <2>3. rq' = [rq EXCEPT ![r] = q] /\ UNCHANGED <<profile, remote, disk>>
    BY <1>3 DEF LoadRelease
  <2> HIDE DEF k
  <2>4. q \in Request /\ q.pc = "lock" /\ q.key = k /\ q.vs = rq[r].vs /\ q.rs = rq[r].rs
    BY <1>p, <2>2 DEF Request
  <2> HIDE DEF q
  <2>5. ASSUME profile # "server" PROVE Fresh(q, disk)
    BY <1>a, <2>1, <2>2, <2>4, <2>5 DEF Fresh
  <2>6. QED
    BY <1>a, <2>3, <2>4, <2>5, FreshMove
<1>4. CASE CacheHit(r)
  <2> DEFINE pc == Resolved(r)
             q == [rq[r] EXCEPT !.key = cache, !.pc = pc]
  <2>1. cache = rq[r].key /\ cache \in Key /\ rq[r].pc = "lock"
    BY <1>4, <1>p DEF CacheHit, Hits, At, RequestOK
  <2>2. rq' = [rq EXCEPT ![r] = q] /\ UNCHANGED <<profile, remote, disk>>
    BY <1>4 DEF CacheHit
  <2>3. pc \in {"search", "report"}
    BY <1>s
  <2> HIDE DEF pc
  <2>4. q \in Request /\ q.pc = pc /\ q.key = cache /\ q.vs = rq[r].vs /\ q.rs = rq[r].rs
    BY <1>p, <2>1, <2>3 DEF Request
  <2> HIDE DEF q
  <2>5. ASSUME profile # "server" PROVE Fresh(q, disk)
    BY <1>a, <2>1, <2>3, <2>4, <2>5 DEF Fresh
  <2>6. QED
    BY <1>a, <2>2, <2>4, <2>5, FreshMove
<1>5. CASE CacheMiss(r)
  BY <1>5, <1>a, FreshGoto DEF CacheMiss, At
<1>6. CASE BootstrapRetry(r)
  <2> DEFINE q == [rq[r] EXCEPT !.pc = "version", !.retried = TRUE]
  <2>1. rq' = [rq EXCEPT ![r] = q] /\ UNCHANGED <<profile, remote, disk>>
    BY <1>6 DEF BootstrapRetry
  <2>2. q \in Request /\ q.pc = "version" /\ q.vs = rq[r].vs /\ q.rs = rq[r].rs
    BY <1>p DEF Request
  <2> HIDE DEF q
  <2>3. ASSUME profile # "server" PROVE Fresh(q, disk)
    BY <1>a, <2>2, <2>3 DEF Fresh
  <2>4. QED
    BY <1>a, <2>1, <2>2, <2>3, FreshMove
<1>7. CASE BootstrapFails(r)
  BY <1>7, FreshEnd DEF BootstrapFails, Fail
<1>8. CASE FreezeManifest(r)
  BY <1>8, <1>a, FreshGoto DEF FreezeManifest, At
<1>9. CASE LoadStatic(r)
  <2>1. CASE Goto(r, Resolved(r))
    <3>1. Resolved(r) \in Keyed \ {"release"} /\ rq[r].pc = "load"
      BY <1>9, <1>s DEF LoadStatic, At
    <3>2. QED
      BY <1>9, <1>a, <2>1, <3>1, FreshGoto DEF LoadStatic
  <2>2. CASE Fail(r)
    BY <1>9, <2>2, FreshEnd DEF LoadStatic, Fail
  <2>3. QED
    BY <1>9, <2>1, <2>2 DEF LoadStatic
<1>10. QED
  BY <1>1, <1>2, <1>3, <1>4, <1>5, <1>6, <1>7, <1>8, <1>9 DEF Resolve

\* A request begins with the heads of its first moment.
LEMMA FreshBegin ==
  ASSUME IInv, FInv, NEW r \in Requests, NEW kind \in {"query", "health"}, Begin(r, kind)
  PROVE  FInv'
<1> DEFINE pc == IF OnS3 THEN "list" ELSE "version"
           q == [IdleRequest EXCEPT !.pc = pc, !.kind = kind, !.vs = {Source.head},
                                    !.rs = {Source.static}]
<1>1. rq' = [rq EXCEPT ![r] = q] /\ UNCHANGED <<profile, remote, disk>>
  BY DEF Begin
<1>2. pc \in {"list", "version"} /\ (pc = "list" <=> OnS3)
  OBVIOUS
<1> HIDE DEF pc
<1>3. q \in Request /\ q.pc = pc /\ q.vs = {Source.head} /\ q.rs = {Source.static}
  BY <1>2, Parts, IdleIsRequest DEF Request
<1> HIDE DEF q
<1>4. ASSUME profile # "server" PROVE Fresh(q, disk)
  BY <1>2, <1>3 DEF Fresh, Source
<1>5. profile = "lambda" => \A s \in Requests : ~Active(rq[s])
  BY DEF Begin, Running, Active
<1>6. profile = "lambda" => /\ remote.head = 0 => disk.head = 0
                            /\ remote.static = NoRelease => disk.static = NoRelease
  BY DEF FInv
<1>7. QED
  BY <1>1, <1>3, <1>4, <1>5, <1>6, FreshStep

LEMMA FreshInit == Init => FInv
<1> SUFFICES ASSUME Init PROVE FInv
  OBVIOUS
<1>1. \A r \in Requests : ~Active(rq[r])
  BY DEF Init, IdleRequest, Active
<1>2. profile = "lambda" => disk.head = 0 /\ disk.static = NoRelease
  BY DEF Init, OnS3, EmptyTree
<1>3. QED
  BY <1>1, <1>2 DEF FInv

LEMMA FreshNext == IInv /\ FInv /\ [Next]_vars => FInv'
<1> SUFFICES ASSUME IInv, FInv, [Next]_vars PROVE FInv'
  OBVIOUS
<1>1. CASE Publish
  BY <1>1, FreshPublish
<1>2. ASSUME NEW r \in Requests, NEW kind \in {"query", "health"}, Begin(r, kind) PROVE FInv'
  BY <1>2, FreshBegin
<1>3. ASSUME NEW r \in Requests, Serve(r) PROVE FInv'
  <2>1. CASE Sync(r)
    BY <2>1, FreshSync
  <2>2. CASE Resolve(r)
    BY <2>2, FreshResolve
  <2>3. CASE Answer(r) \/ SearchFails(r) \/ Report(r)
    BY <2>3, FreshEnd DEF Answer, SearchFails, Report, Fail
  <2>4. QED
    BY <1>3, <2>1, <2>2, <2>3 DEF Serve
<1>4. ASSUME NEW r \in Requests, SyncFails(r) PROVE FInv'
  BY <1>4, FreshSync
<1>5. CASE Restart
  <2>1. \A r \in Requests : ~Active(rq'[r])
    BY <1>5 DEF Restart, IdleRequest, Active
  <2>2. QED
    BY <1>5, <2>1 DEF Restart, FInv, Active
<1>6. CASE UNCHANGED vars
  BY <1>6 DEF vars, FInv, Fresh, Active, OnS3
<1>7. QED
  BY <1>1, <1>2, <1>3, <1>4, <1>5, <1>6 DEF Next

\* query_service.rs, query_lambda.rs: whoever syncs alone, or does not sync, answers
\* from a version and a release that were active while the request ran.
THEOREM AnswersAreFresh == Spec => AnswersFresh
<1> DEFINE Answered == \A r \in Requests :
             At(r, "search") /\ rq'[r].pc = "answered" /\ profile # "server" =>
                 rq[r].key.version \in rq[r].vs /\ rq[r].key.release \in rq[r].rs
<1>1. FInv /\ [Next]_vars => [Answered]_vars
  BY DEF FInv, Active, Fresh, At
<1>2. QED
  BY InvInit, InvNext, FreshInit, FreshNext, <1>1, PTL DEF Spec, AnswersFresh

-------------------------------------------------------------------------------
(* Refusals: what a Lambda process copied stands until a head moves, and a
   process that shares the publisher's directory has one retry for the first
   movement. *)

\* Where a sync has copied the version head.
Late == {"index", "lance", "pull", "plant"} \cup Resolving

\* The version a request answers from is not the one that is active now.
Behind(q, d) == q.pc \in Keyed /\ q.key.version # d.head

\* The release of its key was whole when it was read, and releases stay.
ReleaseHeld(q, d) == q.pc \in Keyed \ {"release"} => q.key.release \in d.releases \cup {NoRelease}

\* Without a sync: the retry is spent on a movement, and a second one is needed.
RetryLeft(q, d) ==
  /\ q.retried \/ Behind(q, d) => q.moved >= 1
  /\ q.retried /\ Behind(q, d) => q.moved >= 2
  /\ q.pc \in Keyed => q.key.version \in d.index

\* With one: as long as no head moves the active version is listed, then on disk.
Copied(q, d) ==
  /\ q.pc \in {"head", "truncated"} => remote.head \in q.todo
  /\ q.pc = "truncated" => q.got = remote.head
  /\ q.pc \in Late => d.head = remote.head /\ remote.head \in d.index \cup q.todo
  /\ q.pc \in Late \ {"index"} => remote.head \in d.index
  /\ q.pc = "lance" => remote.head \in d.lance \cup q.todo
  /\ q.pc \in Late \ {"index", "lance"} => remote.head \in d.lance
  /\ q.pc \in Keyed => q.key.version = remote.head

\* What keeps a running request from being refused, when d is the tree on disk.
Steady(q, d) ==
  /\ ReleaseHeld(q, d)
  /\ profile = "local" /\ 0 \notin q.vs => RetryLeft(q, d)
  /\ profile = "lambda" /\ 0 \notin q.vs /\ q.moved = 0 => Copied(q, d)

\* The publishers put a version's objects in place before its head.
SourceOK == Source.head \in Source.index \cup {0} /\ Source.index \subseteq Source.lance

SInv == SourceOK /\ \A r \in Requests : Active(rq[r]) => Steady(rq[r], disk)

USE DEF Late

\* One request moves; it alone may write to the disk, and only if it syncs.
LEMMA SteadyStep ==
  ASSUME IInv, FInv, SInv, NEW r \in Requests, NEW q \in Request, rq' = [rq EXCEPT ![r] = q],
         UNCHANGED <<profile, remote>>,
         disk' = disk \/ (OnS3 /\ Active(rq[r])), disk.releases \subseteq disk'.releases,
         Active(rq[r]) \/ ~Active(q) \/ (profile = "lambda" => \A s \in Requests : ~Active(rq[s])),
         Active(q) => Steady(q, disk')
  PROVE  SInv'
<1>1. rq'[r] = q /\ \A s \in Requests \ {r} : rq'[s] = rq[s]
  BY DEF IInv, TypeOK
<1>2. ASSUME NEW s \in Requests, Active(rq'[s])
      PROVE  Steady(rq[s], disk)'
  <2>1. CASE s = r
    BY <1>1, <1>2, <2>1 DEF Steady, ReleaseHeld, RetryLeft, Copied, Behind
  <2>2. CASE s # r
    <3>1. Steady(rq[s], disk) /\ rq'[s] = rq[s] /\ Active(rq[s])
      BY <1>1, <1>2, <2>2 DEF SInv
    <3>2. ReleaseHeld(rq[s], disk)'
      BY <3>1 DEF Steady, ReleaseHeld
    <3>3. CASE disk' = disk
      BY <3>1, <3>3 DEF Steady, ReleaseHeld, RetryLeft, Copied, Behind
    <3>4. CASE OnS3 /\ Active(rq[r])
      <4>1. profile' # "lambda" /\ profile' # "local"
        BY <2>2, <3>1, <3>4 DEF FInv, OnS3
      <4>2. QED
        BY <3>2, <4>1 DEF Steady
    <3>5. QED
      BY <3>3, <3>4
  <2>3. QED
    BY <2>1, <2>2
<1>3. SourceOK'
  BY DEF SInv, SourceOK, Source, OnS3
<1>4. QED
  BY <1>2, <1>3 DEF SInv, Active

\* A request that ended needs nothing more.
LEMMA SteadyEnd ==
  ASSUME IInv, FInv, SInv, NEW r \in Requests, Finish(r, "answered") \/ Finish(r, "refused"),
         UNCHANGED <<profile, remote, disk>>
  PROVE  SInv'
<1>1. ASSUME NEW how \in {"answered", "refused"}, Finish(r, how)
      PROVE  SInv'
  <2> DEFINE q == [IdleRequest EXCEPT !.pc = how]
  <2>1. how \in Pcs
    BY DEF Pcs
  <2>2. q \in Request /\ q.pc = how
    BY <2>1, IdleIsRequest, RequestFields
  <2>3. rq' = [rq EXCEPT ![r] = q]
    BY <1>1 DEF Finish
  <2> HIDE DEF q
  <2>4. ~Active(q)
    BY <2>2 DEF Active
  <2>5. QED
    BY <2>2, <2>3, <2>4, SteadyStep
<1>2. QED
  BY <1>1

\* A request that moves on and leaves the disk alone.
LEMMA SteadyMove ==
  ASSUME IInv, FInv, SInv, NEW r \in Requests, NEW q \in Request, rq' = [rq EXCEPT ![r] = q],
         UNCHANGED <<profile, remote, disk>>, Active(rq[r]), Steady(q, disk)
  PROVE  SInv'
BY SteadyStep

\* A step of a sync has to keep what was copied, as long as no head moves.
LEMMA SteadyCopy ==
  ASSUME IInv, FInv, SInv, NEW r \in Requests, NEW q \in Request, rq' = [rq EXCEPT ![r] = q],
         UNCHANGED <<profile, remote>>, Active(rq[r]), OnS3,
         q.pc \notin Keyed, q.vs = rq[r].vs, q.moved = rq[r].moved,
         disk.releases \subseteq disk'.releases,
         profile = "lambda" /\ 0 \notin q.vs /\ Fresh(rq[r], disk) /\ Copied(rq[r], disk)
             /\ remote.head # 0 /\ remote.head \in remote.index \cap remote.lance => Copied(q, disk')
  PROVE  SInv'
<1>1. ReleaseHeld(q, disk')
  BY DEF ReleaseHeld
<1>2. ASSUME profile = "lambda", 0 \notin q.vs, q.moved = 0 PROVE Copied(q, disk')
  <2>1. Fresh(rq[r], disk) /\ Copied(rq[r], disk)
    BY <1>2 DEF FInv, SInv, Steady
  <2>2. remote.head # 0
    BY <1>2, <2>1 DEF Fresh
  <2>3. remote.head \in remote.index \cap remote.lance
    BY <2>2 DEF SInv, SourceOK, Source
  <2>4. QED
    BY <1>2, <2>1, <2>2, <2>3
<1>3. Steady(q, disk')
  BY <1>1, <1>2 DEF Steady, OnS3
<1>4. QED
  BY <1>3, SteadyStep

\* The steps of a sync, and its failure.
LEMMA SteadySync ==
  ASSUME IInv, FInv, SInv, NEW r \in Requests, Sync(r) \/ SyncFails(r)
  PROVE  SInv'
<1>p. /\ rq[r] \in Request /\ RequestOK(rq[r]) /\ remote \in Tree /\ disk \in Tree
      /\ remote.head \in 0 .. MaxVersion /\ remote.static \in ReleaseIds /\ remote.lance \subseteq Versions
      /\ remote.index \subseteq Versions
  BY Parts
<1>s. Synced(r) \in {"gate", "version"}
  BY DEF Synced
<1>1. CASE ListIndex(r)
  <2> DEFINE pc == IF remote.head = 0 THEN "index" ELSE "head"
             q == [rq[r] EXCEPT !.todo = remote.index, !.pc = pc]
  <2>1. rq' = [rq EXCEPT ![r] = q] /\ UNCHANGED <<profile, remote, disk>> /\ rq[r].pc = "list"
    BY <1>1 DEF ListIndex, At
  <2>2. pc \in {"index", "head"} /\ (remote.head # 0 => pc = "head")
    OBVIOUS
  <2> HIDE DEF pc
  <2>3. /\ q \in Request /\ q.pc = pc /\ q.todo = remote.index
        /\ q.vs = rq[r].vs /\ q.moved = rq[r].moved
    BY <1>p, <2>2 DEF Request
  <2> HIDE DEF q
  <2>4. Active(rq[r]) /\ OnS3
    BY <1>p, <2>1 DEF Active, RequestOK
  <2>5. remote.head # 0 /\ remote.head \in remote.index => Copied(q, disk')
    BY <2>2, <2>3 DEF Copied
  <2>6. QED
    BY <2>1, <2>2, <2>3, <2>4, <2>5, SteadyCopy
<1>2. CASE GetHead(r)
  <2> DEFINE q == [rq[r] EXCEPT !.got = remote.head, !.pc = "truncated"]
             d == [disk EXCEPT !.head = Torn]
  <2>1. /\ rq' = [rq EXCEPT ![r] = q] /\ disk' = d /\ UNCHANGED <<profile, remote>>
        /\ rq[r].pc = "head"
    BY <1>2 DEF GetHead, At
  <2>2. /\ q \in Request /\ q.pc = "truncated" /\ q.got = remote.head /\ q.todo = rq[r].todo
        /\ q.vs = rq[r].vs /\ q.moved = rq[r].moved
    BY <1>p DEF Request
  <2>3. d.releases = disk.releases
    BY <1>p DEF Tree
  <2>4. Active(rq[r]) /\ OnS3
    BY <1>p, <2>1 DEF Active, RequestOK
  <2> HIDE DEF q, d
  <2>5. Copied(rq[r], disk) => Copied(q, disk')
    BY <2>1, <2>2 DEF Copied
  <2>6. QED
    BY <2>1, <2>2, <2>3, <2>4, <2>5, SteadyCopy
<1>3. CASE WriteHead(r)
  <2> DEFINE q == [rq[r] EXCEPT !.pc = "index"]
             d == [disk EXCEPT !.head = rq[r].got]
  <2>1. /\ rq' = [rq EXCEPT ![r] = q] /\ disk' = d /\ UNCHANGED <<profile, remote>>
        /\ rq[r].pc = "truncated"
    BY <1>3 DEF WriteHead, At, Goto
  <2>2. /\ q \in Request /\ q.pc = "index" /\ q.todo = rq[r].todo
        /\ q.vs = rq[r].vs /\ q.moved = rq[r].moved
    BY <1>p DEF Request
  <2>3. d.releases = disk.releases /\ d.head = rq[r].got
    BY <1>p DEF Tree
  <2>4. Active(rq[r]) /\ OnS3
    BY <1>p, <2>1 DEF Active, RequestOK
  <2> HIDE DEF q, d
  <2>5. Copied(rq[r], disk) => Copied(q, disk')
    BY <2>1, <2>2, <2>3 DEF Copied
  <2>6. QED
    BY <2>1, <2>2, <2>3, <2>4, <2>5, SteadyCopy
<1>4. CASE CopyIndex(r) \/ CopyLance(r)
  <2> DEFINE v == NextListed(r)
             q == [rq[r] EXCEPT !.todo = @ \ {v}]
  <2>1. /\ rq' = [rq EXCEPT ![r] = q] /\ UNCHANGED <<profile, remote>>
        /\ \/ rq[r].pc = "index" /\ disk' = [disk EXCEPT !.index = @ \cup {v}]
           \/ rq[r].pc = "lance" /\ disk' = [disk EXCEPT !.lance = @ \cup {v}]
    BY <1>4 DEF CopyIndex, CopyLance, At
  <2>2. /\ q \in Request /\ q.pc = rq[r].pc /\ q.todo = rq[r].todo \ {v}
        /\ q.vs = rq[r].vs /\ q.moved = rq[r].moved
    BY <1>p DEF Request
  <2> HIDE DEF v
  <2>3. /\ disk'.releases = disk.releases /\ disk'.head = disk.head
        /\ disk.index \subseteq disk'.index /\ disk.lance \subseteq disk'.lance
        /\ rq[r].pc = "index" => v \in disk'.index
        /\ rq[r].pc = "lance" => v \in disk'.lance
    BY <1>p, <2>1 DEF Tree
  <2>4. rq[r].pc \in {"index", "lance"} /\ Active(rq[r])
    BY <2>1 DEF Active
  <2> HIDE DEF q
  <2>5. Copied(rq[r], disk) => Copied(q, disk')
    BY <2>1, <2>2, <2>3, <2>4 DEF Copied
  <2>6. CASE OnS3
    BY <2>1, <2>2, <2>3, <2>4, <2>5, <2>6, SteadyCopy
  <2>7. CASE ~OnS3
    BY <2>4, <2>7 DEF FInv, Fresh, OnS3
  <2>8. QED
    BY <2>6, <2>7
<1>5. CASE ListLance(r)
  <2> DEFINE q == [rq[r] EXCEPT !.todo = remote.lance, !.pc = "lance"]
  <2>1. /\ rq' = [rq EXCEPT ![r] = q] /\ UNCHANGED <<profile, remote, disk>>
        /\ rq[r].pc = "index" /\ rq[r].todo = {} /\ Active(rq[r])
    BY <1>5 DEF ListLance, At, Active
  <2>2. /\ q \in Request /\ q.pc = "lance" /\ q.todo = remote.lance
        /\ q.vs = rq[r].vs /\ q.moved = rq[r].moved
    BY <1>p DEF Request
  <2> HIDE DEF q
  <2>3. remote.head \in remote.lance /\ Copied(rq[r], disk) => Copied(q, disk')
    BY <2>1, <2>2 DEF Copied
  <2>4. CASE OnS3
    BY <2>1, <2>2, <2>3, <2>4, SteadyCopy
  <2>5. CASE ~OnS3
    BY <2>1, <2>5 DEF FInv, Fresh, OnS3
  <2>6. QED
    BY <2>4, <2>5
<1>6. CASE ReadStaticHead(r)
  <2>1. PICK pc \in {"gate", "version", "plant", "pull"} :
          rq' = [rq EXCEPT ![r].static = remote.static, ![r].pc = pc]
    <3>1. CASE remote.static = NoRelease
      <4>1. remote.static \notin disk.releases
        BY <1>p, <3>1, ServingConstants DEF Tree
      <4>2. QED
        BY <1>6, <1>s, <3>1, <4>1 DEF ReadStaticHead
    <3>2. CASE remote.static # NoRelease /\ remote.static \in disk.releases
      BY <1>6, <3>2 DEF ReadStaticHead
    <3>3. CASE remote.static # NoRelease /\ remote.static \notin disk.releases
      BY <1>6, <3>3 DEF ReadStaticHead
    <3>4. QED
      BY <3>1, <3>2, <3>3
  <2> DEFINE q == [rq[r] EXCEPT !.static = remote.static, !.pc = pc]
  <2>2. /\ rq' = [rq EXCEPT ![r] = q] /\ UNCHANGED <<profile, remote, disk>>
        /\ rq[r].pc = "lance" /\ rq[r].todo = {} /\ Active(rq[r])
    BY <1>6, <2>1 DEF ReadStaticHead, At, Active
  <2>3. q \in Request /\ q.pc = pc /\ q.vs = rq[r].vs /\ q.moved = rq[r].moved
    BY <1>p, <2>1 DEF Request
  <2> HIDE DEF q
  <2>4. Copied(rq[r], disk) => Copied(q, disk')
    BY <2>1, <2>2, <2>3 DEF Copied
  <2>5. CASE OnS3
    BY <2>2, <2>3, <2>4, <2>5, SteadyCopy
  <2>6. CASE ~OnS3
    BY <2>2, <2>6 DEF FInv, Fresh, OnS3
  <2>7. QED
    BY <2>5, <2>6
<1>7. CASE PullRelease(r) \/ PlantPointer(r)
  <2>1. PICK pc \in {"plant", "gate", "version"} :
          /\ rq' = [rq EXCEPT ![r].pc = pc]
          /\ \/ disk' = [disk EXCEPT !.releases = @ \cup {rq[r].static}]
             \/ disk' = [disk EXCEPT !.static = rq[r].static]
    BY <1>7, <1>s DEF PullRelease, PlantPointer, Goto
  <2> DEFINE q == [rq[r] EXCEPT !.pc = pc]
  <2>2. /\ rq' = [rq EXCEPT ![r] = q] /\ UNCHANGED <<profile, remote>>
        /\ rq[r].pc \in {"pull", "plant"} /\ Active(rq[r])
    BY <1>7, <2>1 DEF PullRelease, PlantPointer, At, Active
  <2>3. q \in Request /\ q.pc = pc /\ q.vs = rq[r].vs /\ q.moved = rq[r].moved
    BY <1>p, <2>1 DEF Request
  <2>4. /\ disk.releases \subseteq disk'.releases /\ disk'.head = disk.head
        /\ disk'.index = disk.index /\ disk'.lance = disk.lance
    BY <1>p, <2>1 DEF Tree
  <2> HIDE DEF q
  <2>5. Copied(rq[r], disk) => Copied(q, disk')
    BY <2>1, <2>2, <2>3, <2>4 DEF Copied
  <2>6. CASE OnS3
    BY <2>2, <2>3, <2>4, <2>5, <2>6, SteadyCopy
  <2>7. CASE ~OnS3
    BY <2>2, <2>7 DEF FInv, Fresh, OnS3
  <2>8. QED
    BY <2>6, <2>7
<1>8. CASE SyncFails(r)
  BY <1>8, SteadyEnd DEF SyncFails, Fail
<1>9. QED
  BY <1>1, <1>2, <1>3, <1>4, <1>5, <1>6, <1>7, <1>8 DEF Sync

\* A request that goes on after its sync with the same key.
LEMMA SteadyGoto ==
  ASSUME IInv, FInv, SInv, NEW r \in Requests, NEW pc \in Resolving, Goto(r, pc),
         UNCHANGED <<profile, remote, disk>>, Active(rq[r]), rq[r].pc \in Resolving,
         pc \in Keyed => rq[r].pc \in Keyed,
         pc \in Keyed \ {"release"} => rq[r].pc \in Keyed \ {"release"}
  PROVE  SInv'
<1> DEFINE q == [rq[r] EXCEPT !.pc = pc]
<1>1. rq[r] \in Request /\ pc \in Pcs
  BY Parts DEF Pcs
<1>2. /\ q \in Request /\ q.pc = pc /\ q.key = rq[r].key /\ q.vs = rq[r].vs
      /\ q.moved = rq[r].moved /\ q.retried = rq[r].retried /\ q.todo = rq[r].todo
  BY <1>1 DEF Request, Pcs
<1>3. rq' = [rq EXCEPT ![r] = q]
  BY DEF Goto
<1>4. Steady(rq[r], disk)
  BY DEF SInv
<1> HIDE DEF q
<1>5. ReleaseHeld(q, disk)
  BY <1>2, <1>4 DEF Steady, ReleaseHeld
<1>6. RetryLeft(rq[r], disk) => RetryLeft(q, disk)
  BY <1>2 DEF RetryLeft, Behind
<1>7. Copied(rq[r], disk) => Copied(q, disk)
  BY <1>2 DEF Copied
<1>8. QED
  BY <1>2, <1>3, <1>4, <1>5, <1>6, <1>7, SteadyMove DEF Steady

\* The key is read from what stands until a head moves; a retry is spent on a movement.
LEMMA SteadyResolve ==
  ASSUME IInv, FInv, SInv, NEW r \in Requests, Resolve(r)
  PROVE  SInv'
<1>p. rq[r] \in Request /\ RequestOK(rq[r]) /\ disk \in Tree /\ PointerComplete
  BY Parts DEF IInv
<1>a. rq[r].pc \in Resolving /\ Active(rq[r]) /\ Steady(rq[r], disk)
  BY DEF SInv, Active, Resolve, HealthGate, LoadVersion, LoadRelease, CacheHit, CacheMiss,
         BootstrapRetry, BootstrapFails, FreezeManifest, LoadStatic, At
<1>s. Resolved(r) \in {"search", "report"}
  BY DEF Resolved
<1>1. CASE HealthGate(r)
  <2>1. CASE Goto(r, "version")
    BY <1>1, <1>a, <2>1, SteadyGoto DEF HealthGate
  <2>2. CASE Finish(r, "answered") \/ Fail(r)
    BY <1>1, <2>2, SteadyEnd DEF HealthGate, Fail
  <2>3. QED
    BY <1>1, <2>1, <2>2 DEF HealthGate
<1>2. CASE LoadVersion(r)
  <2>1. CASE ActiveVersion \in Versions
    <3> DEFINE k == [version |-> ActiveVersion, release |-> NoRelease]
               q == [rq[r] EXCEPT !.key = k, !.pc = "release"]
    <3>1. k \in Key /\ k.version = disk.head /\ disk.head # 0
      BY <2>1 DEF Key, ReleaseIds, ActiveVersion, HeadFile, HeadRow, Versions
    <3>2. rq' = [rq EXCEPT ![r] = q] /\ UNCHANGED <<profile, remote, disk>> /\ rq[r].pc = "version"
      BY <1>2, <2>1 DEF LoadVersion, At
    <3> HIDE DEF k
    <3>3. /\ q \in Request /\ q.pc = "release" /\ q.key = k /\ q.vs = rq[r].vs
          /\ q.moved = rq[r].moved /\ q.retried = rq[r].retried /\ q.todo = rq[r].todo
      BY <1>p, <3>1 DEF Request
    <3> HIDE DEF q
    <3>4. ReleaseHeld(q, disk)
      BY <3>3 DEF ReleaseHeld
    <3>5. profile = "local" => disk.head \in disk.index
      BY <3>1 DEF SInv, SourceOK, Source, OnS3
    <3>6. profile = "local" /\ RetryLeft(rq[r], disk) => RetryLeft(q, disk)
      BY <3>1, <3>2, <3>3, <3>5 DEF RetryLeft, Behind
    <3>7. Copied(rq[r], disk) => Copied(q, disk)
      BY <3>1, <3>2, <3>3 DEF Copied
    <3>8. QED
      BY <1>a, <3>2, <3>3, <3>4, <3>6, <3>7, SteadyMove DEF Steady
  <2>2. CASE ActiveVersion \notin Versions
    BY <1>2, <2>2, SteadyEnd DEF LoadVersion, Fail
  <2>3. QED
    BY <2>1, <2>2
<1>3. CASE LoadRelease(r)
  <2> DEFINE k == [rq[r].key EXCEPT !.release = ActiveRelease]
             q == [rq[r] EXCEPT !.key = k, !.pc = "lock"]
  <2>1. rq[r].key \in Key /\ rq[r].pc = "release" /\ disk.static \in ReleaseIds
    BY <1>3, <1>p, Parts DEF LoadRelease, At, RequestOK, Tree
  <2>2. k \in Key /\ k.release = disk.static /\ k.version = rq[r].key.version
    BY <2>1 DEF Key, ActiveRelease, ReleaseFile, ReleaseRow
  <2>3. rq' = [rq EXCEPT ![r] = q] /\ UNCHANGED <<profile, remote, disk>>
    BY <1>3 DEF LoadRelease
  <2> HIDE DEF k
  <2>4. /\ q \in Request /\ q.pc = "lock" /\ q.key = k /\ q.vs = rq[r].vs
        /\ q.moved = rq[r].moved /\ q.retried = rq[r].retried /\ q.todo = rq[r].todo
    BY <1>p, <2>2 DEF Request
  <2> HIDE DEF q
  <2>5. ReleaseHeld(q, disk)
    BY <1>p, <2>2, <2>4 DEF ReleaseHeld, PointerComplete
  <2>6. RetryLeft(rq[r], disk) => RetryLeft(q, disk)
    BY <2>1, <2>2, <2>4 DEF RetryLeft, Behind
  <2>7. Copied(rq[r], disk) => Copied(q, disk)
    BY <2>1, <2>2, <2>4 DEF Copied
  <2>8. QED
    BY <1>a, <2>3, <2>4, <2>5, <2>6, <2>7, SteadyMove DEF Steady
<1>4. CASE CacheHit(r)
  <2>1. cache = rq[r].key /\ rq[r].pc = "lock"
    BY <1>4 DEF CacheHit, Hits, At
  <2>2. rq' = [rq EXCEPT ![r].key = rq[r].key, ![r].pc = Resolved(r)]
    BY <1>4, <2>1 DEF CacheHit
  <2>3. [rq[r] EXCEPT !.key = rq[r].key] = rq[r]
    BY <1>p DEF Request
  <2>4. Goto(r, Resolved(r))
    BY <2>2, <2>3 DEF Goto
  <2>5. QED
    BY <1>4, <1>a, <1>s, <2>1, <2>4, SteadyGoto DEF CacheHit
<1>5. CASE CacheMiss(r)
  BY <1>5, <1>a, SteadyGoto DEF CacheMiss, At
<1>6. CASE BootstrapRetry(r)
  <2> DEFINE q == [rq[r] EXCEPT !.pc = "version", !.retried = TRUE]
  <2>1. /\ rq' = [rq EXCEPT ![r] = q] /\ UNCHANGED <<profile, remote, disk>>
        /\ rq[r].pc = "manifest" /\ ActiveVersion # rq[r].key.version
    BY <1>6 DEF BootstrapRetry, At, HeadChanged
  <2>2. /\ q \in Request /\ q.pc = "version" /\ q.vs = rq[r].vs
        /\ q.moved = rq[r].moved /\ q.todo = rq[r].todo
    BY <1>p DEF Request
  <2> HIDE DEF q
  <2>3. ReleaseHeld(q, disk)
    BY <2>2 DEF ReleaseHeld
  <2>4. profile = "local" => Behind(rq[r], disk)
    BY <2>1 DEF Behind, ActiveVersion, HeadRow, OnS3
  <2>5. profile = "local" /\ RetryLeft(rq[r], disk) => RetryLeft(q, disk)
    BY <2>2, <2>4 DEF RetryLeft, Behind
  <2>6. Copied(rq[r], disk) => Copied(q, disk)
    BY <2>1, <2>2 DEF Copied
  <2>7. QED
    BY <1>a, <2>1, <2>2, <2>3, <2>5, <2>6, SteadyMove DEF Steady
<1>7. CASE BootstrapFails(r)
  BY <1>7, SteadyEnd DEF BootstrapFails, Fail
<1>8. CASE FreezeManifest(r)
  BY <1>8, <1>a, SteadyGoto DEF FreezeManifest, At
<1>9. CASE LoadStatic(r)
  <2>1. CASE Goto(r, Resolved(r))
    <3>1. Resolved(r) \in Keyed \ {"release"} /\ rq[r].pc = "load"
      BY <1>9, <1>s DEF LoadStatic, At
    <3>2. QED
      BY <1>9, <1>a, <2>1, <3>1, SteadyGoto DEF LoadStatic
  <2>2. CASE Fail(r)
    BY <1>9, <2>2, SteadyEnd DEF LoadStatic, Fail
  <2>3. QED
    BY <1>9, <2>1, <2>2 DEF LoadStatic
<1>10. QED
  BY <1>1, <1>2, <1>3, <1>4, <1>5, <1>6, <1>7, <1>8, <1>9 DEF Resolve

\* What publication makes of the tree at its source: objects first, then their head.
Grown(tree) ==
  /\ SourceBecomes(tree) /\ UNCHANGED profile
  /\ Source.index \subseteq tree.index /\ Source.releases = tree.releases
  /\ tree.head \in tree.index \cup {0} /\ tree.index \subseteq tree.lance
  /\ \/ UNCHANGED rq /\ tree.head = Source.head
     \/ \E v \in Versions \cup {0}, s \in ReleaseIds : Witnessed(v, s)

LEMMA PublishGrows == ASSUME IInv, SInv, Publish PROVE \E tree : Grown(tree)
<1>p. /\ Source \in Tree /\ Source.head \in 0 .. MaxVersion /\ Source.static \in ReleaseIds
      /\ Source.head \in Source.index \cup {0} /\ Source.index \subseteq Source.lance
  BY Parts DEF SInv, SourceOK
<1>1. ASSUME NEW v \in Versions, UploadLance(v) PROVE \E tree : Grown(tree)
  <2> DEFINE tree == [Source EXCEPT !.lance = @ \cup {v}]
  <2>1. /\ tree.head = Source.head /\ tree.index = Source.index
        /\ tree.lance = Source.lance \cup {v} /\ tree.releases = Source.releases
    BY <1>p DEF Tree
  <2>2. SourceBecomes(tree) /\ UNCHANGED <<profile, rq>>
    BY <1>1 DEF UploadLance
  <2> HIDE DEF tree
  <2>3. QED
    BY <1>p, <2>1, <2>2 DEF Grown
<1>2. ASSUME NEW v \in Versions, UploadIndex(v) PROVE \E tree : Grown(tree)
  <2> DEFINE tree == [Source EXCEPT !.index = @ \cup {v}]
  <2>1. /\ tree.head = Source.head /\ tree.index = Source.index \cup {v}
        /\ tree.lance = Source.lance /\ tree.releases = Source.releases
    BY <1>p DEF Tree
  <2>2. SourceBecomes(tree) /\ UNCHANGED <<profile, rq>> /\ v \in Source.lance
    BY <1>2 DEF UploadIndex
  <2> HIDE DEF tree
  <2>3. QED
    BY <1>p, <2>1, <2>2 DEF Grown
<1>3. ASSUME NEW v \in Versions, MoveHead(v) PROVE \E tree : Grown(tree)
  <2> DEFINE tree == [Source EXCEPT !.head = v]
  <2>1. /\ tree.head = v /\ tree.index = Source.index
        /\ tree.lance = Source.lance /\ tree.releases = Source.releases
    BY <1>p DEF Tree
  <2>2. SourceBecomes(tree) /\ UNCHANGED profile /\ Witnessed(v, Source.static) /\ v \in Source.index
    BY <1>3 DEF MoveHead
  <2> HIDE DEF tree
  <2>3. QED
    BY <1>p, <2>1, <2>2 DEF Grown
<1>4. ASSUME NEW s \in Releases, MoveStaticHead(s) PROVE \E tree : Grown(tree)
  <2> DEFINE tree == [Source EXCEPT !.static = s]
  <2>1. /\ tree.head = Source.head /\ tree.index = Source.index
        /\ tree.lance = Source.lance /\ tree.releases = Source.releases
    BY <1>p DEF Tree
  <2>2. SourceBecomes(tree) /\ UNCHANGED profile /\ Witnessed(Source.head, s)
    BY <1>4 DEF MoveStaticHead
  <2>3. Source.head \in Versions \cup {0} /\ s \in ReleaseIds
    BY <1>p, ServingConstants DEF Versions, ReleaseIds
  <2> HIDE DEF tree
  <2>4. QED
    BY <1>p, <2>1, <2>2, <2>3 DEF Grown
<1>5. QED
  BY <1>1, <1>2, <1>3, <1>4 DEF Publish

\* A movement of a head is one a request may be refused for; an upload changes nothing.
LEMMA SteadyPublish ==
  ASSUME IInv, FInv, SInv, Publish
  PROVE  SInv'
<1>1. PICK tree : Grown(tree)
  BY PublishGrows
<1>2. UNCHANGED profile /\ IF OnS3 THEN remote' = tree /\ disk' = disk ELSE disk' = tree /\ remote' = remote
  BY <1>1 DEF Grown, SourceBecomes
<1>3. \A r \in Requests :
        /\ rq'[r].pc = rq[r].pc /\ rq'[r].key = rq[r].key /\ rq'[r].retried = rq[r].retried
        /\ Active(rq[r]) => \/ rq'[r].moved = rq[r].moved + 1 /\ rq[r].vs \subseteq rq'[r].vs
                            \/ rq'[r] = rq[r] /\ tree.head = Source.head
  <2>1. ASSUME NEW v \in Versions \cup {0}, NEW s \in ReleaseIds, Witnessed(v, s)
        PROVE  <1>3
    <3>1. \A r \in Requests : rq[r] \in Request
      BY Parts
    <3>2. ASSUME NEW r \in Requests, Active(rq[r])
          PROVE  /\ rq'[r].pc = rq[r].pc /\ rq'[r].key = rq[r].key /\ rq'[r].retried = rq[r].retried
                 /\ rq'[r].moved = rq[r].moved + 1 /\ rq'[r].vs = rq[r].vs \cup {v}
      <4>1. rq'[r] = [rq[r] EXCEPT !.vs = @ \cup {v}, !.rs = @ \cup {s}, !.moved = @ + 1]
        BY <2>1, <3>2 DEF Witnessed, Running, Active
      <4>2. rq[r] \in Request
        BY <3>1
      <4>3. QED
        BY <4>1, <4>2 DEF Request
    <3>3. ASSUME NEW r \in Requests, ~Active(rq[r])
          PROVE  rq'[r] = rq[r]
      BY <2>1, <3>3 DEF Witnessed, Running, Active
    <3>4. QED
      BY <3>2, <3>3
  <2>2. QED
    BY <1>1, <2>1 DEF Grown
<1>4. ASSUME NEW r \in Requests, Active(rq[r])
      PROVE  Steady(rq[r], disk)'
  <2>1. Steady(rq[r], disk) /\ rq[r].moved \in Nat
    BY <1>4, Parts DEF SInv, Request
  <2>2. disk.releases \subseteq disk'.releases /\ (~OnS3 => disk.index \subseteq disk'.index)
    BY <1>1, <1>2 DEF Grown, Source
  <2>3. ReleaseHeld(rq[r], disk)'
    BY <1>3, <2>1, <2>2 DEF Steady, ReleaseHeld
  <2>4. CASE rq'[r].moved = rq[r].moved + 1 /\ rq[r].vs \subseteq rq'[r].vs
    <3>1. rq'[r].moved # 0
      BY <2>1, <2>4
    <3>2. ASSUME profile = "local", 0 \notin rq'[r].vs
          PROVE  RetryLeft(rq[r], disk)'
      <4>1. RetryLeft(rq[r], disk)
        BY <2>1, <2>4, <3>2 DEF Steady
      <4>2. disk.index \subseteq disk'.index
        BY <2>2, <3>2 DEF OnS3
      <4>3. QED
        BY <1>3, <2>1, <2>4, <4>1, <4>2 DEF RetryLeft
    <3>3. QED
      BY <1>2, <2>3, <3>1, <3>2 DEF Steady
  <2>5. CASE rq'[r] = rq[r] /\ tree.head = Source.head
    <3>1. disk'.head = disk.head /\ remote'.head = remote.head
      BY <1>2, <2>5 DEF Source
    <3>2. profile = "local" /\ RetryLeft(rq[r], disk) => RetryLeft(rq[r], disk)'
      BY <2>2, <2>5, <3>1 DEF RetryLeft, Behind, OnS3
    <3>3. profile = "lambda" /\ Copied(rq[r], disk) => Copied(rq[r], disk)'
      BY <1>2, <2>5, <3>1 DEF Copied, OnS3
    <3>4. QED
      BY <1>2, <2>1, <2>3, <2>5, <3>2, <3>3 DEF Steady
  <2>6. QED
    BY <1>3, <1>4, <2>4, <2>5
<1>5. SourceOK'
  BY <1>1, <1>2 DEF SourceOK, Grown, Source, OnS3
<1>6. QED
  BY <1>3, <1>4, <1>5 DEF SInv, Active

\* A request begins with nothing copied and its retry.
LEMMA SteadyBegin ==
  ASSUME IInv, FInv, SInv, NEW r \in Requests, NEW kind \in {"query", "health"}, Begin(r, kind)
  PROVE  SInv'
<1> DEFINE pc == IF OnS3 THEN "list" ELSE "version"
           q == [IdleRequest EXCEPT !.pc = pc, !.kind = kind, !.vs = {Source.head},
                                    !.rs = {Source.static}]
<1>1. rq' = [rq EXCEPT ![r] = q] /\ UNCHANGED <<profile, remote, disk>>
  BY DEF Begin
<1>2. pc \in {"list", "version"} /\ (pc = "list" <=> OnS3)
  OBVIOUS
<1> HIDE DEF pc
<1>3. q \in Request /\ q.pc = pc /\ q.retried = FALSE
  BY <1>2, Parts, IdleIsRequest DEF Request, IdleRequest
<1> HIDE DEF q
<1>4. Steady(q, disk)
  BY <1>2, <1>3 DEF Steady, ReleaseHeld, RetryLeft, Copied, Behind, OnS3
<1>5. profile = "lambda" => \A s \in Requests : ~Active(rq[s])
  BY DEF Begin, Running, Active
<1>6. QED
  BY <1>1, <1>3, <1>4, <1>5, SteadyStep

LEMMA SteadyInit == Init => SInv
<1> SUFFICES ASSUME Init PROVE SInv
  OBVIOUS
<1>1. \A r \in Requests : ~Active(rq[r])
  BY DEF Init, IdleRequest, Active
<1>2. \A tree \in FirstTrees \cup {EmptyTree} :
        tree.head \in tree.index \cup {0} /\ tree.index \subseteq tree.lance
  <2>1. EmptyTree.head = 0 /\ EmptyTree.index = {} /\ EmptyTree.lance = {}
    BY DEF EmptyTree
  <2>2. ASSUME NEW tree \in FirstTrees
        PROVE  \/ tree.head = 0 /\ tree.index = {} /\ tree.lance = {}
               \/ tree.head = 1 /\ tree.index = {1} /\ tree.lance = {1}
    BY <2>2 DEF FirstTrees, EmptyTree
  <2>3. QED
    BY <2>1, <2>2
<1>3. Source \in FirstTrees \cup {EmptyTree}
  BY DEF Init, Source
<1>4. QED
  BY <1>1, <1>2, <1>3 DEF SInv, SourceOK

LEMMA SteadyNext == IInv /\ FInv /\ SInv /\ [Next]_vars => SInv'
<1> SUFFICES ASSUME IInv, FInv, SInv, [Next]_vars PROVE SInv'
  OBVIOUS
<1>1. CASE Publish
  BY <1>1, SteadyPublish
<1>2. ASSUME NEW r \in Requests, NEW kind \in {"query", "health"}, Begin(r, kind) PROVE SInv'
  BY <1>2, SteadyBegin
<1>3. ASSUME NEW r \in Requests, Serve(r) PROVE SInv'
  <2>1. CASE Sync(r)
    BY <2>1, SteadySync
  <2>2. CASE Resolve(r)
    BY <2>2, SteadyResolve
  <2>3. CASE Answer(r) \/ SearchFails(r) \/ Report(r)
    BY <2>3, SteadyEnd DEF Answer, SearchFails, Report, Fail
  <2>4. QED
    BY <1>3, <2>1, <2>2, <2>3 DEF Serve
<1>4. ASSUME NEW r \in Requests, SyncFails(r) PROVE SInv'
  BY <1>4, SteadySync
<1>5. CASE Restart
  <2>1. \A r \in Requests : ~Active(rq'[r])
    BY <1>5 DEF Restart, IdleRequest, Active
  <2>2. SourceOK'
    BY <1>5 DEF Restart, SInv, SourceOK, Source, OnS3
  <2>3. QED
    BY <2>1, <2>2 DEF SInv, Active
<1>6. CASE UNCHANGED vars
  BY <1>6 DEF vars, SInv, SourceOK, Source, Steady, ReleaseHeld, RetryLeft, Copied, Behind, Active, OnS3
<1>7. QED
  BY <1>1, <1>2, <1>3, <1>4, <1>5, <1>6 DEF Next

\* Who refuses a request: its sync, or one of the steps that find something missing.
LEMMA RefusedBy ==
  ASSUME IInv, FInv, Next, NEW r \in Requests, Running(r), rq'[r].pc = "refused"
  PROVE  \/ SyncFails(r)
         \/ At(r, "gate") /\ disk.head = Torn
         \/ At(r, "version") /\ ActiveVersion \notin Versions
         \/ BootstrapFails(r)
         \/ At(r, "load") /\ rq[r].key.release \notin disk.releases \cup {NoRelease}
         \/ SearchFails(r)
<1>p. rq[r] \in Request /\ rq \in [Requests -> Request] /\ Active(rq[r])
  BY DEF IInv, TypeOK, Active, Running
<1>a. rq[r].pc # "refused"
  BY DEF Running
<1>1. CASE Publish
  <2>1. rq'[r].pc = rq[r].pc
    <3>1. PICK tree : Moved(tree)
      BY <1>1, PublishMoves
    <3>2. CASE UNCHANGED rq
      BY <3>2
    <3>3. CASE Witnessed(tree.head, tree.static)
      <4>1. rq'[r] = [rq[r] EXCEPT !.vs = @ \cup {tree.head}, !.rs = @ \cup {tree.static}, !.moved = @ + 1]
        BY <3>3 DEF Witnessed
      <4>2. QED
        BY <1>p, <4>1 DEF Request
    <3>4. QED
      BY <3>1, <3>2, <3>3 DEF Moved
  <2>2. QED
    BY <1>a, <2>1
<1>2. ASSUME NEW s \in Requests, NEW kind \in {"query", "health"}, Begin(s, kind) PROVE FALSE
  <2>1. s # r /\ rq'[r] = rq[r]
    BY <1>2, <1>p DEF Begin
  <2>2. QED
    BY <1>a, <2>1
<1>3. ASSUME NEW s \in Requests \ {r}, Serve(s) \/ SyncFails(s) PROVE FALSE
  <2>1. rq'[r] = rq[r]
    BY <1>3, <1>p DEF Serve, SyncFails, Fail, Finish, Goto, Sync, ListIndex, GetHead, WriteHead,
       CopyIndex, ListLance, CopyLance, ReadStaticHead, PullRelease, PlantPointer, Resolve,
       HealthGate, LoadVersion, LoadRelease, CacheHit, CacheMiss, BootstrapRetry, BootstrapFails,
       FreezeManifest, LoadStatic, Answer, SearchFails, Report
  <2>2. QED
    BY <1>a, <2>1
<1>4. CASE Sync(r)
  <2>1. rq'[r].pc \in Syncing \cup Resolving
    <3>0. Synced(r) \in {"gate", "version"} /\ (remote.static = NoRelease => remote.static \notin disk.releases)
      BY Parts, ServingConstants DEF Synced, Tree
    <3>1. CASE ListIndex(r)
      BY <1>p, <3>1 DEF ListIndex, Request
    <3>2. CASE GetHead(r) \/ WriteHead(r) \/ ListLance(r) \/ PullRelease(r)
      BY <1>p, <3>2 DEF GetHead, WriteHead, ListLance, PullRelease, Goto, Request
    <3>3. CASE CopyIndex(r) \/ CopyLance(r)
      <4>1. rq[r].pc \in Syncing /\ rq' = [rq EXCEPT ![r].todo = @ \ {NextListed(r)}]
        BY <3>3 DEF CopyIndex, CopyLance, At
      <4>2. QED
        BY <1>p, <4>1 DEF Request
    <3>4. CASE ReadStaticHead(r)
      <4>1. PICK pc \in {"gate", "version", "plant", "pull"} :
              rq' = [rq EXCEPT ![r].static = remote.static, ![r].pc = pc]
        <5>1. CASE remote.static = NoRelease
          BY <3>0, <3>4, <5>1 DEF ReadStaticHead
        <5>2. CASE remote.static # NoRelease /\ remote.static \in disk.releases
          BY <3>4, <5>2 DEF ReadStaticHead
        <5>3. CASE remote.static # NoRelease /\ remote.static \notin disk.releases
          BY <3>4, <5>3 DEF ReadStaticHead
        <5>4. QED
          BY <5>1, <5>2, <5>3
      <4>2. QED
        BY <1>p, <4>1 DEF Request
    <3>5. CASE PlantPointer(r)
      BY <1>p, <3>0, <3>5 DEF PlantPointer, Goto, Request
    <3>6. QED
      BY <1>4, <3>1, <3>2, <3>3, <3>4, <3>5 DEF Sync
  <2>2. QED
    BY <2>1
<1>5. CASE Resolve(r)
  <2>s. Resolved(r) \in {"search", "report"}
    BY DEF Resolved
  <2>1. CASE HealthGate(r)
    <3>1. rq' # [rq EXCEPT ![r].pc = "version"] /\ rq' # [rq EXCEPT ![r] = [IdleRequest EXCEPT !.pc = "answered"]]
      BY <1>p DEF Request, IdleRequest
    <3>2. QED
      BY <2>1, <3>1 DEF HealthGate, Goto, Finish, At
  <2>2. CASE LoadVersion(r)
    BY <1>p, <2>2 DEF LoadVersion, At, Request
  <2>3. CASE LoadRelease(r)
    BY <1>p, <2>3 DEF LoadRelease, Request
  <2>4. CASE CacheHit(r)
    BY <1>p, <2>s, <2>4 DEF CacheHit, Request
  <2>5. CASE CacheMiss(r) \/ BootstrapRetry(r) \/ FreezeManifest(r)
    BY <1>p, <2>5 DEF CacheMiss, BootstrapRetry, FreezeManifest, Goto, Request
  <2>6. CASE BootstrapFails(r)
    BY <2>6
  <2>7. CASE LoadStatic(r)
    <3>1. rq' # [rq EXCEPT ![r].pc = Resolved(r)]
      BY <1>p, <2>s DEF Request
    <3>2. QED
      BY <2>7, <3>1 DEF LoadStatic, Goto, At
  <2>8. QED
    BY <1>5, <2>1, <2>2, <2>3, <2>4, <2>5, <2>6, <2>7 DEF Resolve
<1>6. CASE Answer(r) \/ Report(r)
  <2>1. rq'[r] = [IdleRequest EXCEPT !.pc = "answered"]
    BY <1>p, <1>6 DEF Answer, Report, Finish
  <2>2. QED
    BY <2>1 DEF IdleRequest
<1>7. ~Restart
  BY DEF Restart, IdleRequest
<1>8. QED
  BY <1>1, <1>2, <1>3, <1>4, <1>5, <1>6, <1>7 DEF Next, Serve

\* None of those steps finds anything missing unless the heads moved.
LEMMA RefusedMoving ==
  ASSUME IInv, FInv, SInv, Next, NEW r \in Requests, Running(r), rq'[r].pc = "refused",
         0 \notin rq[r].vs, profile # "server"
  PROVE  \/ rq[r].moved >= IF OnS3 THEN 1 ELSE 2
         \/ SyncFails(r)
<1>1. /\ rq[r].moved \in Nat /\ Active(rq[r]) /\ Fresh(rq[r], disk) /\ Steady(rq[r], disk)
      /\ profile \in {"lambda", "local"}
  BY Parts DEF IInv, TypeOK, Profiles, FInv, SInv, Active, Running, Request
<1>2. \/ SyncFails(r)
      \/ At(r, "gate") /\ disk.head = Torn
      \/ At(r, "version") /\ ActiveVersion \notin Versions
      \/ BootstrapFails(r)
      \/ At(r, "load") /\ rq[r].key.release \notin disk.releases \cup {NoRelease}
      \/ SearchFails(r)
  BY RefusedBy
<1>3. ~(At(r, "load") /\ rq[r].key.release \notin disk.releases \cup {NoRelease})
  BY <1>1 DEF Steady, ReleaseHeld, At
<1>4. CASE profile = "lambda"
  <2> SUFFICES ASSUME rq[r].moved = 0 PROVE SyncFails(r)
    BY <1>1, <1>4 DEF OnS3
  <2>1. Copied(rq[r], disk)
    BY <1>1, <1>4 DEF Steady
  <2>2. remote.head \in Versions /\ remote.head # Torn
    BY <1>1, <1>4, Parts, ServingConstants DEF Fresh, OnS3, Versions, Torn
  <2>3. rq[r].pc \in Resolving => ActiveVersion = remote.head /\ disk.head = remote.head
                                  /\ remote.head \in disk.index \cap disk.lance
    BY <1>4, <2>1, <2>2 DEF Copied, ActiveVersion, HeadFile, OnS3
  <2>4. ~BootstrapFails(r)
    BY <2>1, <2>3 DEF Copied, BootstrapFails, ActiveManifestReads, HeadChanged, At
  <2>5. ~SearchFails(r)
    <3>1. \A q \in Requests \ {r} : ~Active(rq[q])
      BY <1>1, <1>4 DEF FInv
    <3>2. ~Overwritten(r, rq[r].key.version)
      BY <3>1 DEF Overwritten, Active
    <3>3. QED
      BY <2>1, <2>3, <3>2 DEF Copied, SearchFails, At
  <2>6. QED
    BY <1>2, <1>3, <2>2, <2>3, <2>4, <2>5 DEF At
<1>5. CASE profile = "local"
  <2>1. ~OnS3 /\ RetryLeft(rq[r], disk)
    BY <1>1, <1>5 DEF OnS3, Steady
  <2>2. disk.head \in Versions /\ disk.head \in disk.index /\ disk.index \subseteq disk.lance
    <3>1. disk.head \in 0 .. MaxVersion /\ disk.head # 0
      BY <1>1, <2>1, Parts DEF Fresh, Source
    <3>2. QED
      BY <2>1, <3>1 DEF SInv, SourceOK, Source, Versions
  <2>3. ActiveVersion = disk.head /\ disk.head # Torn
    BY <2>1, <2>2 DEF ActiveVersion, HeadRow, Versions, Torn
  <2>4. BootstrapFails(r) => rq[r].moved >= 2
    BY <2>1, <2>2, <2>3 DEF BootstrapFails, ActiveManifestReads, HeadChanged, At, RetryLeft, Behind
  <2>5. ~SearchFails(r)
    <3>1. \A q \in Requests : rq[q].pc \notin {"index", "lance"}
      BY <1>5, <2>1 DEF FInv, Fresh, Active
    <3>2. ~Overwritten(r, rq[r].key.version)
      BY <3>1 DEF Overwritten
    <3>3. QED
      BY <2>1, <2>2, <3>2 DEF SearchFails, At, RetryLeft
  <2>6. QED
    BY <1>2, <1>3, <2>1, <2>2, <2>3, <2>4, <2>5
<1>6. QED
  BY <1>1, <1>4, <1>5

\* query_lambda.rs, bin/query_lambda.rs: once something is published, whoever syncs alone
\* or does not sync is refused an answer only for heads that moved while it ran (twice
\* where there is no sync: one retry is enough for one publication), or a sync that failed.
THEOREM RefusalsExplained == Spec => RefusedOnlyWhenMoving
<1> DEFINE Explained == \A r \in Requests :
             Running(r) /\ rq'[r].pc = "refused" /\ 0 \notin rq[r].vs /\ profile # "server" =>
                 \/ rq[r].moved >= IF OnS3 THEN 1 ELSE 2
                 \/ SyncFails(r)
<1>1. IInv /\ FInv /\ SInv /\ [Next]_vars => [Explained]_vars
  BY RefusedMoving
<1>2. QED
  BY InvInit, InvNext, FreshInit, FreshNext, SteadyInit, SteadyNext, <1>1, PTL
     DEF Spec, RefusedOnlyWhenMoving

===============================================================================
