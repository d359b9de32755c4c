-------------------------- MODULE IndexPublishProofs --------------------------
(***************************************************************************)
(* Publishing keeps the active version whole and every version of one      *)
(* build, on S3 with any number of containers and on one machine with any  *)
(* number of builders, operators, builds and faults.                       *)
(***************************************************************************)
EXTENDS IndexPublish, TLAPS

Resting == {"idle", "retry"}
Publishing == {"upload", "put", "copy", "swap"}
Pcs == Resting \cup Publishing \cup {"assigned", "moving", "built"}

\* The parts before the one a builder in state q is at.
Before(q) == {Part[i] : i \in 1 .. q.part - 1}

\* The parts it has renamed into its staging tree, and those it has uploaded whole.
Placed(q) ==
  IF q.pc = "moving" THEN Before(q)
  ELSE IF q.pc = "built" \/ q.pc \in Publishing THEN Parts ELSE {}

Uploaded(q) ==
  IF q.pc = "swap" THEN Parts ELSE IF q.pc \in Publishing THEN Before(q) ELSE {}

\* What builder b relies on in state q: its parts are where it put them.
BuilderOK(b, q) ==
  /\ q.pc \notin Resting => q.version \in Versions /\ q.build \in 1 .. builds
  /\ q.pc \in {"assigned", "built"} => q.part = 1
  /\ \A p \in Placed(q) : staged[Site[b]][q.version][p] = q.build
  /\ q.pc \in Publishing => q.version > q.seen.version
  /\ \A p \in Uploaded(q) : store[q.version][p] = [build |-> q.build, done |-> TRUE]
  /\ q.pc = "put" => ~OnS3 /\ store[q.version][Part[q.part]] = Nothing
  /\ q.pc = "copy" => store[q.version][Part[q.part]] = [build |-> q.build, done |-> FALSE]

\* Builds are numbered.
BuildsDiffer ==
  \A a, b \in Builders :
      a # b /\ bs[a].pc \notin Resting /\ bs[b].pc \notin Resting => bs[a].build # bs[b].build

\* The parts of a version arrive in their order, each from the build of the first.
InOrder(parts) ==
  /\ \A p \in Parts : parts[p].build # Mixed /\ (parts[p].done => parts[p].build # 0)
  /\ parts["index"].build # 0 =>
        parts["lance"].done /\ parts["lance"].build = parts["index"].build
  /\ parts["manifest"].build # 0 =>
        parts["index"].done /\ parts["index"].build = parts["manifest"].build

StoreInv == \A v \in Versions : InOrder(store[v])

\* _head, and what an operator is about to write to it, name complete versions.
HeadInv ==
  /\ head # NoHead => head.version \in Versions /\ Complete(head.version)
  /\ \A o \in Operators :
        ops[o].pc = "swap" => ops[o].target \in Versions /\ Complete(ops[o].target)

IInv ==
  /\ TypeOK
  /\ \A b \in Builders : BuilderOK(b, bs[b])
  /\ BuildsDiffer
  /\ StoreInv
  /\ HeadInv

-------------------------------------------------------------------------------
(* States of a builder *)

LEMMA PartIs ==
  /\ Parts = {"lance", "index", "manifest"}
  /\ Part[1] = "lance" /\ Part[2] = "index" /\ Part[3] = "manifest"
  /\ \A i \in 1 .. 3 : Part[i] \in Parts
BY DEF Part, Parts

LEMMA BeforeIs ==
  ASSUME NEW q \in BuilderState
  PROVE  /\ Before(q) = IF q.part = 1 THEN {} ELSE IF q.part = 2 THEN {"lance"} ELSE {"lance", "index"}
         /\ Part[q.part] \in Parts \ Before(q)
<1>1. q.part \in 1 .. 3
  BY DEF BuilderState
<1>2. CASE q.part = 1
  BY <1>2, PartIs DEF Before
<1>3. CASE q.part = 2
  <2>1. 1 .. q.part - 1 = {1}
    BY <1>3
  <2>2. QED
    BY <1>3, <2>1, PartIs DEF Before
<1>4. CASE q.part = 3
  <2>1. 1 .. q.part - 1 = {1, 2}
    BY <1>4
  <2>2. QED
    BY <1>4, <2>1, PartIs DEF Before
<1>5. QED
  BY <1>1, <1>2, <1>3, <1>4

LEMMA RestIsState ==
  /\ Idle \in BuilderState /\ Idle.pc = "idle"
  /\ OpIdle \in OperatorState /\ OpIdle.pc = "idle"
  /\ NoHead \in Head /\ Nothing \in Stored
BY PublishConstants DEF Idle, BuilderState, OpIdle, OperatorState, NoHead, Head, Nothing, Stored, Mixed

\* A builder that is somewhere else.
LEMMA StateFields ==
  ASSUME NEW q \in BuilderState
  PROVE  /\ \A pc \in Pcs : /\ [q EXCEPT !.pc = pc] \in BuilderState
                            /\ [q EXCEPT !.pc = pc].pc = pc
                            /\ [q EXCEPT !.pc = pc].version = q.version
                            /\ [q EXCEPT !.pc = pc].build = q.build
                            /\ [q EXCEPT !.pc = pc].seen = q.seen
                            /\ [q EXCEPT !.pc = pc].part = q.part
BY DEF BuilderState, Pcs, Resting, Publishing

\* A builder that goes on to the next part.
LEMMA NextPart ==
  ASSUME NEW q \in BuilderState, q.part # 3, NEW pc \in Pcs
  PROVE  /\ [q EXCEPT !.pc = pc, !.part = @ + 1] \in BuilderState
         /\ [q EXCEPT !.pc = pc, !.part = @ + 1].pc = pc
         /\ [q EXCEPT !.pc = pc, !.part = @ + 1].version = q.version
         /\ [q EXCEPT !.pc = pc, !.part = @ + 1].build = q.build
         /\ [q EXCEPT !.pc = pc, !.part = @ + 1].seen = q.seen
         /\ [q EXCEPT !.pc = pc, !.part = @ + 1].part = q.part + 1
<1>1. q.part + 1 \in 1 .. 3
  BY DEF BuilderState
<1>2. QED
  BY <1>1 DEF BuilderState, Pcs, Resting, Publishing

\* A builder that has read the head.
LEMMA SeenFields ==
  ASSUME NEW q \in BuilderState, NEW h \in Head
  PROVE  /\ [q EXCEPT !.pc = "upload", !.seen = h] \in BuilderState
         /\ [q EXCEPT !.pc = "upload", !.seen = h].pc = "upload"
         /\ [q EXCEPT !.pc = "upload", !.seen = h].version = q.version
         /\ [q EXCEPT !.pc = "upload", !.seen = h].build = q.build
         /\ [q EXCEPT !.pc = "upload", !.seen = h].seen = h
         /\ [q EXCEPT !.pc = "upload", !.seen = h].part = q.part
BY DEF BuilderState

\* A builder whose last part was moved.
LEMMA BuiltFields ==
  ASSUME NEW q \in BuilderState
  PROVE  /\ [q EXCEPT !.pc = "built", !.part = 1] \in BuilderState
         /\ [q EXCEPT !.pc = "built", !.part = 1].pc = "built"
         /\ [q EXCEPT !.pc = "built", !.part = 1].version = q.version
         /\ [q EXCEPT !.pc = "built", !.part = 1].build = q.build
         /\ [q EXCEPT !.pc = "built", !.part = 1].seen = q.seen
         /\ [q EXCEPT !.pc = "built", !.part = 1].part = 1
<1>1. 1 \in 1 .. 3
  OBVIOUS
<1>2. QED
  BY <1>1 DEF BuilderState

\* The state of a build that was just allocated.
Started(v, expected, retried) ==
  [pc |-> "assigned", version |-> v, expected |-> expected, build |-> builds + 1,
   seen |-> NoHead, part |-> 1, retried |-> retried]

-------------------------------------------------------------------------------
(* Steps, by what they change *)

\* Two builds that have parts of one version in one place are one.
LEMMA OwnerIsOne ==
  ASSUME IInv, NEW a \in Builders, NEW b \in Builders, a # b, bs[a].version = bs[b].version
  PROVE  /\ Site[a] = Site[b] => \A p \in Parts : ~(p \in Placed(bs[a]) /\ p \in Placed(bs[b]))
         /\ \A p \in Parts : ~(p \in Uploaded(bs[a]) /\ p \in Uploaded(bs[b]))
<1>1. BuilderOK(a, bs[a]) /\ BuilderOK(b, bs[b]) /\ BuildsDiffer
  BY DEF IInv
<1>2. ASSUME NEW p, p \in Placed(bs[a]) \/ p \in Uploaded(bs[a]) PROVE bs[a].pc \notin Resting
  BY <1>2 DEF Placed, Uploaded, Resting, Publishing
<1>3. ASSUME NEW p, p \in Placed(bs[b]) \/ p \in Uploaded(bs[b]) PROVE bs[b].pc \notin Resting
  BY <1>3 DEF Placed, Uploaded, Resting, Publishing
<1>4. ASSUME NEW p \in Parts, Site[a] = Site[b], p \in Placed(bs[a]), p \in Placed(bs[b]) PROVE FALSE
  BY <1>1, <1>2, <1>3, <1>4 DEF BuilderOK, BuildsDiffer
<1>5. ASSUME NEW p \in Parts, p \in Uploaded(bs[a]), p \in Uploaded(bs[b]) PROVE FALSE
  BY <1>1, <1>2, <1>3, <1>5 DEF BuilderOK, BuildsDiffer
<1>6. QED
  BY <1>4, <1>5

\* A builder at rest relies on nothing.
LEMMA RestOK ==
  ASSUME NEW b \in Builders, NEW q \in BuilderState, q.pc \in Resting
  PROVE  BuilderOK(b, q)
BY DEF BuilderOK, Placed, Uploaded, Resting, Publishing

\* One builder moves, and nothing else does.
LEMMA QuietStep ==
  ASSUME IInv, NEW b \in Builders, NEW q \in BuilderState, bs' = [bs EXCEPT ![b] = q],
         UNCHANGED <<head, store, staged, ops, builds, lastAct>>, faults' \in 0 .. MaxFaults,
         \/ q.pc \in Resting
         \/ bs[b].pc \notin Resting /\ q.build = bs[b].build /\ BuilderOK(b, q)
  PROVE  IInv'
<1>1. bs' \in [Builders -> BuilderState] /\ bs'[b] = q /\ \A a \in Builders : a # b => bs'[a] = bs[a]
  BY DEF IInv, TypeOK
<1>2. TypeOK'
  BY <1>1 DEF IInv, TypeOK
<1>3. ASSUME NEW a \in Builders PROVE BuilderOK(a, bs[a])'
  <2>1. BuilderOK(a, bs'[a])
    BY <1>1, RestOK DEF IInv
  <2>2. QED
    BY <2>1 DEF BuilderOK
<1>4. BuildsDiffer'
  BY <1>1 DEF IInv, BuildsDiffer
<1>5. StoreInv'
  BY DEF IInv, StoreInv
<1>6. HeadInv'
  BY DEF IInv, HeadInv, Complete
<1>7. QED
  BY <1>2, <1>3, <1>4, <1>5, <1>6 DEF IInv

LEMMA GiveUpStep ==
  ASSUME IInv, NEW b \in Builders, GiveUp(b),
         UNCHANGED <<head, store, staged, ops, builds, lastAct>>, faults' \in 0 .. MaxFaults
  PROVE  IInv'
BY QuietStep, RestIsState DEF GiveUp, Resting

LEMMA ConflictStep ==
  ASSUME IInv, NEW b \in Builders, Conflict(b),
         UNCHANGED <<head, store, staged, ops, builds, lastAct, faults>>
  PROVE  IInv'
<1>1. faults' \in 0 .. MaxFaults /\ bs[b] \in BuilderState
  BY DEF IInv, TypeOK
<1>2. CASE GiveUp(b)
  BY <1>1, <1>2, GiveUpStep
<1>3. CASE Goto(b, "retry")
  <2> DEFINE q == [bs[b] EXCEPT !.pc = "retry"]
  <2>1. q \in BuilderState /\ q.pc \in Resting
    BY <1>1, StateFields DEF Pcs, Resting
  <2>2. bs' = [bs EXCEPT ![b] = q]
    BY <1>3 DEF Goto
  <2> HIDE DEF q
  <2>3. QED
    BY <1>1, <2>1, <2>2, QuietStep
<1>4. QED
  BY <1>2, <1>3 DEF Conflict

\* A build is started, under a number of its own.
LEMMA StartStep ==
  ASSUME IInv, NEW b \in Builders, NEW v, NEW expected \in 0 .. MaxVersion,
         NEW retried \in BOOLEAN, Start(b, v, expected, retried)
  PROVE  IInv'
<1> DEFINE q == Started(v, expected, retried)
<1>1. v \in Versions /\ builds \in 0 .. MaxBuilds /\ builds' = builds + 1 /\ builds + 1 \in 1 .. MaxBuilds
  BY PublishConstants DEF IInv, TypeOK, Start
<1>2. q \in BuilderState /\ q.pc = "assigned" /\ q.version = v /\ q.build = builds + 1 /\ q.part = 1
  BY <1>1, RestIsState DEF BuilderState, Started, Versions
<1>3. bs' = [bs EXCEPT ![b] = q]
  BY DEF Start, Started
<1> HIDE DEF q
<1>4. bs' \in [Builders -> BuilderState] /\ bs'[b] = q /\ \A a \in Builders : a # b => bs'[a] = bs[a]
  BY <1>2, <1>3 DEF IInv, TypeOK
<1>5. TypeOK'
  BY <1>1, <1>4 DEF IInv, TypeOK, Start
<1>6. ASSUME NEW a \in Builders PROVE BuilderOK(a, bs[a])'
  <2>1. CASE a = b
    BY <1>1, <1>2, <1>4, <2>1 DEF BuilderOK, Placed, Uploaded, Resting, Publishing
  <2>2. CASE a # b
    <3>1. BuilderOK(a, bs[a]) /\ bs'[a] = bs[a]
      BY <1>4, <2>2 DEF IInv
    <3>2. bs[a].build \in 1 .. builds => bs[a].build \in 1 .. builds'
      BY <1>1
    <3>3. QED
      BY <3>1, <3>2 DEF BuilderOK, Start
  <2>3. QED
    BY <2>1, <2>2
<1>7. BuildsDiffer'
  <2>1. \A a \in Builders : a # b /\ bs'[a].pc \notin Resting => bs'[a].build # bs'[b].build
    <3>1. ASSUME NEW a \in Builders, a # b, bs'[a].pc \notin Resting
          PROVE  bs'[a].build # bs'[b].build
      <4>1. bs[a].build \in 1 .. builds /\ bs'[a] = bs[a]
        BY <1>4, <3>1 DEF IInv, BuilderOK
      <4>2. QED
        BY <1>1, <1>2, <1>4, <4>1
    <3>2. QED
      BY <3>1
  <2>2. QED
    BY <1>4, <2>1 DEF IInv, BuildsDiffer
<1>8. StoreInv'
  BY DEF IInv, StoreInv, Start
<1>9. HeadInv'
  BY DEF IInv, HeadInv, Complete, Start
<1>10. QED
  BY <1>5, <1>6, <1>7, <1>8, <1>9 DEF IInv

\* A builder goes to pc.
LEMMA GotoStep ==
  ASSUME IInv, NEW b \in Builders, NEW pc \in Pcs, Goto(b, pc),
         UNCHANGED <<head, store, staged, ops, builds, lastAct, faults>>,
         bs[b].pc \notin Resting, BuilderOK(b, [bs[b] EXCEPT !.pc = pc])
  PROVE  IInv'
<1> DEFINE q == [bs[b] EXCEPT !.pc = pc]
<1>1. q \in BuilderState /\ q.build = bs[b].build
  BY StateFields DEF IInv, TypeOK
<1>2. bs' = [bs EXCEPT ![b] = q]
  BY DEF Goto
<1>3. faults' \in 0 .. MaxFaults
  BY DEF IInv, TypeOK
<1> HIDE DEF q
<1>4. BuilderOK(b, q)
  BY DEF q
<1>5. QED
  BY <1>1, <1>2, <1>3, <1>4, QuietStep

-------------------------------------------------------------------------------
(* The builder's steps *)

LEMMA StageKeeps ==
  ASSUME IInv, NEW b \in Builders, Stage(b)
  PROVE  IInv'
<1>1. faults' \in 0 .. MaxFaults /\ bs[b] \in BuilderState /\ BuilderOK(b, bs[b])
  BY DEF IInv, TypeOK, Stage
<1>2. CASE GiveUp(b)
  BY <1>1, <1>2, GiveUpStep DEF Stage
<1>3. CASE Goto(b, "moving")
  <2> DEFINE q == [bs[b] EXCEPT !.pc = "moving"]
  <2>1. /\ q \in BuilderState /\ q.pc = "moving" /\ q.version = bs[b].version
        /\ q.build = bs[b].build /\ q.part = bs[b].part
    BY <1>1, StateFields DEF Pcs, Resting, Publishing
  <2> HIDE DEF q
  <2>2. bs[b].pc = "assigned" /\ bs[b].part = 1
    BY <1>1 DEF Stage, At, BuilderOK
  <2>3. Before(q) = {}
    BY <2>1, <2>2, BeforeIs
  <2>4. BuilderOK(b, q)
    BY <1>1, <2>1, <2>2, <2>3 DEF BuilderOK, Placed, Uploaded, Publishing, Resting
  <2>5. QED
    BY <1>3, <2>2, <2>4, GotoStep DEF q, Stage, Pcs, Resting, Publishing
<1>4. QED
  BY <1>2, <1>3 DEF Stage

\* One builder writes to its staging tree, where nobody else has its parts.
LEMMA StagedStep ==
  ASSUME IInv, NEW b \in Builders, NEW q \in BuilderState, bs' = [bs EXCEPT ![b] = q],
         UNCHANGED <<head, store, ops, builds, lastAct>>, faults' \in 0 .. MaxFaults,
         staged' \in [Sites -> [Versions -> [Parts -> 0 .. MaxBuilds]]],
         \A a \in Builders \ {b} : \A p \in Placed(bs[a]) :
            staged'[Site[a]][bs[a].version][p] = staged[Site[a]][bs[a].version][p],
         \/ q.pc \in Resting
         \/ bs[b].pc \notin Resting /\ q.build = bs[b].build /\ BuilderOK(b, bs[b])'
  PROVE  IInv'
<1>1. bs' \in [Builders -> BuilderState] /\ bs'[b] = q /\ \A a \in Builders : a # b => bs'[a] = bs[a]
  BY DEF IInv, TypeOK
<1>2. TypeOK'
  BY <1>1 DEF IInv, TypeOK
<1>3. ASSUME NEW a \in Builders PROVE BuilderOK(a, bs[a])'
  <2>1. CASE a = b
    <3>1. bs'[b].pc \in Resting => BuilderOK(b, bs[b])'
      BY DEF BuilderOK, Placed, Uploaded, Resting, Publishing
    <3>2. QED
      BY <1>1, <2>1, <3>1 DEF BuilderOK
  <2>2. CASE a # b
    <3>1. BuilderOK(a, bs[a]) /\ bs'[a] = bs[a]
      BY <1>1, <2>2 DEF IInv
    <3>2. \A p \in Placed(bs[a]) : staged'[Site[a]][bs[a].version][p] = bs[a].build
      BY <2>2, <3>1 DEF BuilderOK
    <3>3. QED
      BY <3>1, <3>2 DEF BuilderOK
  <2>3. QED
    BY <2>1, <2>2
<1>4. BuildsDiffer'
  BY <1>1 DEF IInv, BuildsDiffer
<1>5. StoreInv'
  BY DEF IInv, StoreInv
<1>6. HeadInv'
  BY DEF IInv, HeadInv, Complete
<1>7. QED
  BY <1>2, <1>3, <1>4, <1>5, <1>6 DEF IInv

\* Whoever has a part somewhere has the first.
LEMMA FirstFirst ==
  ASSUME NEW q \in BuilderState
  PROVE  /\ Placed(q) # {} => "lance" \in Placed(q)
         /\ Uploaded(q) # {} => "lance" \in Uploaded(q)
         /\ Placed(q) \subseteq Parts /\ Uploaded(q) \subseteq Parts
BY BeforeIs, PartIs DEF Placed, Uploaded

\* StagedDir::commit, its clean-up, removes what nobody else relies on.
LEMMA UnmoveStep ==
  ASSUME IInv, NEW b \in Builders, At(b, "moving"), Unmove(b), GiveUp(b),
         UNCHANGED <<head, store, ops, builds, lastAct>>, faults' \in 0 .. MaxFaults
  PROVE  IInv'
<1> DEFINE s == Site[b]
           v == bs[b].version
           old == staged[s][v]
           new == [p \in Parts |-> IF p \in Moved(b) THEN 0 ELSE old[p]]
<1>1. /\ s \in Sites /\ v \in Versions /\ bs[b] \in BuilderState
      /\ staged \in [Sites -> [Versions -> [Parts -> 0 .. MaxBuilds]]]
  BY PublishConstants DEF IInv, TypeOK, BuilderOK, At, Resting
<1>2. new \in [Parts -> 0 .. MaxBuilds]
  BY <1>1, PublishConstants
<1>3. staged' = [staged EXCEPT ![s][v] = new]
  BY <1>1 DEF Unmove
<1>4. Moved(b) = Placed(bs[b])
  BY DEF Moved, Placed, Before, At
<1>5. ASSUME NEW a \in Builders \ {b}, NEW p \in Placed(bs[a])
      PROVE  staged'[Site[a]][bs[a].version][p] = staged[Site[a]][bs[a].version][p]
  <2>1. /\ p \in Parts /\ Site[a] \in Sites
        /\ bs[a].version = v /\ Site[a] = s => p \notin Moved(b)
    BY <1>4, FirstFirst, OwnerIsOne, PublishConstants DEF IInv, TypeOK
  <2>2. CASE bs[a].version = v /\ Site[a] = s
    <3>1. new[p] = old[p]
      BY <2>1, <2>2
    <3>2. staged'[s][v] = new
      BY <1>1, <1>3
    <3>3. QED
      BY <2>2, <3>1, <3>2
  <2>3. CASE ~(bs[a].version = v /\ Site[a] = s)
    BY <1>1, <1>3, <2>1, <2>3
  <2>4. QED
    BY <2>2, <2>3
<1> HIDE DEF new
<1>6. staged' \in [Sites -> [Versions -> [Parts -> 0 .. MaxBuilds]]]
  BY <1>1, <1>2, <1>3
<1>7. QED
  BY <1>5, <1>6, StagedStep, RestIsState DEF GiveUp, Resting

LEMMA MoveKeeps ==
  ASSUME IInv, NEW b \in Builders, Move(b)
  PROVE  IInv'
<1> DEFINE s == Site[b]
           v == bs[b].version
           n == bs[b].build
           p == PartOf(b)
           q == IF bs[b].part = 3 THEN [bs[b] EXCEPT !.pc = "built", !.part = 1]
                ELSE [bs[b] EXCEPT !.part = @ + 1]
<1>1. /\ s \in Sites /\ v \in Versions /\ n \in 1 .. builds /\ n \in 0 .. MaxBuilds
      /\ bs[b] \in BuilderState /\ bs[b].pc = "moving" /\ p \in Parts
      /\ staged \in [Sites -> [Versions -> [Parts -> 0 .. MaxBuilds]]]
      /\ bs \in [Builders -> BuilderState]
      /\ BuilderOK(b, bs[b]) /\ faults' \in 0 .. MaxFaults
  <2>1. /\ bs \in [Builders -> BuilderState] /\ builds \in 0 .. MaxBuilds
        /\ staged \in [Sites -> [Versions -> [Parts -> 0 .. MaxBuilds]]]
        /\ BuilderOK(b, bs[b]) /\ faults' \in 0 .. MaxFaults /\ bs[b].pc = "moving"
    BY DEF IInv, TypeOK, Move, At
  <2>2. bs[b] \in BuilderState /\ Site[b] \in Sites
    BY <2>1, PublishConstants
  <2>3. bs[b].version \in Versions /\ bs[b].build \in 1 .. builds
    BY <2>1 DEF BuilderOK, Resting
  <2>4. PartOf(b) \in Parts
    BY <2>2, BeforeIs DEF PartOf
  <2>5. bs[b].build \in 0 .. MaxBuilds
    BY <2>1, <2>3, PublishConstants
  <2>6. QED
    BY <2>1, <2>2, <2>3, <2>4, <2>5
<1>2. CASE ~Movable(b)
  BY <1>1, <1>2, UnmoveStep DEF Move
<1>3. CASE Movable(b)
  <2>1. staged' = [staged EXCEPT ![s][v][p] = n]
    BY <1>3 DEF Move
  <2>2. staged' \in [Sites -> [Versions -> [Parts -> 0 .. MaxBuilds]]]
    BY <1>1, <2>1
  <2>3. /\ staged'[s][v][p] = n
        /\ \A t \in Sites, w \in Versions, r \in Parts :
              t # s \/ w # v \/ r # p => staged'[t][w][r] = staged[t][w][r]
    BY <1>1, <2>1
  <2>4. bs' = [bs EXCEPT ![b] = q]
    BY <1>1, <1>3 DEF Move
  <2>5. /\ q \in BuilderState /\ q.build = n /\ q.version = v
        /\ q.pc \notin Resting /\ q.pc \notin Publishing /\ q.pc # "assigned"
        /\ IF bs[b].part = 3 THEN q.pc = "built" /\ q.part = 1
           ELSE q.pc = "moving" /\ q.part = bs[b].part + 1
    <3>1. CASE bs[b].part = 3
      BY <1>1, <3>1, BuiltFields DEF Resting, Publishing
    <3>2. CASE bs[b].part # 3
      <4>1. bs[b].part + 1 \in 1 .. 3
        BY <1>1, <3>2 DEF BuilderState
      <4>2. QED
        BY <1>1, <3>2, <4>1 DEF BuilderState, Resting, Publishing
    <3>3. QED
      BY <3>1, <3>2
  <2> HIDE DEF q
  <2>6. Placed(q) = Placed(bs[b]) \cup {p}
    BY <1>1, <2>5, BeforeIs, PartIs DEF Placed, PartOf, Publishing, BuilderState
  <2>7. BuilderOK(b, bs[b])'
    <3>0. bs'[b] = q
      BY <1>1, <2>4
    <3>1. \A r \in Placed(q) : staged'[s][v][r] = n
      BY <1>1, <2>3, <2>6, FirstFirst DEF BuilderOK
    <3>2. builds' = builds
      BY DEF Move
    <3>3. QED
      BY <1>1, <2>5, <3>0, <3>1, <3>2 DEF BuilderOK, Uploaded, Publishing
  <2>8. ASSUME NEW a \in Builders \ {b}, NEW r \in Placed(bs[a])
        PROVE  staged'[Site[a]][bs[a].version][r] = staged[Site[a]][bs[a].version][r]
    <3>1. /\ bs[a] \in BuilderState /\ Site[a] \in Sites /\ r \in Parts
          /\ "lance" \in Placed(bs[a]) /\ BuilderOK(a, bs[a])
      BY <1>1, FirstFirst, PublishConstants DEF IInv
    <3>2. bs[a].pc \notin Resting
      BY DEF Placed, Resting, Publishing
    <3>3. bs[a].version \in Versions /\ staged[Site[a]][bs[a].version]["lance"] # 0
      BY <3>1, <3>2 DEF BuilderOK
    <3>4. bs[a].version = v => Site[a] # s
      <4>1. CASE bs[b].part = 1
        <5>1. p = "lance"
          BY <4>1, PartIs DEF PartOf
        <5>2. staged[s][v]["lance"] = 0
          BY <1>3, <5>1 DEF Movable, StagedAt, PartOf
        <5>3. QED
          BY <3>3, <5>2
      <4>2. CASE bs[b].part # 1
        <5>1. "lance" \in Placed(bs[b])
          BY <1>1, <4>2, BeforeIs DEF Placed
        <5>2. QED
          BY <3>1, <5>1, OwnerIsOne, PartIs
      <4>3. QED
        BY <4>1, <4>2
    <3>5. QED
      BY <2>3, <3>1, <3>3, <3>4
  <2>9. QED
    <3>1. UNCHANGED <<head, store, ops, builds, lastAct>> /\ bs[b].pc \notin Resting
      BY <1>1 DEF Move, Resting
    <3>2. QED
      BY <1>1, <2>2, <2>4, <2>5, <2>7, <2>8, <3>1, StagedStep
<1>4. QED
  BY <1>2, <1>3

-------------------------------------------------------------------------------
(* The publisher's steps *)

LEMMA PrepareKeeps ==
  ASSUME IInv, NEW b \in Builders, Prepare(b)
  PROVE  IInv'
<1>1. /\ bs[b] \in BuilderState /\ head \in Head /\ bs[b].pc = "built" /\ BuilderOK(b, bs[b])
      /\ faults' \in 0 .. MaxFaults
  BY DEF IInv, TypeOK, Prepare, At
<1>2. CASE Conflict(b)
  BY <1>2, ConflictStep DEF Prepare
<1>3. CASE GiveUp(b)
  BY <1>1, <1>3, GiveUpStep DEF Prepare
<1>4. CASE Supersedes(b) /\ bs' = [bs EXCEPT ![b].pc = "upload", ![b].seen = head]
  <2> DEFINE q == [bs[b] EXCEPT !.pc = "upload", !.seen = head]
  <2>1. bs' = [bs EXCEPT ![b] = q]
    BY <1>1, <1>4 DEF IInv, TypeOK
  <2>2. /\ q \in BuilderState /\ q.pc = "upload" /\ q.version = bs[b].version
        /\ q.build = bs[b].build /\ q.seen = head /\ q.part = bs[b].part
    BY <1>1, SeenFields
  <2> HIDE DEF q
  <2>3. q.part = 1
    BY <1>1, <2>2 DEF BuilderOK
  <2>4. Uploaded(q) = {} /\ Placed(q) = Placed(bs[b])
    BY <1>1, <2>2, <2>3, BeforeIs DEF Uploaded, Placed, Publishing
  <2>5. BuilderOK(b, q)
    BY <1>1, <1>4, <2>2, <2>4 DEF BuilderOK, Supersedes, Publishing, Resting
  <2>6. QED
    BY <1>1, <2>1, <2>2, <2>5, QuietStep DEF Prepare, Resting
<1>5. QED
  BY <1>2, <1>3, <1>4 DEF Prepare

LEMMA CheckAbsentKeeps ==
  ASSUME IInv, NEW b \in Builders, CheckAbsent(b)
  PROVE  IInv'
<1>1. /\ bs[b] \in BuilderState /\ bs[b].pc = "upload" /\ BuilderOK(b, bs[b])
      /\ faults' \in 0 .. MaxFaults
  BY DEF IInv, TypeOK, CheckAbsent, At
<1>2. CASE GiveUp(b)
  BY <1>1, <1>2, GiveUpStep DEF CheckAbsent
<1>3. CASE PartStored(b) = Nothing /\ Goto(b, "put")
  <2> DEFINE q == [bs[b] EXCEPT !.pc = "put"]
  <2>1. /\ q \in BuilderState /\ q.pc = "put" /\ q.version = bs[b].version
        /\ q.build = bs[b].build /\ q.seen = bs[b].seen /\ q.part = bs[b].part
    BY <1>1, StateFields DEF Pcs, Publishing
  <2> HIDE DEF q
  <2>2. Placed(q) = Placed(bs[b]) /\ Uploaded(q) = Uploaded(bs[b])
    BY <1>1, <2>1 DEF Placed, Uploaded, Before, Publishing
  <2>3. BuilderOK(b, q)
    BY <1>1, <1>3, <2>1, <2>2 DEF BuilderOK, CheckAbsent, PartStored, PartOf, Publishing, Resting
  <2>4. QED
    BY <1>1, <1>3, <2>3, GotoStep DEF q, CheckAbsent, Pcs, Publishing, Resting
<1>4. QED
  BY <1>2, <1>3 DEF CheckAbsent

\* A version that is complete stays as it is while no finished part is touched.
LEMMA CompleteStays ==
  ASSUME NEW v \in Versions, Complete(v),
         \A p \in Parts : store[v][p].done => store'[v][p] = store[v][p]
  PROVE  Complete(v)'
<1>1. PICK n \in 1 .. MaxBuilds : \A p \in Parts : store[v][p] = [build |-> n, done |-> TRUE]
  BY DEF Complete
<1>2. \A p \in Parts : store[v][p].done
  BY <1>1
<1>3. QED
  BY <1>1, <1>2 DEF Complete

\* One builder writes the part it is at: nobody else relies on that part.
LEMMA StoreStep ==
  ASSUME IInv, NEW b \in Builders, NEW q \in BuilderState, bs' = [bs EXCEPT ![b] = q],
         UNCHANGED <<head, staged, ops, builds, lastAct, faults>>,
         NEW part \in Stored,
         bs[b].pc \in Publishing, q.pc \in Publishing, q.build = bs[b].build,
         store' = [store EXCEPT ![bs[b].version][PartOf(b)] = part],
         \/ PartStored(b) = Nothing
         \/ PartStored(b) = [build |-> bs[b].build, done |-> FALSE],
         InOrder(store'[bs[b].version]), BuilderOK(b, bs[b])'
  PROVE  IInv'
<1> DEFINE v == bs[b].version
           p == PartOf(b)
<1>1. /\ bs \in [Builders -> BuilderState] /\ store \in [Versions -> [Parts -> Stored]]
      /\ BuilderOK(b, bs[b]) /\ bs[b].pc \notin Resting
  BY DEF IInv, TypeOK, Publishing, Resting
<1>2. v \in Versions /\ p \in Parts
  BY <1>1, BeforeIs DEF BuilderOK, PartOf
<1>3. bs' \in [Builders -> BuilderState] /\ bs'[b] = q /\ \A a \in Builders : a # b => bs'[a] = bs[a]
  BY <1>1
<1>4. /\ store' \in [Versions -> [Parts -> Stored]]
      /\ \A w \in Versions, r \in Parts : w # v \/ r # p => store'[w][r] = store[w][r]
  BY <1>1, <1>2
<1>5. TypeOK'
  BY <1>3, <1>4 DEF IInv, TypeOK
<1>6. ~store[v][p].done /\ store[v][p] \in Stored
  <2>1. store[v][p] = PartStored(b)
    BY DEF PartStored
  <2>2. QED
    BY <1>1, <1>2, <2>1 DEF Nothing
<1>7. ASSUME NEW a \in Builders, a # b PROVE BuilderOK(a, bs[a])'
  <2>1. BuilderOK(a, bs[a]) /\ bs'[a] = bs[a] /\ bs[a] \in BuilderState
    BY <1>1, <1>3, <1>7 DEF IInv
  <2>2. bs[a].pc \in Publishing => bs[a].version \in Versions /\ bs[a].pc \notin Resting
    BY <2>1 DEF BuilderOK, Publishing, Resting
  <2>3. ASSUME NEW r \in Uploaded(bs[a])
        PROVE  store'[bs[a].version][r] = [build |-> bs[a].build, done |-> TRUE]
    <3>1. bs[a].pc \in Publishing /\ r \in Parts
      BY <2>1, FirstFirst DEF Uploaded, Publishing
    <3>2. store[bs[a].version][r] = [build |-> bs[a].build, done |-> TRUE]
      BY <2>1 DEF BuilderOK
    <3>3. bs[a].version # v \/ r # p
      BY <1>6, <3>2
    <3>4. QED
      BY <1>4, <2>2, <3>1, <3>2, <3>3
  <2>4. CASE bs[a].pc = "put"
    <3>1. /\ ~OnS3 /\ bs[a].version \in Versions /\ Part[bs[a].part] \in Parts
          /\ store[bs[a].version][Part[bs[a].part]] = Nothing
      BY <2>1, <2>2, <2>4, BeforeIs DEF BuilderOK, Publishing
    <3>2. "lance" \in Placed(bs[a]) /\ "lance" \in Placed(bs[b]) /\ "lance" \in Parts
      BY <2>4, PartIs DEF Placed, Publishing
    <3>3. bs[a].version # v
      BY <1>7, <3>1, <3>2, OwnerIsOne, PublishConstants
    <3>4. store'[bs[a].version][Part[bs[a].part]] = Nothing
      BY <1>4, <3>1, <3>3
    <3>5. QED
      BY <2>1, <2>3, <2>4, <3>1, <3>4 DEF BuilderOK
  <2>5. CASE bs[a].pc = "copy"
    <3>1. /\ bs[a].version \in Versions /\ Part[bs[a].part] \in Parts
          /\ store[bs[a].version][Part[bs[a].part]] = [build |-> bs[a].build, done |-> FALSE]
          /\ bs[a].build # 0 /\ bs[a].build # bs[b].build
      BY <1>1, <1>7, <2>1, <2>2, <2>5, BeforeIs DEF BuilderOK, Publishing, IInv, BuildsDiffer
    <3>2. bs[a].version # v \/ Part[bs[a].part] # p
      BY <3>1 DEF PartStored, Nothing
    <3>3. store'[bs[a].version][Part[bs[a].part]] = [build |-> bs[a].build, done |-> FALSE]
      BY <1>4, <3>1, <3>2
    <3>4. QED
      BY <2>1, <2>3, <2>5, <3>3 DEF BuilderOK
  <2>6. CASE bs[a].pc \notin {"put", "copy"}
    BY <2>1, <2>3, <2>6 DEF BuilderOK
  <2>7. QED
    BY <2>4, <2>5, <2>6
<1>8. BuildsDiffer'
  BY <1>1, <1>3 DEF IInv, BuildsDiffer
<1>9. StoreInv'
  <2>1. ASSUME NEW w \in Versions, w # v PROVE InOrder(store'[w])
    <3>1. \A r \in Parts : store'[w][r] = store[w][r]
      BY <1>4, <2>1
    <3>2. InOrder(store[w])
      BY DEF IInv, StoreInv
    <3>3. QED
      BY <3>1, <3>2, PartIs DEF InOrder
  <2>2. QED
    BY <2>1 DEF StoreInv
<1>10. HeadInv'
  <2>1. ASSUME NEW w \in Versions, Complete(w) PROVE Complete(w)'
    <3>1. \A r \in Parts : store[w][r].done => store'[w][r] = store[w][r]
      BY <1>4, <1>6
    <3>2. QED
      BY <2>1, <3>1, CompleteStays
  <2>2. QED
    BY <2>1 DEF IInv, HeadInv
<1>11. QED
  BY <1>5, <1>7, <1>8, <1>9, <1>10 DEF IInv

\* CreateOnly succeeds: the part is there, and is this build's.
LEMMA PutStep ==
  ASSUME IInv, NEW b \in Builders, bs[b].pc \in {"upload", "put"}, PartStored(b) = Nothing,
         store' = [store EXCEPT ![bs[b].version][PartOf(b)] = [build |-> bs[b].build, done |-> FALSE]],
         Goto(b, "copy"), UNCHANGED <<head, staged, ops, builds, lastAct, faults>>
  PROVE  IInv'
<1> DEFINE v == bs[b].version
           p == PartOf(b)
           n == bs[b].build
           new == [build |-> n, done |-> FALSE]
           q == [bs[b] EXCEPT !.pc = "copy"]
<1>1. /\ bs \in [Builders -> BuilderState] /\ store \in [Versions -> [Parts -> Stored]]
      /\ BuilderOK(b, bs[b]) /\ bs[b].pc \notin Resting /\ bs[b].pc \in Publishing
      /\ bs[b] \in BuilderState /\ builds \in 0 .. MaxBuilds /\ InOrder(store[v])
  BY DEF IInv, TypeOK, Publishing, Resting, BuilderOK, StoreInv
<1>2. v \in Versions /\ p \in Parts /\ n \in 1 .. MaxBuilds
  <2>1. v \in Versions /\ n \in 1 .. builds
    BY <1>1 DEF BuilderOK
  <2>2. p \in Parts
    BY <1>1, BeforeIs DEF PartOf
  <2>3. QED
    BY <1>1, <2>1, <2>2, PublishConstants
<1>3. n # 0 /\ n # Mixed /\ new \in Stored
  BY <1>2, PublishConstants DEF Stored, Mixed
<1>4. /\ q \in BuilderState /\ q.pc = "copy" /\ q.version = v
      /\ q.build = n /\ q.seen = bs[b].seen /\ q.part = bs[b].part
  BY <1>1, StateFields DEF Pcs, Publishing
<1>5. bs' = [bs EXCEPT ![b] = q]
  BY DEF Goto
<1> HIDE DEF q
<1>6. bs'[b] = q
  BY <1>1, <1>5
<1>7. /\ store'[v][p] = new
      /\ \A r \in Parts : r # p => store'[v][r] = store[v][r]
  BY <1>1, <1>2
<1>8. Placed(q) = Placed(bs[b]) /\ Uploaded(q) = Uploaded(bs[b]) /\ p \notin Uploaded(bs[b])
  <2>1. Before(q) = Before(bs[b])
    BY <1>4 DEF Before
  <2>2. Uploaded(bs[b]) = Before(bs[b])
    BY DEF Uploaded, Publishing
  <2>3. QED
    BY <1>1, <1>4, <2>1, <2>2, BeforeIs DEF Placed, Uploaded, Publishing, PartOf
<1>9. \A r \in Uploaded(bs[b]) : store'[v][r] = [build |-> n, done |-> TRUE] /\ store[v][r] = store'[v][r]
  BY <1>1, <1>7, <1>8, FirstFirst DEF BuilderOK
<1>10. BuilderOK(b, bs[b])'
  <2>1. store'[v][Part[q.part]] = [build |-> n, done |-> FALSE]
    BY <1>4, <1>7 DEF PartOf
  <2>2. q.pc # "put" /\ q.pc \notin {"assigned", "built"} /\ q.pc \in Publishing
    BY <1>4 DEF Publishing
  <2>3. QED
    BY <1>1, <1>4, <1>6, <1>8, <1>9, <2>1, <2>2 DEF BuilderOK
<1>11. InOrder(store'[v])
  <2>1. store[v][p] = Nothing
    BY DEF PartStored
  <2>2. CASE bs[b].part = 1
    <3>1. p = "lance"
      BY <2>2, PartIs DEF PartOf
    <3>2. QED
      BY <1>1, <1>3, <1>7, <2>1, <3>1, PartIs DEF InOrder, Nothing
  <2>3. CASE bs[b].part = 2
    <3>1. p = "index" /\ Uploaded(bs[b]) = {"lance"}
      BY <1>1, <2>3, PartIs, BeforeIs DEF PartOf, Uploaded, Publishing
    <3>2. QED
      BY <1>1, <1>3, <1>7, <1>9, <2>1, <3>1, PartIs DEF InOrder, Nothing
  <2>4. CASE bs[b].part = 3
    <3>1. p = "manifest" /\ Uploaded(bs[b]) = {"lance", "index"}
      BY <1>1, <2>4, PartIs, BeforeIs DEF PartOf, Uploaded, Publishing
    <3>2. QED
      BY <1>1, <1>3, <1>7, <1>9, <2>1, <3>1, PartIs DEF InOrder, Nothing
  <2>5. QED
    BY <1>1, <2>2, <2>3, <2>4 DEF BuilderState
<1>12. q.pc \in Publishing
  BY <1>4 DEF Publishing
<1>13. QED
  BY <1>1, <1>3, <1>4, <1>5, <1>10, <1>11, <1>12, StoreStep

LEMMA PutLocalKeeps ==
  ASSUME IInv, NEW b \in Builders, PutLocal(b)
  PROVE  IInv'
<1>1. /\ BuilderOK(b, bs[b]) /\ bs[b].pc = "put" /\ bs[b] \in BuilderState
      /\ store \in [Versions -> [Parts -> Stored]]
  BY DEF IInv, TypeOK, PutLocal, At
<1>2. PartStored(b) = Nothing /\ PartOf(b) \in Parts /\ bs[b].version \in Versions
  BY <1>1, BeforeIs DEF BuilderOK, PartStored, PartOf, Resting
<1>3. StagedAt(b)[PartOf(b)] = bs[b].build
  BY <1>1, <1>2 DEF BuilderOK, StagedAt, Placed, Publishing
<1>4. store' = [store EXCEPT ![bs[b].version][PartOf(b)] = [build |-> bs[b].build, done |-> FALSE]]
  BY <1>1, <1>2, <1>3 DEF PutLocal, PartStored, Nothing
<1>5. QED
  BY <1>1, <1>2, <1>4, PutStep DEF PutLocal

LEMMA PutS3Keeps ==
  ASSUME IInv, NEW b \in Builders, PutS3(b)
  PROVE  IInv'
<1>1. /\ BuilderOK(b, bs[b]) /\ bs[b].pc = "upload" /\ bs[b] \in BuilderState
      /\ faults' \in 0 .. MaxFaults
  BY DEF IInv, TypeOK, PutS3, At
<1>2. CASE PartStored(b) # Nothing
  BY <1>1, <1>2, GiveUpStep DEF PutS3
<1>3. CASE PartStored(b) = Nothing
  <2>1. StagedAt(b)[PartOf(b)] = bs[b].build
    BY <1>1, BeforeIs DEF BuilderOK, StagedAt, Placed, Publishing, PartOf
  <2>2. store' = [store EXCEPT ![bs[b].version][PartOf(b)] = [build |-> bs[b].build, done |-> FALSE]]
    BY <1>3, <2>1 DEF PutS3
  <2>3. QED
    BY <1>1, <1>3, <2>2, PutStep DEF PutS3
<1>4. QED
  BY <1>2, <1>3

\* The record of a part whose last byte has arrived.
LEMMA Finished ==
  ASSUME NEW part \in Stored, NEW n, part = [build |-> n, done |-> FALSE]
  PROVE  [part EXCEPT !.done = TRUE] = [build |-> n, done |-> TRUE]
<1> DEFINE new == [part EXCEPT !.done = TRUE]
<1>1. new \in Stored /\ new.build = n /\ new.done = TRUE
  BY DEF Stored
<1> HIDE DEF new
<1>2. new = [build |-> n, done |-> TRUE]
  BY <1>1 DEF Stored
<1>3. QED
  BY <1>2 DEF new

\* What FinishPart does: its part, which was this build's, is finished.
LEMMA FinishEffect ==
  ASSUME IInv, NEW b \in Builders, FinishPart(b)
  PROVE  /\ bs[b] \in BuilderState /\ bs[b].pc = "copy" /\ BuilderOK(b, bs[b])
         /\ bs[b].version \in Versions /\ PartOf(b) \in Parts
         /\ bs[b].build \in 1 .. MaxBuilds /\ InOrder(store[bs[b].version])
         /\ PartStored(b) = [build |-> bs[b].build, done |-> FALSE]
         /\ store' = [store EXCEPT ![bs[b].version][PartOf(b)] = [build |-> bs[b].build, done |-> TRUE]]
<1>1. /\ BuilderOK(b, bs[b]) /\ bs[b].pc = "copy" /\ bs[b] \in BuilderState
      /\ store \in [Versions -> [Parts -> Stored]] /\ builds \in 0 .. MaxBuilds
  BY DEF IInv, TypeOK, FinishPart, At
<1>2. /\ PartStored(b) = [build |-> bs[b].build, done |-> FALSE] /\ PartOf(b) \in Parts
      /\ bs[b].version \in Versions /\ bs[b].build \in 1 .. builds
  BY <1>1, BeforeIs DEF BuilderOK, PartStored, PartOf, Resting
<1>3. [PartStored(b) EXCEPT !.done = TRUE] = [build |-> bs[b].build, done |-> TRUE]
  <2>1. PartStored(b) \in Stored
    BY <1>1, <1>2 DEF PartStored
  <2>2. QED
    BY <1>2, <2>1, Finished
<1>4. store' = [store EXCEPT ![bs[b].version][PartOf(b)] = [build |-> bs[b].build, done |-> TRUE]]
  BY <1>1, <1>2, <1>3 DEF FinishPart, PartStored
<1>5. InOrder(store[bs[b].version])
  BY <1>2 DEF IInv, StoreInv
<1>6. bs[b].build \in 1 .. MaxBuilds
  BY <1>1, <1>2, PublishConstants
<1>7. QED
  BY <1>1, <1>2, <1>4, <1>5, <1>6

\* The last byte of a part: the publisher goes on to the next part, or to _head.
LEMMA FinishKeeps ==
  ASSUME IInv, NEW b \in Builders, FinishPart(b)
  PROVE  IInv'
<1> DEFINE v == bs[b].version
           p == PartOf(b)
           n == bs[b].build
           new == [build |-> n, done |-> TRUE]
           q == IF bs[b].part = 3 THEN [bs[b] EXCEPT !.pc = "swap"]
                ELSE [bs[b] EXCEPT !.pc = "upload", !.part = @ + 1]
<1>1. /\ bs[b] \in BuilderState /\ bs[b].pc = "copy" /\ BuilderOK(b, bs[b])
      /\ v \in Versions /\ p \in Parts /\ n \in 1 .. MaxBuilds /\ InOrder(store[v])
      /\ PartStored(b) = [build |-> n, done |-> FALSE]
      /\ store' = [store EXCEPT ![v][p] = new]
  BY FinishEffect
<1>2. bs \in [Builders -> BuilderState] /\ store \in [Versions -> [Parts -> Stored]]
  BY DEF IInv, TypeOK
<1>3. new \in Stored /\ n # 0 /\ n # Mixed
  BY <1>1, PublishConstants DEF Stored, Mixed
<1>4. /\ q \in BuilderState /\ q.version = v /\ q.build = n /\ q.seen = bs[b].seen
      /\ IF bs[b].part = 3 THEN q.pc = "swap" ELSE q.pc = "upload" /\ q.part = bs[b].part + 1
  <2>1. "swap" \in Pcs /\ "upload" \in Pcs
    BY DEF Pcs, Publishing
  <2>2. CASE bs[b].part = 3
    BY <1>1, <2>1, <2>2, StateFields
  <2>3. CASE bs[b].part # 3
    BY <1>1, <2>1, <2>3, NextPart
  <2>4. QED
    BY <2>2, <2>3
<1>5. bs' = [bs EXCEPT ![b] = q]
  BY <1>2 DEF FinishPart, Goto
<1> HIDE DEF q
<1>6. q.pc \in Publishing /\ bs[b].pc \in Publishing /\ bs[b].pc \notin Resting
  BY <1>1, <1>4 DEF Publishing, Resting
<1>7. bs'[b] = q /\ store'[v][p] = new /\ \A r \in Parts : r # p => store'[v][r] = store[v][r]
  BY <1>1, <1>2, <1>5
<1>8. store[v][p] = [build |-> n, done |-> FALSE]
  BY <1>1 DEF PartStored
<1>9. Placed(q) = Parts /\ Placed(bs[b]) = Parts
  BY <1>1, <1>4, <1>6 DEF Placed, Publishing
<1>10. /\ Uploaded(bs[b]) = Before(bs[b]) /\ p \notin Before(bs[b])
       /\ Uploaded(q) = Before(bs[b]) \cup {p}
  <2>1. Uploaded(bs[b]) = Before(bs[b]) /\ p \notin Before(bs[b])
    BY <1>1, BeforeIs DEF Uploaded, Publishing, PartOf
  <2>2. CASE bs[b].part = 3
    <3>1. p = "manifest" /\ Before(bs[b]) = {"lance", "index"}
      BY <1>1, <2>2, PartIs, BeforeIs DEF PartOf
    <3>2. QED
      BY <1>4, <2>1, <2>2, <3>1, PartIs DEF Uploaded
  <2>3. CASE bs[b].part = 2
    <3>1. p = "index" /\ Before(bs[b]) = {"lance"} /\ Before(q) = {"lance", "index"}
      BY <1>1, <1>4, <2>3, PartIs, BeforeIs DEF PartOf
    <3>2. QED
      BY <1>4, <2>1, <2>3, <3>1 DEF Uploaded, Publishing
  <2>4. CASE bs[b].part = 1
    <3>1. p = "lance" /\ Before(bs[b]) = {} /\ Before(q) = {"lance"}
      BY <1>1, <1>4, <2>4, PartIs, BeforeIs DEF PartOf
    <3>2. QED
      BY <1>4, <2>1, <2>4, <3>1 DEF Uploaded, Publishing
  <2>5. QED
    BY <1>1, <2>2, <2>3, <2>4 DEF BuilderState
<1>11. \A r \in Before(bs[b]) : r \in Parts /\ store'[v][r] = new /\ store[v][r] = new
  BY <1>1, <1>7, <1>10, FirstFirst DEF BuilderOK
<1>12. BuilderOK(b, bs[b])'
  <2>1. \A r \in Uploaded(q) : store'[v][r] = new
    BY <1>7, <1>10, <1>11
  <2>2. q.pc \notin {"assigned", "built", "put", "copy"} /\ q.pc \notin Resting
    BY <1>4 DEF Resting
  <2>3. staged' = staged /\ builds' = builds
    BY DEF FinishPart
  <2>4. QED
    BY <1>1, <1>4, <1>6, <1>7, <1>9, <2>1, <2>2, <2>3 DEF BuilderOK
<1>13. InOrder(store'[v])
  BY <1>1, <1>3, <1>7, <1>8, PartIs DEF InOrder
<1>14. QED
  <2>1. UNCHANGED <<head, staged, ops, builds, lastAct, faults>>
    BY DEF FinishPart
  <2>2. QED
    BY <1>1, <1>3, <1>4, <1>5, <1>6, <1>12, <1>13, <2>1, StoreStep

-------------------------------------------------------------------------------
(* _head *)

\* Whoever is about to write _head has a complete version.
LEMMA UploadedComplete ==
  ASSUME IInv, NEW b \in Builders, At(b, "swap")
  PROVE  bs[b].version \in Versions /\ Complete(bs[b].version)
<1>1. BuilderOK(b, bs[b]) /\ bs[b].pc = "swap" /\ builds \in 0 .. MaxBuilds
  BY DEF IInv, TypeOK, At
<1>2. /\ bs[b].version \in Versions /\ bs[b].build \in 1 .. builds
      /\ \A p \in Parts : store[bs[b].version][p] = [build |-> bs[b].build, done |-> TRUE]
  BY <1>1 DEF BuilderOK, Uploaded, Resting
<1>3. bs[b].build \in 1 .. MaxBuilds
  BY <1>1, <1>2, PublishConstants
<1>4. QED
  BY <1>2, <1>3 DEF Complete

\* A builder activates its version.
LEMMA SwapStep ==
  ASSUME IInv, NEW b \in Builders, NEW at \in 1 .. MaxAt, At(b, "swap"),
         Activate("publish", bs[b].version, bs[b].seen.version, at), GiveUp(b),
         UNCHANGED <<store, staged, ops, builds>>, faults' \in 0 .. MaxFaults
  PROVE  IInv'
<1>1. bs[b] \in BuilderState /\ bs[b].version \in Versions /\ Complete(bs[b].version)
  BY UploadedComplete DEF IInv, TypeOK
<1>2. bs[b].seen.version \in 0 .. MaxVersion /\ bs[b].version \in 0 .. MaxVersion
  BY <1>1 DEF BuilderState, Head
<1>3. head' \in Head /\ head'.version = bs[b].version
  BY <1>2 DEF Activate, Head
<1>4. lastAct' \in [kind : {"none", "publish", "rollback"},
                    version : 0 .. MaxVersion, prev : 0 .. MaxVersion]
  BY <1>2 DEF Activate
<1>5. /\ bs' \in [Builders -> BuilderState] /\ bs'[b].pc \in Resting
      /\ \A a \in Builders : a # b => bs'[a] = bs[a]
  BY RestIsState DEF GiveUp, IInv, TypeOK, Resting
<1>6. TypeOK'
  BY <1>3, <1>4, <1>5 DEF IInv, TypeOK
<1>7. ASSUME NEW a \in Builders PROVE BuilderOK(a, bs[a])'
  <2>1. BuilderOK(a, bs'[a])
    BY <1>5, RestOK DEF IInv
  <2>2. QED
    BY <2>1 DEF BuilderOK
<1>8. BuildsDiffer'
  BY <1>5 DEF IInv, BuildsDiffer
<1>9. StoreInv'
  BY DEF IInv, StoreInv
<1>10. HeadInv'
  BY <1>1, <1>3 DEF IInv, HeadInv, Complete
<1>11. QED
  BY <1>6, <1>7, <1>8, <1>9, <1>10 DEF IInv

LEMMA SwapKeeps ==
  ASSUME IInv, NEW b \in Builders, NEW at \in 1 .. MaxAt, Swap(b, at)
  PROVE  IInv'
<1>1. faults' \in 0 .. MaxFaults
  BY DEF IInv, TypeOK, Swap
<1>2. CASE head = bs[b].seen
  BY <1>1, <1>2, SwapStep DEF Swap
<1>3. CASE head # bs[b].seen
  BY <1>3, ConflictStep DEF Swap
<1>4. QED
  BY <1>2, <1>3

\* A complete version is all a manifest needs.
LEMMA ManifestComplete ==
  ASSUME IInv, NEW v \in Versions, store[v]["manifest"].done
  PROVE  Complete(v)
<1> DEFINE n == store[v]["manifest"].build
<1>1. /\ store[v] \in [Parts -> Stored] /\ InOrder(store[v])
      /\ \A p \in Parts : store[v][p] \in Stored
  BY DEF IInv, TypeOK, StoreInv
<1>2. \A p \in Parts : store[v][p].done /\ store[v][p].build = n
  BY <1>1, PartIs DEF InOrder
<1>3. n \in 1 .. MaxBuilds
  <2>1. n \in 0 .. Mixed /\ n # Mixed /\ n # 0
    BY <1>1, <1>2, PartIs DEF Stored, InOrder
  <2>2. QED
    BY <2>1, PublishConstants DEF Mixed
<1>4. \A p \in Parts : store[v][p] = [build |-> n, done |-> TRUE]
  BY <1>1, <1>2 DEF Stored
<1>5. QED
  BY <1>3, <1>4 DEF Complete

\* An operator moves, and perhaps _head does.
LEMMA OperatorStep ==
  ASSUME IInv, NEW o \in Operators, NEW t \in OperatorState, ops' = [ops EXCEPT ![o] = t],
         UNCHANGED <<store, staged, bs, builds, faults>>,
         head' \in Head, head' # head => head'.version \in Versions /\ Complete(head'.version),
         lastAct' \in [kind : {"none", "publish", "rollback"},
                       version : 0 .. MaxVersion, prev : 0 .. MaxVersion],
         t.pc = "swap" => t.target \in Versions /\ Complete(t.target)
  PROVE  IInv'
<1>1. ops' \in [Operators -> OperatorState] /\ ops'[o] = t /\ \A r \in Operators : r # o => ops'[r] = ops[r]
  BY DEF IInv, TypeOK
<1>2. TypeOK'
  BY <1>1 DEF IInv, TypeOK
<1>3. ASSUME NEW a \in Builders PROVE BuilderOK(a, bs[a])'
  BY DEF IInv, BuilderOK
<1>4. BuildsDiffer' /\ StoreInv'
  BY DEF IInv, BuildsDiffer, StoreInv
<1>5. \A v \in Versions : Complete(v) => Complete(v)'
  BY DEF Complete
<1>6. HeadInv'
  BY <1>1, <1>5 DEF IInv, HeadInv
<1>7. QED
  BY <1>2, <1>3, <1>4, <1>6 DEF IInv

LEMMA RollbackReadKeeps ==
  ASSUME IInv, NEW o \in Operators, NEW target \in Versions, NEW expected \in 0 .. MaxVersion,
         RollbackRead(o, target, expected)
  PROVE  IInv'
<1> DEFINE t == [pc |-> "swap", target |-> target, seen |-> head]
<1>1. t \in OperatorState /\ t.pc = "swap" /\ t.target = target
  BY DEF IInv, TypeOK, OperatorState, Versions
<1>2. Complete(target)
  BY ManifestComplete DEF RollbackRead
<1>3. ops' = [ops EXCEPT ![o] = t] /\ UNCHANGED <<head, store, staged, bs, builds, lastAct, faults>>
  BY DEF RollbackRead
<1> HIDE DEF t
<1>4. head' \in Head /\ head' = head
      /\ lastAct' \in [kind : {"none", "publish", "rollback"},
                       version : 0 .. MaxVersion, prev : 0 .. MaxVersion]
  BY <1>3 DEF IInv, TypeOK
<1>5. QED
  BY <1>1, <1>2, <1>3, <1>4, OperatorStep

LEMMA RollbackSwapKeeps ==
  ASSUME IInv, NEW o \in Operators, NEW at \in 1 .. MaxAt, RollbackSwap(o, at)
  PROVE  IInv'
<1>1. /\ ops[o] \in OperatorState /\ ops[o].pc = "swap"
      /\ ops[o].target \in Versions /\ Complete(ops[o].target)
      /\ head \in Head
  BY DEF IInv, TypeOK, HeadInv, RollbackSwap
<1>2. ops[o].target \in 0 .. MaxVersion /\ ops[o].seen.version \in 0 .. MaxVersion
  BY <1>1 DEF OperatorState, Head
<1>3. /\ head' \in Head /\ (head' # head => head'.version = ops[o].target)
      /\ lastAct' \in [kind : {"none", "publish", "rollback"},
                       version : 0 .. MaxVersion, prev : 0 .. MaxVersion]
  <2>1. CASE head = ops[o].seen
    BY <1>2, <2>1 DEF RollbackSwap, Activate, Head
  <2>2. CASE head # ops[o].seen
    BY <2>2 DEF RollbackSwap, IInv, TypeOK
  <2>3. QED
    BY <2>1, <2>2
<1>4. ops' = [ops EXCEPT ![o] = OpIdle] /\ UNCHANGED <<store, staged, bs, builds, faults>>
  BY DEF RollbackSwap
<1>5. QED
  BY <1>1, <1>3, <1>4, RestIsState, OperatorStep

-------------------------------------------------------------------------------
(* Faults, and the invariant *)

LEMMA IoErrorKeeps ==
  ASSUME IInv, NEW b \in Builders, IoError(b)
  PROVE  IInv'
<1>1. faults' \in 0 .. MaxFaults
  BY PublishConstants DEF IInv, TypeOK, IoError, Fault
<1>2. CASE At(b, "moving")
  BY <1>1, <1>2, UnmoveStep DEF IoError
<1>3. CASE ~At(b, "moving")
  BY <1>1, <1>3, GiveUpStep DEF IoError
<1>4. QED
  BY <1>2, <1>3

LEMMA CrashKeeps ==
  ASSUME IInv, NEW b \in Builders, Crash(b)
  PROVE  IInv'
<1>1. faults' \in 0 .. MaxFaults
  BY PublishConstants DEF IInv, TypeOK, Crash, Fault
<1>2. QED
  BY <1>1, GiveUpStep DEF Crash

LEMMA SwapUnansweredKeeps ==
  ASSUME IInv, NEW b \in Builders, NEW at \in 1 .. MaxAt, SwapUnanswered(b, at)
  PROVE  IInv'
<1>1. faults' \in 0 .. MaxFaults
  BY PublishConstants DEF IInv, TypeOK, SwapUnanswered, Fault
<1>2. QED
  BY <1>1, SwapStep DEF SwapUnanswered

LEMMA RecycleKeeps ==
  ASSUME IInv, NEW s \in Sites, Recycle(s)
  PROVE  IInv'
<1>1. \A t \in Sites : t # s => staged'[t] = staged[t]
  BY DEF Recycle, IInv, TypeOK
<1>2. staged' \in [Sites -> [Versions -> [Parts -> 0 .. MaxBuilds]]]
  <2>1. [v \in Versions |-> [p \in Parts |-> 0]] \in [Versions -> [Parts -> 0 .. MaxBuilds]]
    BY PublishConstants
  <2>2. QED
    BY <2>1 DEF Recycle, IInv, TypeOK
<1>3. TypeOK'
  BY <1>2 DEF IInv, TypeOK, Recycle
<1>4. ASSUME NEW a \in Builders PROVE BuilderOK(a, bs[a])'
  <2>1. BuilderOK(a, bs[a])
    BY DEF IInv
  <2>2. CASE Site[a] = s
    <3>1. Placed(bs[a]) = {}
      BY <2>2 DEF Recycle, At, Placed, Publishing
    <3>2. QED
      BY <2>1, <3>1 DEF BuilderOK, Recycle
  <2>3. CASE Site[a] # s
    <3>1. staged'[Site[a]] = staged[Site[a]]
      BY <1>1, <2>3, PublishConstants
    <3>2. QED
      BY <2>1, <3>1 DEF BuilderOK, Recycle
  <2>4. QED
    BY <2>2, <2>3
<1>5. BuildsDiffer' /\ StoreInv'
  BY DEF IInv, BuildsDiffer, StoreInv, Recycle
<1>6. HeadInv'
  BY DEF IInv, HeadInv, Complete, Recycle
<1>7. QED
  BY <1>3, <1>4, <1>5, <1>6 DEF IInv

LEMMA IInvInit == Init => IInv
<1> SUFFICES ASSUME Init PROVE IInv
  OBVIOUS
<1>1. TypeOK
  BY PublishConstants, RestIsState DEF Init, TypeOK, Versions
<1>2. ASSUME NEW b \in Builders PROVE BuilderOK(b, bs[b])
  BY RestIsState, RestOK DEF Init, Resting
<1>3. BuildsDiffer
  BY RestIsState DEF Init, BuildsDiffer, Resting
<1>4. StoreInv
  <2>1. 0 # Mixed /\ Nothing.build = 0 /\ ~Nothing.done
    BY PublishConstants DEF Mixed, Nothing
  <2>2. QED
    BY <2>1, PartIs DEF Init, StoreInv, InOrder
<1>5. HeadInv
  BY RestIsState DEF Init, HeadInv
<1>6. QED
  BY <1>1, <1>2, <1>3, <1>4, <1>5 DEF IInv

LEMMA StutterKeeps == IInv /\ UNCHANGED vars => IInv'
<1> SUFFICES ASSUME IInv, UNCHANGED vars PROVE IInv'
  OBVIOUS
<1>1. TypeOK'
  BY DEF IInv, TypeOK, vars
<1>2. ASSUME NEW b \in Builders PROVE BuilderOK(b, bs[b])'
  BY DEF IInv, BuilderOK, vars
<1>3. BuildsDiffer' /\ StoreInv'
  BY DEF IInv, BuildsDiffer, StoreInv, vars
<1>4. HeadInv'
  BY DEF IInv, HeadInv, Complete, vars
<1>5. QED
  BY <1>1, <1>2, <1>3, <1>4 DEF IInv

LEMMA IInvNext == IInv /\ [Next]_vars => IInv'
<1> SUFFICES ASSUME IInv, [Next]_vars PROVE IInv'
  OBVIOUS
<1>1. ASSUME NEW w \in Workers, Allocate(w) PROVE IInv'
  <2>1. w \in Builders /\ head.version \in 0 .. MaxVersion
    BY DEF Builders, IInv, TypeOK, Head
  <2>2. QED
    BY <1>1, <2>1, StartStep DEF Allocate
<1>2. ASSUME NEW c \in Callers, NEW v \in Versions, Request(c, v) PROVE IInv'
  <2>1. c \in Builders /\ 0 \in 0 .. MaxVersion
    BY PublishConstants DEF Builders
  <2>2. Start(c, v, 0, FALSE)
    BY <1>2 DEF Request
  <2>3. QED
    BY <2>1, <2>2, StartStep
<1>3. ASSUME NEW b \in Builders, BuildStep(b) PROVE IInv'
  BY <1>3, StageKeeps, MoveKeeps DEF BuildStep
<1>4. ASSUME NEW b \in Builders, PublishStep(b) PROVE IInv'
  BY <1>4, PrepareKeeps, CheckAbsentKeeps, PutLocalKeeps, PutS3Keeps, FinishKeeps, SwapKeeps
  DEF PublishStep
<1>5. ASSUME NEW o \in Operators, NEW target \in Versions, NEW expected \in 0 .. MaxVersion,
             RollbackRead(o, target, expected)
      PROVE  IInv'
  BY <1>5, RollbackReadKeeps
<1>6. ASSUME NEW o \in Operators, NEW at \in 1 .. MaxAt, RollbackSwap(o, at) PROVE IInv'
  BY <1>6, RollbackSwapKeeps
<1>7. ASSUME NEW b \in Builders, IoError(b) \/ Crash(b) PROVE IInv'
  BY <1>7, IoErrorKeeps, CrashKeeps
<1>8. ASSUME NEW b \in Builders, NEW at \in 1 .. MaxAt, SwapUnanswered(b, at) PROVE IInv'
  BY <1>8, SwapUnansweredKeeps
<1>9. ASSUME NEW s \in Sites, Recycle(s) PROVE IInv'
  BY <1>9, RecycleKeeps
<1>10. QED
  BY <1>1, <1>2, <1>3, <1>4, <1>5, <1>6, <1>7, <1>8, <1>9, StutterKeeps DEF Next

\* publisher.rs, builder.rs: publish storage and _head stay in order, with any
\* number of workers, callers, operators, sites, versions, builds and faults.
THEOREM PublishInvariant == Spec => []IInv
BY IInvInit, IInvNext, PTL DEF Spec

\* Every state of publishing has the types of TypeOK.
THEOREM PublishTypeCorrect == Spec => []TypeOK
<1>1. IInv => TypeOK
  BY DEF IInv
<1>2. QED
  BY <1>1, PublishInvariant, PTL

\* publisher.rs: whatever crashes, races and rollbacks happen, _head names a
\* version whose three parts are there, whole, and from one build.
THEOREM HeadAlwaysServable == Spec => []HeadServable
<1>1. IInv => HeadServable
  BY DEF IInv, HeadInv, HeadServable
<1>2. QED
  BY <1>1, PublishInvariant, PTL

\* fs_publish.rs, s3_publish.rs: the parts of a stored version are of one build.
THEOREM NeverMixed == Spec => []VersionsNotMixed
<1>1. ASSUME NEW v \in Versions, InOrder(store[v]), NEW p \in Parts, NEW q \in Parts
      PROVE  /\ store[v][p].build # Mixed
             /\ store[v][p].build # 0 /\ store[v][q].build # 0 => store[v][p].build = store[v][q].build
  BY <1>1, PartIs DEF InOrder
<1>2. IInv => VersionsNotMixed
  BY <1>1 DEF IInv, StoreInv, VersionsNotMixed
<1>3. QED
  BY <1>2, PublishInvariant, PTL

-------------------------------------------------------------------------------
(* Activations *)

\* Who writes _head, and what it says then.
LEMMA HeadChanges ==
  ASSUME [Next]_vars, head' # head
  PROVE  \/ \E b \in Builders, at \in 1 .. MaxAt :
               At(b, "swap") /\ head = bs[b].seen
               /\ Activate("publish", bs[b].version, bs[b].seen.version, at)
         \/ \E o \in Operators, at \in 1 .. MaxAt :
               ops[o].pc = "swap" /\ head = ops[o].seen
               /\ Activate("rollback", ops[o].target, ops[o].seen.version, at)
<1>1. ASSUME NEW b \in Builders, PublishStep(b)
      PROVE  \E at \in 1 .. MaxAt : Swap(b, at)
  BY <1>1 DEF PublishStep, Prepare, CheckAbsent, PutLocal, PutS3, FinishPart
<1>2. ASSUME NEW b \in Builders, NEW at \in 1 .. MaxAt, Swap(b, at)
      PROVE  At(b, "swap") /\ head = bs[b].seen
             /\ Activate("publish", bs[b].version, bs[b].seen.version, at)
  BY <1>2 DEF Swap
<1>3. ASSUME NEW b \in Builders, NEW at \in 1 .. MaxAt, SwapUnanswered(b, at)
      PROVE  At(b, "swap") /\ head = bs[b].seen
             /\ Activate("publish", bs[b].version, bs[b].seen.version, at)
  BY <1>3 DEF SwapUnanswered
<1>4. ASSUME NEW o \in Operators, NEW at \in 1 .. MaxAt, RollbackSwap(o, at)
      PROVE  ops[o].pc = "swap" /\ head = ops[o].seen
             /\ Activate("rollback", ops[o].target, ops[o].seen.version, at)
  BY <1>4 DEF RollbackSwap
<1>5. \/ \E b \in Builders : PublishStep(b)
      \/ \E b \in Builders, at \in 1 .. MaxAt : SwapUnanswered(b, at)
      \/ \E o \in Operators, at \in 1 .. MaxAt : RollbackSwap(o, at)
  BY DEF Next, vars, Allocate, Request, Start, BuildStep, Stage, Move, RollbackRead, IoError,
         Crash, Recycle
<1>6. QED
  BY <1>1, <1>2, <1>3, <1>4, <1>5

\* publisher.rs: an activation replaces the head its author saw, and a publish
\* raises the version, whatever happened since that head was read.
THEOREM ActivationsOrdered == Spec => ActivationsInOrder
<1>1. ASSUME IInv, [Next]_vars, head' # head
      PROVE  /\ lastAct'.prev = head.version
             /\ lastAct'.version = head'.version
             /\ lastAct'.kind = "publish" => head'.version > head.version
  <2>1. ASSUME NEW b \in Builders, NEW at \in 1 .. MaxAt, At(b, "swap"), head = bs[b].seen,
               Activate("publish", bs[b].version, bs[b].seen.version, at)
        PROVE  /\ lastAct'.prev = head.version
               /\ lastAct'.version = head'.version
               /\ head'.version > head.version
    <3>1. bs[b].version > bs[b].seen.version
      BY <1>1, <2>1 DEF IInv, BuilderOK, At, Publishing
    <3>2. QED
      BY <2>1, <3>1 DEF Activate
  <2>2. ASSUME NEW o \in Operators, NEW at \in 1 .. MaxAt, head = ops[o].seen,
               Activate("rollback", ops[o].target, ops[o].seen.version, at)
        PROVE  /\ lastAct'.prev = head.version
               /\ lastAct'.version = head'.version
               /\ lastAct'.kind # "publish"
    BY <2>2 DEF Activate
  <2>3. QED
    BY <1>1, <2>1, <2>2, HeadChanges
<1>2. QED
  BY <1>1, PublishInvariant, PTL DEF Spec, ActivationsInOrder

-------------------------------------------------------------------------------
(* The catalogue *)

\* A version is finished when its manifest is: then it is complete.
FinishedOK ==
  \A v \in Versions :
      /\ FinishedBuild(v) = IF store[v]["manifest"].done THEN store[v]["manifest"].build ELSE 0
      /\ Complete(v) => FinishedBuild(v) # 0

LEMMA FinishedIs == IInv => FinishedOK
<1> SUFFICES ASSUME IInv, NEW v \in Versions
             PROVE  /\ FinishedBuild(v) = IF store[v]["manifest"].done
                                          THEN store[v]["manifest"].build ELSE 0
                    /\ Complete(v) => FinishedBuild(v) # 0
  BY DEF FinishedOK
<1>1. store[v]["manifest"].done => \A p \in Parts : store[v][p].done
  BY PartIs DEF IInv, StoreInv, InOrder
<1>2. Complete(v) => store[v]["manifest"].done /\ store[v]["manifest"].build # 0
  BY PartIs DEF Complete
<1>3. FinishedBuild(v) = IF store[v]["manifest"].done THEN store[v]["manifest"].build ELSE 0
  BY <1>1, PartIs DEF FinishedBuild
<1>4. QED
  BY <1>2, <1>3

LEMMA FinishedWillBe == IInv' => FinishedOK'
BY FinishedIs, PTL

\* No version is finished, and a finished one is as it was.
ManifestsStay ==
  \A v \in Versions :
      /\ store'[v]["manifest"].done = store[v]["manifest"].done
      /\ store[v]["manifest"].done => store'[v]["manifest"] = store[v]["manifest"]

LEMMA CatalogStays ==
  ASSUME IInv, IInv', ManifestsStay
  PROVE  [v \in Versions |-> FinishedBuild(v)]' = [v \in Versions |-> FinishedBuild(v)]
<1>1. FinishedOK /\ FinishedOK'
  BY FinishedIs, FinishedWillBe
<1>2. \A v \in Versions : FinishedBuild(v)' = FinishedBuild(v)
  BY <1>1 DEF FinishedOK, ManifestsStay
<1>3. QED
  BY <1>2

\* Until its last part is there, a version that is being written stays unfinished.
LEMMA UnfinishedStays ==
  ASSUME IInv, NEW b \in Builders, PutLocal(b) \/ PutS3(b) \/ (FinishPart(b) /\ bs[b].part # 3)
  PROVE  ManifestsStay
<1>1. /\ store \in [Versions -> [Parts -> Stored]] /\ bs[b] \in BuilderState /\ BuilderOK(b, bs[b])
  BY DEF IInv, TypeOK
<1>2. bs[b].pc \in Publishing /\ bs[b].pc \notin Resting
  BY DEF PutLocal, PutS3, FinishPart, At, Publishing, Resting
<1>3. /\ bs[b].version \in Versions /\ PartOf(b) \in Parts /\ PartOf(b) = Part[bs[b].part]
      /\ PartStored(b) = store[bs[b].version][PartOf(b)]
  BY <1>1, <1>2, BeforeIs DEF BuilderOK, PartOf, PartStored
<1>4. ASSUME NEW n, PartStored(b) = Nothing,
             store' = [store EXCEPT ![bs[b].version][PartOf(b)] = [build |-> n, done |-> FALSE]]
      PROVE  ManifestsStay
  <2>1. ~store[bs[b].version][PartOf(b)].done /\ ~store'[bs[b].version][PartOf(b)].done
    BY <1>1, <1>3, <1>4 DEF Nothing
  <2>2. \A v \in Versions, p \in Parts :
           v # bs[b].version \/ p # PartOf(b) => store'[v][p] = store[v][p]
    BY <1>1, <1>3, <1>4
  <2>3. store[bs[b].version][PartOf(b)].done \in BOOLEAN
        /\ store'[bs[b].version][PartOf(b)].done \in BOOLEAN
    BY <1>1, <1>3, <1>4 DEF Stored
  <2>4. QED
    BY <2>1, <2>2, <2>3, PartIs DEF ManifestsStay
<1>5. CASE PutLocal(b)
  <2>1. PartStored(b) = Nothing
    BY <1>1, <1>3, <1>5 DEF BuilderOK, PutLocal, At
  <2>2. QED
    BY <1>1, <1>3, <1>4, <1>5, <2>1 DEF PutLocal
<1>6. CASE PutS3(b) /\ PartStored(b) = Nothing
  BY <1>4, <1>6 DEF PutS3
<1>7. CASE PutS3(b) /\ PartStored(b) # Nothing
  BY <1>7 DEF PutS3, ManifestsStay
<1>8. CASE FinishPart(b) /\ bs[b].part # 3
  <2>1. PartOf(b) # "manifest"
    BY <1>1, <1>3, <1>8, PartIs DEF BuilderState
  <2>2. store' = [store EXCEPT ![bs[b].version][PartOf(b)].done = TRUE]
    BY <1>8 DEF FinishPart
  <2>3. \A v \in Versions : store'[v]["manifest"] = store[v]["manifest"]
    BY <1>1, <1>3, <2>1, <2>2, PartIs
  <2>4. QED
    BY <2>3 DEF ManifestsStay
<1>9. QED
  BY <1>5, <1>6, <1>7, <1>8

\* The last part enters the version into the catalogue.
LEMMA LastPartEnters ==
  ASSUME IInv, IInv', NEW b \in Builders, FinishPart(b), bs[b].part = 3
  PROVE  Catalog!Enter(bs[b].version, bs[b].build) /\ bs[b].build \in 0 .. Mixed
<1>1. /\ bs[b].version \in Versions /\ PartOf(b) = "manifest" /\ "manifest" \in Parts
      /\ bs[b].build \in 1 .. MaxBuilds
      /\ PartStored(b) = [build |-> bs[b].build, done |-> FALSE]
      /\ store' = [store EXCEPT ![bs[b].version][PartOf(b)] = [build |-> bs[b].build, done |-> TRUE]]
      /\ store \in [Versions -> [Parts -> Stored]]
  BY FinishEffect, PartIs DEF PartOf, IInv, TypeOK
<1>2. SUFFICES ASSUME NEW v \in Versions, v = bs[b].version, NEW n \in 1 .. MaxBuilds, n = bs[b].build
               PROVE  Catalog!Enter(v, n) /\ n \in 0 .. Mixed
  BY <1>1
<1>3. store[v]["manifest"] = [build |-> n, done |-> FALSE]
  BY <1>1, <1>2 DEF PartStored
<1>4. /\ store'[v]["manifest"] = [build |-> n, done |-> TRUE]
      /\ \A w \in Versions : w # v => store'[w]["manifest"] = store[w]["manifest"]
  BY <1>1, <1>2
<1>5. FinishedOK /\ FinishedOK'
  BY FinishedIs, FinishedWillBe
<1>6. FinishedBuild(v) = 0 /\ FinishedBuild(v)' = n
  BY <1>3, <1>4, <1>5 DEF FinishedOK
<1>7. \A w \in Versions : w # v => FinishedBuild(w)' = FinishedBuild(w)
  BY <1>4, <1>5 DEF FinishedOK
<1>8. [w \in Versions |-> FinishedBuild(w)]' =
          [[w \in Versions |-> FinishedBuild(w)] EXCEPT ![v] = n]
  BY <1>6, <1>7
<1>9. n # 0 /\ n \in 0 .. Mixed
  BY PublishConstants DEF Mixed
<1>10. head' = head
  BY DEF FinishPart
<1>11. QED
  BY <1>6, <1>8, <1>9, <1>10 DEF Catalog!Enter

\* Writing _head makes a version active that is in the catalogue.
LEMMA ActivatesFinished ==
  ASSUME IInv, IInv', [Next]_vars, head' # head, ManifestsStay
  PROVE  \E v \in Versions : Catalog!MakeActive(v)
<1>1. PICK v \in Versions : Complete(v) /\ head'.version = v
  <2>1. ASSUME NEW b \in Builders, At(b, "swap") PROVE bs[b].version \in Versions /\ Complete(bs[b].version)
    BY <2>1, UploadedComplete
  <2>2. ASSUME NEW o \in Operators, ops[o].pc = "swap"
        PROVE  ops[o].target \in Versions /\ Complete(ops[o].target)
    BY <2>2 DEF IInv, HeadInv
  <2>3. QED
    BY <2>1, <2>2, HeadChanges DEF Activate
<1>2. FinishedBuild(v) # 0
  BY <1>1, FinishedIs DEF FinishedOK
<1>3. [w \in Versions |-> FinishedBuild(w)]' = [w \in Versions |-> FinishedBuild(w)]
  BY CatalogStays
<1>4. Catalog!MakeActive(v)
  BY <1>1, <1>2, <1>3 DEF Catalog!MakeActive
<1>5. QED
  BY <1>4

LEMMA CatalogStep ==
  ASSUME IInv, IInv', [Next]_vars
  PROVE  [Catalog!CatalogNext]_(Catalog!cvars)
<1>1. CASE \E b \in Builders : FinishPart(b) /\ bs[b].part = 3
  <2>1. PICK b \in Builders : FinishPart(b) /\ bs[b].part = 3
    BY <1>1
  <2>2. bs[b].version \in Versions
    BY <2>1, FinishEffect
  <2>3. QED
    BY <2>1, <2>2, LastPartEnters DEF Catalog!CatalogNext
<1>2. CASE ~\E b \in Builders : FinishPart(b) /\ bs[b].part = 3
  <2>1. ManifestsStay
    <3>1. CASE \E b \in Builders : PutLocal(b) \/ PutS3(b) \/ FinishPart(b)
      <4>1. PICK b \in Builders : PutLocal(b) \/ PutS3(b) \/ FinishPart(b)
        BY <3>1
      <4>2. FinishPart(b) => bs[b].part # 3
        BY <1>2
      <4>3. QED
        BY <4>1, <4>2, UnfinishedStays
    <3>2. CASE ~\E b \in Builders : PutLocal(b) \/ PutS3(b) \/ FinishPart(b)
      <4>1. UNCHANGED store
        <5>1. ASSUME NEW b \in Builders, PublishStep(b) PROVE UNCHANGED store
          BY <3>2, <5>1 DEF PublishStep, Prepare, CheckAbsent, Swap
        <5>2. ASSUME NEW b \in Builders, BuildStep(b) PROVE UNCHANGED store
          BY <5>2 DEF BuildStep, Stage, Move
        <5>3. QED
          BY <5>1, <5>2 DEF Next, vars, Allocate, Request, Start, RollbackRead, RollbackSwap,
                            IoError, Crash, SwapUnanswered, Recycle
      <4>2. QED
        BY <4>1 DEF ManifestsStay
    <3>3. QED
      BY <3>1, <3>2
  <2>2. CASE head' # head
    BY <2>1, <2>2, ActivatesFinished DEF Catalog!CatalogNext
  <2>3. CASE head' = head
    <3>1. [v \in Versions |-> FinishedBuild(v)]' = [v \in Versions |-> FinishedBuild(v)]
      BY <2>1, CatalogStays
    <3>2. QED
      BY <2>3, <3>1 DEF Catalog!cvars
  <2>4. QED
    BY <2>2, <2>3
<1>3. QED
  BY <1>1, <1>2

\* publisher.rs, fs_publish.rs, s3_publish.rs: the parts, the renames, the
\* uploads and the heads of all builders implement the catalogue of versions.
THEOREM PublishingImplementsCatalog == Spec => ImplementsCatalog
<1>1. Init => Catalog!CatalogInit
  <2> SUFFICES ASSUME Init PROVE Catalog!CatalogInit
    OBVIOUS
  <2>1. \A v \in Versions : FinishedBuild(v) = 0
    BY PartIs DEF Init, FinishedBuild, Nothing
  <2>2. QED
    BY <2>1 DEF Init, NoHead, Catalog!CatalogInit
<1>2. IInv /\ IInv' /\ [Next]_vars => [Catalog!CatalogNext]_(Catalog!cvars)
  BY CatalogStep
<1>3. QED
  BY <1>1, <1>2, PublishInvariant, PTL DEF Spec, ImplementsCatalog, Catalog!Spec
===============================================================================
