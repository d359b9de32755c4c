------------------------------ MODULE Snapshot ------------------------------
(***************************************************************************)
(* Which documents a full snapshot holds: the write API appends segments   *)
(* to the WAL (write/api.rs, write/wal.rs), a build replays all of them in *)
(* the order of their keys (build_worker.rs, builder.rs).                  *)
(*                                                                         *)
(* A key is wal/YYYY/MM/DD/batch-<uuid>.jsonl: here the day, then a name   *)
(* drawn from Names, whose order has nothing to do with that of the writes.*)
(***************************************************************************)
EXTENDS Integers, Sequences, SequencesExt, Ordering

CONSTANTS
    Docs,      \* document ids
    Names,     \* batch ids
    DayLength, \* clock units in a day (86 400 000 ms)
    MaxClock,  \* bound: the clock
    MaxBatch,  \* bound: records of one batch
    MaxRecords \* bound: records of all batches

ASSUME SnapshotConstants ==
    Names \subseteq Nat /\ DayLength \in Nat \ {0}
    /\ MaxClock \in Nat /\ MaxBatch \in Nat /\ MaxRecords \in Nat

VARIABLES
    clock,  \* the writers' clock
    log     \* accepted segments, in the order in which they were accepted: their
            \* day, name and records [doc, op, at, body, fits], where body tells
            \* one version of a document from another and fits whether its
            \* embedding, if it brings one, has the dimension of the index

vars == <<clock, log>>

Init == clock = 0 /\ log = <<>>

\* Records of all batches so far; at MaxRecords the instance is at its end.
LogSize == FoldLeft(LAMBDA n, s : n + Len(s.records), 0, log)

Tick == clock < MaxClock /\ LogSize < MaxRecords /\ clock' = clock + 1 /\ UNCHANGED log

\* ingest and delete: one record per document of the request, in its order, all
\* with the time of the request.
RecordsOf(op, docs) ==
    [i \in DOMAIN docs |-> [doc |-> docs[i].doc, op |-> op, at |-> clock,
                            body |-> <<Len(log) + 1, i>>, fits |-> docs[i].fits]]

Accept(op, docs, name) ==
    /\ LogSize + Len(docs) <= MaxRecords
    /\ \A i \in DOMAIN log : log[i].name # name
    /\ log' = Append(log, [day |-> clock \div DayLength, name |-> name,
                           records |-> RecordsOf(op, docs)])
    /\ UNCHANGED clock

Requests(documents) == UNION {[1 .. n -> documents] : n \in 1 .. MaxBatch}

\* Document::validate looks at the values of an embedding, never at their number.
Ingest(name) == \E docs \in Requests([doc : Docs, fits : BOOLEAN]) : Accept("upsert", docs, name)

Delete(name) == \E docs \in Requests([doc : Docs, fits : {TRUE}]) : Accept("delete", docs, name)

Next ==
    \/ Tick
    \/ \E name \in Names : Ingest(name)
    \/ \E name \in Names : Delete(name)

Spec == Init /\ [][Next]_vars

----------------------------------------------------------------------------
\* snapshot_wal_keys: the listing and the message's own segment, sorted by key.
KeyLess(s, t) == s.day < t.day \/ (s.day = t.day /\ s.name < t.name)

SnapshotSegments(listed, own) == SortedBy(listed \cup {own}, KeyLess)

\* The build closure: the records of all segments, one after the other.
Replay(segments) == FlattenSeq([i \in DOMAIN segments |-> segments[i].records])

\* materialize_latest_snapshot, its loop: keep a record unless a newer one is
\* there; of two equal times the later in the replay stays.
NoRecord == [op |-> "none"]

\* Mutant of Keeps: of two equal times the earlier stays.
KeepsFirst(kept, r) == kept # NoRecord /\ kept.at >= r.at

Keeps(kept, r) == kept # NoRecord /\ kept.at > r.at

Latest(records) ==
    LET latest[i \in 0 .. Len(records)] ==
          IF i = 0 THEN [d \in Docs |-> NoRecord]
          ELSE LET table == latest[i - 1] r == records[i]
               IN  IF Keeps(table[r.doc], r) THEN table ELSE [table EXCEPT ![r.doc] = r]
    IN  latest[Len(records)]

\* The documents of the snapshot: each has at most one version.
Materialize(records) ==
    LET latest == Latest(records) IN {r \in {latest[d] : d \in Docs} : r.op = "upsert"}

\* Mutant of BuildAccepts: documents are taken as they were accepted.
AcceptsUnchecked(documents) == TRUE

\* LocalIndexBuilder::build, its loop: one embedding of another dimension fails
\* the whole build.
BuildAccepts(documents) == \A r \in documents : r.fits

----------------------------------------------------------------------------
Listed == ToSet(log)

Touches(s, d) == \E i \in DOMAIN s.records : s.records[i].doc = d

\* Accepted segments that write d, and the last of them.
Writes(d) == {i \in DOMAIN log : Touches(log[i], d)}

LastWrite(d) == log[CHOOSE i \in Writes(d) : \A j \in Writes(d) : j <= i]

\* No other segment that writes d carries the time of the last one.
Untied(d) ==
    Writes(d) # {} /\ \A i \in Writes(d) :
        log[i].records[1].at = LastWrite(d).records[1].at => log[i] = LastWrite(d)

\* The version the last accepted request gave d: its last record for d.
LastRecord(d) ==
    LET rs == LastWrite(d).records
    IN  rs[CHOOSE i \in DOMAIN rs : rs[i].doc = d /\ \A j \in DOMAIN rs : rs[j].doc = d => j <= i]

\* build_worker.rs:91-95: keys sort by day and then by a random uuid, and yet a
\* document shows the last accepted write, or is gone when that was a delete,
\* unless two requests wrote it in the same millisecond.
ShowsLast(shown) ==
    \A d \in Docs :
        Untied(d) => {r \in shown : r.doc = d} = {r \in {LastRecord(d)} : r.op = "upsert"}

\* models/index.rs:43, builder.rs:95: a document whose embedding has another
\* dimension is accepted and then fails every build, whatever batch triggered it,
\* until it is overwritten or deleted, and no longer than that.
RefusedWhileLast(shown) ==
    (\A d \in Docs : Writes(d) # {} => Untied(d)) =>
        (BuildAccepts(shown) <=>
            \A d \in Docs : Writes(d) # {} /\ LastRecord(d).op = "upsert" => LastRecord(d).fits)

\* What a build may replay: the listing may still miss the segment that triggered it.
Replayed == UNION {{SnapshotSegments(Listed, s), SnapshotSegments(Listed \ {s}, s)} : s \in Listed}

\* The last accepted write decides what a snapshot shows of a document, and whether
\* the document lets it be built, whatever builder.rs is given to replay.
LastWriteWins ==
    \A segments \in Replayed :
        LET shown == Materialize(Replay(segments))
        IN  ShowsLast(shown) /\ RefusedWhileLast(shown)
=============================================================================
