---------------------------- MODULE ReleaseImage ----------------------------
(***************************************************************************)
(* A static image as files: how the builders lay rows out (index/          *)
(* lance_source.rs, static_builder.rs, static_release.rs), how a reader    *)
(* checks and reads the files (header.rs, record.rs, meta.rs, meta_ext.rs, *)
(* mmap_index.rs), and how a release is verified against its manifest      *)
(* (release_manifest.rs, indexing/static_publisher.rs).                    *)
(*                                                                         *)
(* A file that reaches a reader may be cut, mixed with those of another    *)
(* build or altered.  A text is a sequence of bytes 0..3, of which 2 leads *)
(* a character of two bytes and 3 continues it.  A digest is modelled by   *)
(* what it digests.                                                        *)
(***************************************************************************)
EXTENDS CodecAssets, Integers, FiniteSets, SequencesExt, Ordering

CONSTANTS
  Scans,      \* what a scan of a Lance table may return: sequences of rows
  Formats,    \* formats to build: [version, config]
  DocHash(_), \* the hash of a doc_id
  U64,        \* stands for 2^64
  MaxDamage   \* bound: how often an image is altered

VARIABLE image  \* the directory: [files, manifest, rows, format, damage]

-----------------------------------------------------------------------------
(* The rows of a build *)

IsUtf8(s) ==
  \A k \in DOMAIN s : /\ s[k] = 2 => k < Len(s) /\ s[k + 1] = 3
                      /\ s[k] = 3 => k > 1 /\ s[k - 1] = 2

LexBefore(a, b) ==
  \E n \in 0 .. Len(a) :
    /\ n < Len(b) /\ SubSeq(a, 1, n) = SubSeq(b, 1, n)
    /\ n = Len(a) \/ a[n + 1] < b[n + 1]

RowAccepted(row) ==
  row.id # <<>> /\ row.text # <<>> /\ row.metadata = "object" /\ row.embedding = "vector"

\* Mutant of SortedRows: the rows stay in the order of the scan.
RowsAsScanned(scan) == scan
SortedRows(scan) ==
  LET places == SortedBy(DOMAIN scan, LAMBDA i, j : \/ LexBefore(scan[i].id, scan[j].id)
                                                    \/ scan[i].id = scan[j].id /\ i < j)
  IN  [k \in DOMAIN scan |-> scan[places[k]]]

(* load_lance_snapshot; one row that is refused fails it. *)
LanceSnapshot(scan) ==
  IF \A i \in DOMAIN scan : RowAccepted(scan[i]) THEN SortedRows(scan) ELSE <<>>

DistinctHashes(rows) ==
  \A i, j \in DOMAIN rows : i # j => rows[i].id # rows[j].id /\ DocHash(rows[i].id) # DocHash(rows[j].id)

-----------------------------------------------------------------------------
(* Files of an image *)

(* release_output_files, in ascending order of the files' names. *)
DataFiles == <<"records", "docid", "meta", "meta_ext", "meta_json", "text", "title">>
OutputFiles(version) ==
  IF version = 3 THEN <<"centroids", "projection">> \o DataFiles
  ELSE <<"codebook", "qjl", "rotation">> \o DataFiles

FilesNeeded(version) ==
  IF version = 2 THEN {"records", "meta", "text", "title", "centroids", "projection"}
  ELSE ToSet(OutputFiles(version))

Texts(rows) == [i \in DOMAIN rows |-> rows[i].text]
Titles(rows) == [i \in DOMAIN rows |-> rows[i].title]
DocIds(rows) == [i \in DOMAIN rows |-> rows[i].id]
JsonOf(row) == <<0>> \o row.title \o <<1>>
Jsons(rows) == [i \in DOMAIN rows |-> JsonOf(rows[i])]

(* Where the i-th part begins in the blob that holds them all. *)
OffsetIn(parts, i) == Len(FlattenSeq(SubSeq(parts, 1, i - 1)))

\* Mutant of TitleOffset: taken after the title is appended.
TitleOffsetAfter(rows, i) == OffsetIn(Titles(rows), i + 1)
TitleOffset(rows, i) == OffsetIn(Titles(rows), i)

MetaFile(rows) ==
  [records |-> [i \in DOMAIN rows |->
     [doc          |-> DocHash(rows[i].id),
      text_offset  |-> OffsetIn(Texts(rows), i), text_len |-> Len(rows[i].text),
      title_offset |-> TitleOffset(rows, i), title_len |-> Len(rows[i].title)]],
   extra |-> 0]

MetaExtFile(rows) ==
  [records |-> [i \in DOMAIN rows |->
     [docid_offset |-> OffsetIn(DocIds(rows), i), docid_len |-> Len(rows[i].id),
      json_offset  |-> OffsetIn(Jsons(rows), i), json_len |-> Len(JsonOf(rows[i]))]],
   extra |-> 0]

LegacyAssets(config) ==
  [centroids  |-> CentroidsFile(config.dim, 2 ^ config.mse_bits, config.mse_seed),
   projection |-> ProjectionFile(config.dim, config.qjl_dim, config.qjl_seed)]

AssetsOf(format) == IF format.version = 4 THEN Generated(format.config) ELSE LegacyAssets(format.config)

(* What the codec of some asset files is made of; a record's code is its own. *)
CodecData(version, assets) ==
  IF version = 4 THEN <<assets.rotation.data, assets.codebook.data, assets.qjl.data>>
  ELSE <<assets.centroids.data, assets.projection.data>>

RecordsFile(rows, format) ==
  LET assets == AssetsOf(format)
  IN  [whole |-> TRUE, version |-> format.version, dim |-> format.config.dim, count |-> Len(rows),
       codec |-> IF format.version = 4 THEN format.config.codec ELSE "none",
       fingerprint |-> IF format.version = 4 THEN Fingerprint(format.config, assets) ELSE <<>>,
       records |-> [i \in DOMAIN rows |->
                      [doc |-> DocHash(rows[i].id), by |-> CodecData(format.version, assets)]],
       extra |-> 0]

FileOf(name, rows, format) ==
  CASE name = "records"   -> RecordsFile(rows, format)
    [] name = "meta"      -> MetaFile(rows)
    [] name = "meta_ext"  -> MetaExtFile(rows)
    [] name = "text"      -> FlattenSeq(Texts(rows))
    [] name = "title"     -> FlattenSeq(Titles(rows))
    [] name = "docid"     -> FlattenSeq(DocIds(rows))
    [] name = "meta_json" -> FlattenSeq(Jsons(rows))
    [] OTHER              -> AssetsOf(format)[name]

FilesOf(rows, format) == [name \in FilesNeeded(format.version) |-> FileOf(name, rows, format)]

-----------------------------------------------------------------------------
(* The release manifest *)

OutputNames(m) == {m.outputs[i].name : i \in DOMAIN m.outputs}

(* derive_release_id sorts the outputs by name. *)
DerivedId(m) ==
  <<m.version, m.profile, m.codec, m.digest,
    [n \in OutputNames(m) |-> SelectSeq(m.outputs, LAMBDA o : o.name = n)]>>

ManifestCodec(format) ==
  IF format.version = 4 THEN V4Section(format.config) ELSE V3Section(format.config)

ManifestOf(rows, format, files) ==
  LET names == OutputFiles(format.version)
      m == [id      |-> <<>>,
            schema  |-> 1,
            version |-> format.version,
            source  |-> [kind |-> "lance", path |-> "dataset", version |-> 1, rows |-> Len(rows)],
            profile |-> [model |-> "model", dim |-> Dim],
            docs    |-> Len(rows),
            digest  |-> rows,
            codec   |-> ManifestCodec(format),
            outputs |-> [i \in DOMAIN names |-> [name |-> names[i], digest |-> files[names[i]]]]]
  IN  [m EXCEPT !.id = DerivedId(m)]

(* StaticReleaseBuilder::build_release for v3 and v4; StaticIndexBuilder::build for
   v2, which has no manifest and refuses no duplicates. *)
BuildAccepted(rows, format) ==
  /\ rows # <<>>
  /\ format.version # 2 => DistinctHashes(rows)
  /\ format.version = 4 => Generated(format.config) # Refused /\ HoldsCodesOf(format.config)

Built(rows, format) ==
  LET files == FilesOf(rows, format)
  IN  [files |-> files, rows |-> rows, format |-> format, damage |-> 0,
       manifest |-> IF format.version = 2 THEN Refused ELSE ManifestOf(rows, format, files)]

-----------------------------------------------------------------------------
(* Reading: MmapIndex::load, check by check *)

HeaderSize == 32
RecordSize == 208

LayoutKnown(bin) ==
  /\ bin.whole /\ bin.version \in {2, 3, 4} /\ bin.dim = Dim
  /\ bin.version = 4 => bin.codec = "turbo_quant_prod_v1"

(* expected_file_size against the file's size *)
SizeExpected(bin) ==
  LET size == bin.count * RecordSize + HeaderSize
  IN  size < U64 /\ size = HeaderSize + RecordSize * Len(bin.records) + bin.extra

CountExpected(bin, file) == file.extra = 0 /\ Len(file.records) = bin.count

\* Mutant of RangeInBlob: the end of the range wraps.
RangeWraps(blob, offset, len) == (offset + len) % U64 <= Len(blob)
RangeInBlob(blob, offset, len) == offset + len < U64 /\ offset + len <= Len(blob)

(* load_legacy_codec *)
LegacyCodec(files) ==
  LET c == ParsedLegacy(files.centroids)
      p == ParsedLegacy(files.projection)
  IN  IF /\ c # Refused /\ c.first = files.records.dim /\ c.second = 2 ^ LegacyV1.mse_bits
         /\ p # Refused /\ p.first = files.records.dim /\ p.second = files.records.dim
      THEN [config |-> LegacyV1, data |-> <<c.data, p.data>>]
      ELSE Refused

(* load_prod_codec: the config comes from the headers of the assets. *)
ProdCodec(files) ==
  LET r == ParsedRotation(files.rotation)
      b == ParsedCodebook(files.codebook)
      q == ParsedQjl(files.qjl)
      config == [codec |-> "turbo_quant_prod_v1", dim |-> files.records.dim, mse_bits |-> b.bits,
                 qjl_dim |-> q.qjl_dim, mse_seed |-> r.seed, qjl_seed |-> q.seed,
                 generator |-> r.generator, norm |-> "normalize_and_store"]
      assets == [rotation |-> files.rotation, codebook |-> files.codebook, qjl |-> files.qjl]
  IN  IF /\ r # Refused /\ b # Refused /\ q # Refused
         /\ FromAssets(config, r, b, q) # Refused
         /\ HoldsCodesOf(config)
         /\ files.records.fingerprint = Fingerprint(config, assets)
      THEN FromAssets(config, r, b, q)
      ELSE Refused

LoadedCodec(files) == IF files.records.version = 4 THEN ProdCodec(files) ELSE LegacyCodec(files)

Loads(files) ==
  /\ "records" \in DOMAIN files
  /\ LayoutKnown(files.records)
  /\ FilesNeeded(files.records.version) \subseteq DOMAIN files
  /\ SizeExpected(files.records)
  /\ CountExpected(files.records, files.meta)
  /\ \A i \in DOMAIN files.meta.records :
       LET m == files.meta.records[i]
       IN  RangeInBlob(files.text, m.text_offset, m.text_len) /\
           RangeInBlob(files.title, m.title_offset, m.title_len)
  /\ files.records.version # 2 =>
       /\ CountExpected(files.records, files.meta_ext)
       /\ \A i \in DOMAIN files.meta_ext.records :
            LET m == files.meta_ext.records[i]
            IN  RangeInBlob(files.docid, m.docid_offset, m.docid_len) /\
                RangeInBlob(files.meta_json, m.json_offset, m.json_len)
  /\ LoadedCodec(files) # Refused

(* The accessors of record i; what a v2 image or an empty title has not is <<>>. *)
Slice(blob, offset, len) == SubSeq(blob, offset + 1, offset + len)
Read(files, i) ==
  LET m == files.meta.records[i]
      sidecars == files.records.version # 2
  IN  [text  |-> Slice(files.text, m.text_offset, m.text_len),
       title |-> IF m.title_len = 0 THEN <<>> ELSE Slice(files.title, m.title_offset, m.title_len),
       id    |-> IF sidecars THEN LET e == files.meta_ext.records[i]
                                  IN  Slice(files.docid, e.docid_offset, e.docid_len)
                 ELSE <<>>,
       json  |-> IF sidecars THEN LET e == files.meta_ext.records[i]
                                  IN  Slice(files.meta_json, e.json_offset, e.json_len)
                 ELSE <<>>]

-----------------------------------------------------------------------------
(* verify_release_dir *)

SectionAccepted(m) ==
  /\ m.version \in {3, 4} /\ m.codec.version = m.version
  /\ IF m.version = 3 THEN m.codec = V3Section(LegacyV1) ELSE FromV4Section(m.codec) # Refused

\* Mutant of OutputsPinned: the listed files need only be files of the release.
OutputsSome(m) == OutputNames(m) \subseteq ToSet(OutputFiles(m.version))
OutputsPinned(m) == [i \in DOMAIN m.outputs |-> m.outputs[i].name] = OutputFiles(m.version)

Verifies(dir) ==
  LET m == dir.manifest
      files == dir.files
  IN  /\ m # Refused /\ m.schema = 1 /\ SectionAccepted(m)
      /\ OutputsPinned(m)
      /\ \A i \in DOMAIN m.outputs : /\ m.outputs[i].name \in DOMAIN files
                                    /\ files[m.outputs[i].name] = m.outputs[i].digest
      /\ m.id = DerivedId(m)
      /\ m.source.kind = "lance" /\ m.source.path # "" /\ m.source.version > 0
      /\ m.source.rows = m.docs
      /\ m.profile.dim = Dim /\ m.profile.model # ""
      /\ Loads(files)
      /\ files.records.version = m.version
      /\ m.version = 4 => LoadedCodec(files).config = m.codec.config
      /\ files.records.count = m.source.rows
      /\ \A i \in 1 .. files.records.count :
           LET hit == Read(files, i)
           IN  IsUtf8(hit.text) /\ IsUtf8(hit.title) /\ IsUtf8(hit.id) /\ IsUtf8(hit.json)

-----------------------------------------------------------------------------
(* What is built *)

IsText(s) == s \in Seq(0 .. 3) /\ IsUtf8(s)

\* The columns of a Lance table are UTF-8.
IsScan(scan) ==
  /\ scan \in Seq(ToSet(scan))
  /\ \A i \in DOMAIN scan : IsText(scan[i].id) /\ IsText(scan[i].text) /\ IsText(scan[i].title)

\* A file's size, and so what a blob holds, is less than 2^64.
FitsU64(rows) ==
  /\ Len(rows) * RecordSize + HeaderSize < U64
  /\ \A parts \in {Texts(rows), Titles(rows), DocIds(rows), Jsons(rows)} : Len(FlattenSeq(parts)) < U64

Configs ==
  [codec : {"legacy_3bit_v1", "turbo_quant_prod_v1"}, dim : Nat, mse_bits : Nat, qjl_dim : Nat,
   mse_seed : Nat \X Nat, qjl_seed : Nat \X Nat, generator : Nat,
   norm : {"as_is", "normalize_and_store"}]

ASSUME ImageConstants ==
  /\ \A scan \in Scans : IsScan(scan) /\ FitsU64(LanceSnapshot(scan))
  /\ Formats \subseteq [version : {2, 3, 4}, config : Configs]
  /\ \A format \in Formats : format.version # 4 => format.config = LegacyV1
  /\ GeneratorVersion \in Nat /\ U64 \in Nat /\ MaxDamage \in Nat

-----------------------------------------------------------------------------
(* The directory *)

NoImage == [files |-> <<>>, manifest |-> Refused, damage |-> 0]
ImageInit == image = NoImage

Build ==
  /\ image = NoImage
  /\ \E scan \in Scans, format \in Formats :
       LET rows == LanceSnapshot(scan)
       IN  BuildAccepted(rows, format) /\ image' = Built(rows, format)

(* What may become of the files before a reader opens them. *)
Alter(files, manifest) ==
  /\ image # NoImage /\ image.damage < MaxDamage
  /\ image' = [image EXCEPT !.files = files, !.manifest = manifest, !.damage = @ + 1]

Without(files, name) == [n \in DOMAIN files \ {name} |-> files[n]]
Lose == \E name \in DOMAIN image.files : Alter(Without(image.files, name), image.manifest)

(* A file of another build is left in the place of its own. *)
Mix ==
  \E scan \in Scans, format \in Formats :
    LET rows == LanceSnapshot(scan)
    IN  /\ BuildAccepted(rows, format)
        /\ (rows = image.rows) # (format = image.format)
        /\ \E name \in DOMAIN image.files \cap DOMAIN FilesOf(rows, format) :
             /\ image.files[name] # FilesOf(rows, format)[name]
             /\ Alter([image.files EXCEPT ![name] = FilesOf(rows, format)[name]], image.manifest)

(* The last byte of a file is lost. *)
CutFile(name, file) ==
  IF name \in {"text", "title", "docid", "meta_json"} THEN SubSeq(file, 1, Len(file) - 1)
  ELSE IF name \in {"meta", "meta_ext"} THEN [records |-> Front(file.records), extra |-> 23]
  ELSE IF name = "records" THEN [file EXCEPT !.records = Front(@), !.extra = RecordSize - 1]
  ELSE [file EXCEPT !.count = @ - 1, !.extra = 3]

Cut ==
  \E name \in DOMAIN image.files :
    /\ image.files[name] # <<>>
    /\ name \in {"meta", "meta_ext", "records"} => image.files[name].records # <<>>
    /\ Alter([image.files EXCEPT ![name] = CutFile(name, @)], image.manifest)

(* A value of an asset file changes; so does the header, or an offset or length. *)
Spoil ==
  \E name \in DOMAIN image.files \cap {"rotation", "codebook", "qjl"}, to \in {"other", "unsorted"} :
    Alter([image.files EXCEPT ![name].data = <<to, image.files[name].data>>], image.manifest)

AlterHeader ==
  \/ \E n \in {image.files.records.count + 1, image.files.records.count + U64 \div 16} :
       Alter([image.files EXCEPT !.records.count = n], image.manifest)
  \/ \E v \in {1, 2, 3, 4} : Alter([image.files EXCEPT !.records.version = v], image.manifest)
  \/ Alter([image.files EXCEPT !.records.whole = FALSE], image.manifest)

AlterMeta ==
  \E v \in {1, U64 - 1} :
    \/ \E i \in DOMAIN image.files.meta.records, f \in {"text_offset", "text_len", "title_offset"} :
         Alter([image.files EXCEPT !.meta.records[i][f] = v], image.manifest)
    \/ /\ "meta_ext" \in DOMAIN image.files
       /\ \E i \in DOMAIN image.files.meta_ext.records, f \in {"docid_offset", "json_offset"} :
            Alter([image.files EXCEPT !.meta_ext.records[i][f] = v], image.manifest)

(* A manifest another tool has rewritten, with the id that follows from it or not. *)
Rewritten(m, derived) == IF derived THEN [m EXCEPT !.id = DerivedId(m)] ELSE m
AlterManifest ==
  /\ image.manifest # Refused
  /\ \E derived \in BOOLEAN :
       \/ \E k \in DOMAIN image.manifest.outputs :
            Alter(image.files, Rewritten([image.manifest EXCEPT !.outputs = RemoveAt(@, k)], derived))
       \/ Alter(image.files, Rewritten([image.manifest EXCEPT !.outputs = Reverse(@)], derived))
       \/ \E format \in Formats :
            /\ format.version # 2
            /\ Alter(image.files,
                     Rewritten([image.manifest EXCEPT !.codec = ManifestCodec(format)], derived))
       \/ Alter(image.files, Rewritten([image.manifest EXCEPT !.version = 7 - @], derived))

ImageNext ==
  \/ Build
  \/ image # NoImage /\ (Lose \/ Mix \/ Cut \/ Spoil)
  \/ "records" \in DOMAIN image.files /\ AlterHeader
  \/ "meta" \in DOMAIN image.files /\ AlterMeta
  \/ AlterManifest

ImageSpec == ImageInit /\ [][ImageNext]_image

-----------------------------------------------------------------------------
(* Properties *)

NoIdTwice(rows) == \A i, j \in DOMAIN rows : i # j => rows[i].id # rows[j].id

\* lance_source.rs: a release is what its rows are, each of them once.
SameForEveryScan ==
  NoIdTwice(image.rows) =>
    \A scan \in {s \in Scans : ToSet(s) = ToSet(image.rows) /\ Len(s) = Len(image.rows)} :
      BuildAccepted(LanceSnapshot(scan), image.format) /\
      Built(LanceSnapshot(scan), image.format) = image

(* static_release.rs: an image reads back, row for row, what it was built from:
   every offset finds its text, title, doc_id and metadata, empty titles
   included; the codec it loads is the one its records were encoded with; and the
   same rows give the same image in whatever order the scan returns them. *)
BuiltReadsBack ==
  image # NoImage /\ image.damage = 0 =>
    /\ Loads(image.files)
    /\ LoadedCodec(image.files).config = image.format.config
    /\ image.format.version # 2 => Verifies(image)
    /\ \A i \in DOMAIN image.rows :
         LET hit == Read(image.files, i)
             row == image.rows[i]
         IN  /\ hit.text = row.text /\ hit.title = row.title
             /\ image.format.version # 2 => hit.id = row.id /\ hit.json = JsonOf(row)
    /\ SameForEveryScan

(* mmap_index.rs: whatever happened to the files, an image that loads has every
   record, text, title, doc_id and metadata where its accessors will read. *)
LoadedInBounds ==
  Loads(image.files) =>
    \A i \in 1 .. image.files.records.count :
      LET m == image.files.meta.records[i]
          e == image.files.meta_ext.records[i]
      IN  /\ i <= Len(image.files.records.records) /\ i <= Len(image.files.meta.records)
          /\ m.text_offset + m.text_len <= Len(image.files.text)
          /\ m.title_offset + m.title_len <= Len(image.files.title)
          /\ image.files.records.version # 2 =>
               /\ e.docid_offset + e.docid_len <= Len(image.files.docid)
               /\ e.json_offset + e.json_len <= Len(image.files.meta_json)

(* header.rs, codec_config.rs: a v4 image whose records and assets are not of one
   build does not load, whichever file was exchanged or spoilt. *)
ScoredByItsOwnCodec ==
  Loads(image.files) /\ image.files.records.version = 4 =>
    \A i \in DOMAIN image.files.records.records :
      image.files.records.records[i].by = LoadedCodec(image.files).data

(* mmap_index.rs, header.rs: an image that loads can be read and scored, whichever
   files were cut, spoilt, altered or exchanged. *)
LoadedIsSound == LoadedInBounds /\ ScoredByItsOwnCodec

(* static_publisher.rs: a directory that verifies holds the files of one build,
   and a codec section that is theirs, even if its manifest was rewritten and
   its id derived again. *)
VerifiedIsBuilt ==
  Verifies(image) =>
    /\ image.files = FilesOf(image.rows, image.format)
    /\ image.manifest.codec = ManifestCodec(image.format)
=============================================================================
