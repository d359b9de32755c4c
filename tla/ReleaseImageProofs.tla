-------------------------- MODULE ReleaseImageProofs --------------------------
(***************************************************************************)
(* Static images, of any scan, in any format, damaged any number of times: *)
(* what was built is accepted and reads back, what is accepted is read     *)
(* within its files and by the codec that wrote it, and what is verified   *)
(* is a release as it was built.                                           *)
(*                                                                         *)
(* The codec of their records (TurboCodec.tla), for any codebook, rotation *)
(* and sketch: codes name the nearest centroid, and what is scored from    *)
(* the packed bytes is of the vector they were made of.                    *)
(***************************************************************************)
EXTENDS ReleaseImage, TurboCodec, FoldLemmas

-------------------------------------------------------------------------------
(* The words of a file, and what reads them back: the headers, the assets and the codec
   they make up. *)

\* The words of a header, and the values behind it.
LEMMA HeaderIs ==
  ASSUME NEW file, NEW n \in Nat, NEW c \in Nat, NEW magic,
         Len(file.words) = n, file.count = c, file.words[1] = magic
  PROVE  HasHeader(file, n, magic) /\ CountBehind(file, n) = c
<1>1. Len(file.words) >= n
  <2>1. n >= n
    OBVIOUS
  <2>2. QED
    BY <2>1, Zenon
<1>2. CountBehind(file, n) = c
  <2>1. n - n + c = c
    OBVIOUS
  <2>2. QED
    BY <2>1, Zenon DEF CountBehind
<1>3. QED
  BY <1>1, <1>2, Zenon DEF HasHeader

\* A rotation file that was written parses to what was written.
LEMMA RotationReadsBack ==
  ASSUME NEW d \in Nat \ {0}, NEW s \in Nat \X Nat
  PROVE  ParsedRotation(RotationFile(d, s)) =
           [dim |-> d, seed |-> s, generator |-> GeneratorVersion, data |-> <<"rotation", d, s>>]
<1> DEFINE w == <<Magic.rotation, d, s[1], s[2], GeneratorVersion>>
           file == [words |-> w, count |-> d * d, extra |-> 0, data |-> <<"rotation", d, s>>]
<1>1. RotationFile(d, s) = file
  BY DEF RotationFile
<1>2. Len(w) = 5 /\ w[1] = Magic.rotation /\ w[2] = d /\ w[5] = GeneratorVersion /\ <<w[3], w[4]>> = s
  OBVIOUS
<1>3. file.words = w /\ file.count = d * d /\ file.extra = 0 /\ file.data = <<"rotation", d, s>>
  OBVIOUS
<1>4. d * d \in Nat /\ d # 0
  OBVIOUS
<1> HIDE DEF w, file
<1>5. HasHeader(file, 5, Magic.rotation) /\ CountBehind(file, 5) = d * d
  <2>1. Len(file.words) = 5 /\ file.words[1] = Magic.rotation /\ 5 \in Nat
    BY <1>2, <1>3
  <2>2. QED
    BY <1>3, <1>4, <2>1, HeaderIs, Zenon
<1>6. ParsedValues(file, 5, d, d)
  BY <1>3, <1>4, <1>5, Zenon DEF ParsedValues
<1>7. QED
  BY <1>1, <1>2, <1>3, <1>5, <1>6 DEF ParsedRotation

\* So does a codebook of the two bits the codec uses,
LEMMA CodebookReadsBack ==
  ASSUME NEW d \in Nat \ {0}
  PROVE  ParsedCodebook(CodebookFile(d, 2)) = [dim |-> d, bits |-> 2, data |-> <<"codebook", d, 2>>]
<1>1. 2 ^ 2 = 4
  OBVIOUS
<1>2. QED
  BY <1>1 DEF ParsedCodebook, CodebookFile, HasHeader, ParsedValues, CountBehind, Ascending

\* and a projection for the residual,
LEMMA QjlReadsBack ==
  ASSUME NEW d \in Nat \ {0}, NEW q \in Nat \ {0}, NEW s \in Nat \X Nat
  PROVE  ParsedQjl(QjlFile(d, q, s)) =
           [dim |-> d, qjl_dim |-> q, seed |-> s, generator |-> GeneratorVersion,
            data |-> <<"qjl", d, q, s>>]
<1> DEFINE w == <<Magic.qjl, d, q, s[1], s[2], GeneratorVersion>>
           file == [words |-> w, count |-> q * d, extra |-> 0, data |-> <<"qjl", d, q, s>>]
<1>1. QjlFile(d, q, s) = file
  BY DEF QjlFile
<1>2. /\ Len(w) = 6 /\ w[1] = Magic.qjl /\ w[2] = d /\ w[3] = q /\ w[6] = GeneratorVersion
      /\ <<w[4], w[5]>> = s
  OBVIOUS
<1>3. file.words = w /\ file.count = q * d /\ file.extra = 0 /\ file.data = <<"qjl", d, q, s>>
  OBVIOUS
<1>4. q * d \in Nat /\ q # 0 /\ d # 0
  OBVIOUS
<1> HIDE DEF w, file
<1>5. HasHeader(file, 6, Magic.qjl) /\ CountBehind(file, 6) = q * d
  <2>1. Len(file.words) = 6 /\ file.words[1] = Magic.qjl /\ 6 \in Nat
    BY <1>2, <1>3
  <2>2. QED
    BY <1>3, <1>4, <2>1, HeaderIs, Zenon
<1>6. ParsedValues(file, 6, q, d)
  BY <1>3, <1>4, <1>5, Zenon DEF ParsedValues
<1>7. QED
  BY <1>1, <1>2, <1>3, <1>5, <1>6 DEF ParsedQjl

\* and the two files of the formats before 4.
LEMMA LegacyFilesReadBack ==
  /\ ParsedLegacy(CentroidsFile(Dim, 4, <<7, 0>>)) =
       [first |-> Dim, second |-> 4, data |-> <<"centroids", Dim, 4, <<7, 0>>>>]
  /\ ParsedLegacy(ProjectionFile(Dim, Dim, <<11, 0>>)) =
       [first |-> Dim, second |-> Dim, data |-> <<"projection", Dim, Dim, <<11, 0>>>>]
<1>1. Dim \in Nat \ {0} /\ Dim * Dim \in Nat /\ Dim * Dim > 0
  BY CodecAssetsAssumption
<1>2. QED
  BY <1>1 DEF ParsedLegacy, CentroidsFile, ProjectionFile, ParsedValues, CountBehind

\* What the parsers return is not their refusal.
LEMMA NotRefused ==
  /\ \A d, s, g, x : [dim |-> d, seed |-> s, generator |-> g, data |-> x] # Refused
  /\ \A d, b, x : [dim |-> d, bits |-> b, data |-> x] # Refused
  /\ \A d, q, s, g, x : [dim |-> d, qjl_dim |-> q, seed |-> s, generator |-> g, data |-> x] # Refused
  /\ \A a, b, x : [first |-> a, second |-> b, data |-> x] # Refused
  /\ \A c, x : [config |-> c, data |-> x] # Refused
  /\ \A a, b, c : [rotation |-> a, codebook |-> b, qjl |-> c] # Refused
BY DEF Refused

\* The names of the files of an image.
LEMMA Names ==
  /\ FilesNeeded(2) = {"records", "meta", "text", "title", "centroids", "projection"}
  /\ FilesNeeded(3) = {"centroids", "projection", "records", "docid", "meta", "meta_ext", "meta_json",
                       "text", "title"}
  /\ FilesNeeded(4) = {"codebook", "qjl", "rotation", "records", "docid", "meta", "meta_ext",
                       "meta_json", "text", "title"}
BY DEF FilesNeeded, ToSet, OutputFiles, DataFiles

\* The header of the records names the format, the count and, from 4 on, the codec.
LEMMA HeaderOfRecords ==
  ASSUME NEW rows, NEW format
  PROVE  /\ RecordsFile(rows, format).version = format.version
         /\ RecordsFile(rows, format).dim = format.config.dim
         /\ RecordsFile(rows, format).whole = TRUE
         /\ RecordsFile(rows, format).count = Len(rows)
         /\ RecordsFile(rows, format).extra = 0
         /\ RecordsFile(rows, format).codec = IF format.version = 4 THEN format.config.codec ELSE "none"
         /\ RecordsFile(rows, format).fingerprint =
              IF format.version = 4 THEN Fingerprint(format.config, AssetsOf(format)) ELSE <<>>
BY Zenon DEF RecordsFile

\* A record holds the hash of its document and a code of the assets of the build.
LEMMA RecordsAre ==
  ASSUME NEW rows, NEW format
  PROVE  RecordsFile(rows, format).records =
           [i \in DOMAIN rows |-> [doc |-> DocHash(rows[i].id),
                                  by |-> CodecData(format.version, AssetsOf(format))]]
BY Zenon DEF RecordsFile

\* Each file of a build is what its writer makes of the rows.
LEMMA FilesAre ==
  ASSUME NEW rows, NEW format, format.version \in {2, 3, 4}, NEW files, files = FilesOf(rows, format)
  PROVE  /\ DOMAIN files = FilesNeeded(format.version)
         /\ files.records = RecordsFile(rows, format)
         /\ files.meta = MetaFile(rows)
         /\ files.text = FlattenSeq(Texts(rows)) /\ files.title = FlattenSeq(Titles(rows))
         /\ format.version # 2 =>
              /\ files.meta_ext = MetaExtFile(rows)
              /\ files.docid = FlattenSeq(DocIds(rows)) /\ files.meta_json = FlattenSeq(Jsons(rows))
         /\ format.version # 4 =>
              /\ files.centroids = LegacyAssets(format.config).centroids
              /\ files.projection = LegacyAssets(format.config).projection
         /\ format.version = 4 =>
              /\ files.rotation = Generated(format.config).rotation
              /\ files.codebook = Generated(format.config).codebook
              /\ files.qjl = Generated(format.config).qjl
BY Names DEF FilesOf, FileOf, AssetsOf

\* A v2 or v3 image is scored by the centroids and projection it was coded with.
LEMMA LegacyCodecReadsBack ==
  ASSUME NEW rows, NEW format, format.version \in {2, 3}, format.config = LegacyV1
  PROVE  LoadedCodec(FilesOf(rows, format)) =
           [config |-> LegacyV1, data |-> CodecData(format.version, AssetsOf(format))]
<1> DEFINE files == FilesOf(rows, format)
<1>1. /\ files.centroids = CentroidsFile(Dim, 4, <<7, 0>>)
      /\ files.projection = ProjectionFile(Dim, Dim, <<11, 0>>)
      /\ AssetsOf(format) = [centroids |-> files.centroids, projection |-> files.projection]
  <2>1. LegacyAssets(LegacyV1) = [centroids |-> CentroidsFile(Dim, 4, <<7, 0>>),
                                  projection |-> ProjectionFile(Dim, Dim, <<11, 0>>)]
    <3>1. 2 ^ 2 = 4
      OBVIOUS
    <3>2. QED
      BY <3>1 DEF LegacyAssets, LegacyV1
  <2>2. /\ files.centroids = LegacyAssets(LegacyV1).centroids
        /\ files.projection = LegacyAssets(LegacyV1).projection
    BY FilesAre
  <2>3. AssetsOf(format) = LegacyAssets(LegacyV1)
    BY DEF AssetsOf
  <2>4. QED
    BY <2>1, <2>2, <2>3
<1>2. files.records.version = format.version /\ files.records.dim = Dim
  <2>1. files.records = RecordsFile(rows, format)
    BY FilesAre
  <2>2. format.config.dim = Dim
    BY DEF LegacyV1
  <2> HIDE DEF files
  <2>3. QED
    <3>1. /\ RecordsFile(rows, format).version = format.version
          /\ RecordsFile(rows, format).dim = format.config.dim
      BY HeaderOfRecords
    <3>2. QED
      BY <2>1, <2>2, <3>1
<1>3. 2 ^ LegacyV1.mse_bits = 4
  <2>1. 2 ^ 2 = 4
    OBVIOUS
  <2>2. QED
    BY <2>1 DEF LegacyV1
<1>4. CodecData(format.version, AssetsOf(format)) = <<files.centroids.data, files.projection.data>>
  BY <1>1 DEF CodecData
<1>5. /\ files.centroids.data = <<"centroids", Dim, 4, <<7, 0>>>>
      /\ files.projection.data = <<"projection", Dim, Dim, <<11, 0>>>>
  BY <1>1 DEF CentroidsFile, ProjectionFile
<1> HIDE DEF files
<1>6. LegacyCodec(files) = [config |-> LegacyV1, data |-> <<files.centroids.data, files.projection.data>>]
  BY <1>1, <1>2, <1>3, <1>5, LegacyFilesReadBack, NotRefused DEF LegacyCodec
<1>7. LoadedCodec(files) = LegacyCodec(files)
  BY <1>2 DEF LoadedCodec
<1>8. QED
  BY <1>4, <1>6, <1>7 DEF files

\* A v4 build goes on with a configuration that is legal.
LEMMA GeneratedIs ==
  ASSUME NEW config \in Configs, Generated(config) # Refused
  PROVE  /\ Generated(config) = [rotation |-> RotationFile(config.dim, config.mse_seed),
                                 codebook |-> CodebookFile(config.dim, config.mse_bits),
                                 qjl |-> QjlFile(config.dim, config.qjl_dim, config.qjl_seed)]
         /\ CheckedConfig(config) /\ config.generator = GeneratorVersion
         /\ config.dim = Dim /\ Dim \in Nat \ {0} /\ config.qjl_dim \in Nat \ {0} /\ config.mse_bits = 2
         /\ config.codec = "turbo_quant_prod_v1" /\ config.norm = "normalize_and_store"
<1>1. CheckedConfig(config) /\ config.generator = GeneratorVersion
  BY DEF Generated
<1>2. QED
  BY <1>1, CodecAssetsAssumption DEF Generated, CheckedConfig, Validated, NormPolicyOf, Configs

\* A v4 image is scored by the assets of its own configuration.
LEMMA ProdCodecReadsBack ==
  ASSUME NEW rows, NEW format, format.version = 4, format.config \in Configs,
         Generated(format.config) # Refused, HoldsCodesOf(format.config)
  PROVE  LoadedCodec(FilesOf(rows, format)) =
           [config |-> format.config, data |-> CodecData(4, AssetsOf(format))]
<1> DEFINE files == FilesOf(rows, format)
           c == format.config
           r == ParsedRotation(files.rotation)
           b == ParsedCodebook(files.codebook)
           q == ParsedQjl(files.qjl)
           config == [codec |-> "turbo_quant_prod_v1", dim |-> files.records.dim, mse_bits |-> b.bits,
                      qjl_dim |-> q.qjl_dim, mse_seed |-> r.seed, qjl_seed |-> q.seed,
                      generator |-> r.generator, norm |-> "normalize_and_store"]
           assets == [rotation |-> files.rotation, codebook |-> files.codebook, qjl |-> files.qjl]
<1>1. /\ Generated(c) = assets /\ AssetsOf(format) = assets
      /\ files.rotation = RotationFile(Dim, c.mse_seed) /\ files.codebook = CodebookFile(Dim, 2)
      /\ files.qjl = QjlFile(Dim, c.qjl_dim, c.qjl_seed)
  BY FilesAre, GeneratedIs DEF AssetsOf
<1>2. /\ CheckedConfig(c) /\ c.generator = GeneratorVersion
      /\ c.dim = Dim /\ Dim \in Nat \ {0} /\ c.qjl_dim \in Nat \ {0} /\ c.mse_bits = 2
      /\ c.codec = "turbo_quant_prod_v1" /\ c.norm = "normalize_and_store"
      /\ c.mse_seed \in Nat \X Nat /\ c.qjl_seed \in Nat \X Nat
  BY GeneratedIs DEF Configs
<1> HIDE DEF files
<1>3. /\ r = [dim |-> Dim, seed |-> c.mse_seed, generator |-> GeneratorVersion,
              data |-> <<"rotation", Dim, c.mse_seed>>]
      /\ b = [dim |-> Dim, bits |-> 2, data |-> <<"codebook", Dim, 2>>]
      /\ q = [dim |-> Dim, qjl_dim |-> c.qjl_dim, seed |-> c.qjl_seed, generator |-> GeneratorVersion,
              data |-> <<"qjl", Dim, c.qjl_dim, c.qjl_seed>>]
  <2>1. r = ParsedRotation(RotationFile(Dim, c.mse_seed))
    BY <1>1
  <2>2. b = ParsedCodebook(CodebookFile(Dim, 2))
    BY <1>1
  <2>3. q = ParsedQjl(QjlFile(Dim, c.qjl_dim, c.qjl_seed))
    BY <1>1
  <2> HIDE DEF r, b, q, c
  <2>4. QED
    BY <1>2, <2>1, <2>2, <2>3, RotationReadsBack, CodebookReadsBack, QjlReadsBack
<1>4. /\ files.records.version = 4 /\ files.records.dim = Dim
      /\ files.records.fingerprint = Fingerprint(c, AssetsOf(format))
  <2>1. files.records = RecordsFile(rows, format)
    BY FilesAre DEF files
  <2>2. QED
    <3>1. /\ RecordsFile(rows, format).version = 4
          /\ RecordsFile(rows, format).dim = Dim
          /\ RecordsFile(rows, format).fingerprint = Fingerprint(c, AssetsOf(format))
      BY <1>2, HeaderOfRecords
    <3>2. QED
      BY <2>1, <3>1
<1>5. config = c
  BY <1>2, <1>3, <1>4 DEF Configs
<1>6. CodecData(4, AssetsOf(format)) = <<r.data, b.data, q.data>>
  <2>1. CodecData(4, assets) = <<files.rotation.data, files.codebook.data, files.qjl.data>>
    BY DEF CodecData
  <2>2. /\ files.rotation.data = <<"rotation", Dim, c.mse_seed>>
        /\ files.codebook.data = <<"codebook", Dim, 2>>
        /\ files.qjl.data = <<"qjl", Dim, c.qjl_dim, c.qjl_seed>>
    BY <1>1 DEF RotationFile, CodebookFile, QjlFile
  <2>3. QED
    BY <1>1, <1>3, <2>1, <2>2
<1> HIDE DEF r, b, q, assets
<1>7. FromAssets(c, r, b, q) = [config |-> c, data |-> <<r.data, b.data, q.data>>]
  BY <1>2, <1>3 DEF FromAssets, CommittedCodebook
<1>8. r # Refused /\ b # Refused /\ q # Refused /\ FromAssets(c, r, b, q) # Refused
  BY <1>3, <1>7, NotRefused
<1>9. files.records.fingerprint = Fingerprint(config, assets)
  BY <1>1, <1>4, <1>5
<1>10. ProdCodec(files) = FromAssets(c, r, b, q)
  <2>1. ProdCodec(files) = IF /\ r # Refused /\ b # Refused /\ q # Refused
                              /\ FromAssets(config, r, b, q) # Refused
                              /\ HoldsCodesOf(config)
                              /\ files.records.fingerprint = Fingerprint(config, assets)
                           THEN FromAssets(config, r, b, q) ELSE Refused
    BY DEF ProdCodec, r, b, q, assets
  <2> HIDE DEF config
  <2>2. QED
    BY <1>5, <1>8, <1>9, <2>1
<1>11. LoadedCodec(files) = ProdCodec(files)
  BY <1>4 DEF LoadedCodec
<1>12. QED
  BY <1>6, <1>7, <1>10, <1>11 DEF files

-------------------------------------------------------------------------------
(* Where the parts of a blob lie. *)

\* flat flattens n sequences of elements of T.
FlatteningOf(T, n, seqs, flat) ==
  /\ n \in Nat \ {0} /\ seqs \in [1 .. n -> Seq(T)] /\ flat \in [1 .. n -> Seq(T)]
  /\ Flattens(seqs, n, flat)

\* The first sequences, put together, begin all of them.
LEMMA FlatBegins ==
  ASSUME NEW T, NEW n, NEW seqs, NEW flat, FlatteningOf(T, n, seqs, flat), NEW i, i \in 1 .. n, NEW k, k \in i .. n
  PROVE  Len(flat[i]) <= Len(flat[k]) /\ \A j \in 1 .. Len(flat[i]) : flat[k][j] = flat[i][j]
<1>0. n \in Nat \ {0} /\ seqs \in [1 .. n -> Seq(T)] /\ flat \in [1 .. n -> Seq(T)] /\ Flattens(seqs, n, flat)
  BY DEF FlatteningOf
<1> DEFINE Begins(m) == Len(flat[i]) <= Len(flat[m]) /\ \A j \in 1 .. Len(flat[i]) : flat[m][j] = flat[i][j]
           Bad == {m \in i .. n : ~Begins(m)}
<1>a. i \in 1 .. n /\ k \in i .. n /\ flat[i] \in Seq(T)
  BY <1>0
<1>1. ASSUME NEW m \in i .. n, \A o \in i .. n : o < m => Begins(o)
      PROVE  Begins(m)
  <2>1. CASE m = i
    <3>1. Len(flat[i]) \in Nat
      BY <1>0, LenProperties
    <3>2. QED
      BY <2>1, <3>1
  <2>2. CASE m # i
    <3>1. m - 1 \in i .. n /\ m - 1 < m /\ m \in 2 .. n /\ m - 1 \in 1 .. n /\ m \in 1 .. n
      BY <1>0, <2>2
    <3>2. Begins(m - 1)
      BY <1>1, <3>1
    <3>3. flat[m] = flat[m - 1] \o seqs[m] /\ flat[m - 1] \in Seq(T) /\ seqs[m] \in Seq(T)
      BY <1>0, <3>1 DEF Flattens
    <3> DEFINE old == flat[m - 1]
               new == seqs[m]
               all == flat[m]
               first == flat[i]
    <3> HIDE DEF old, new, all, first
    <3>4. Len(old) \in Nat /\ Len(new) \in Nat /\ Len(first) \in Nat
      BY <3>3, <1>a, LenProperties DEF old, new, first
    <3>5. /\ Len(all) = Len(old) + Len(new)
          /\ \A j \in 1 .. Len(old) + Len(new) : all[j] = IF j <= Len(old) THEN old[j] ELSE new[j - Len(old)]
      <4>1. old \in Seq(T) /\ new \in Seq(T) /\ all = old \o new
        BY <3>3 DEF old, new, all
      <4>2. QED
        BY <4>1, ConcatProperties
    <3>6. Len(first) <= Len(old) /\ \A j \in 1 .. Len(first) : old[j] = first[j]
      BY <3>2 DEF old, first
    <3>7. Len(first) <= Len(all) /\ \A j \in 1 .. Len(first) : all[j] = first[j]
      <4>1. Len(first) <= Len(all)
        BY <3>4, <3>5, <3>6
      <4>2. SUFFICES ASSUME NEW j \in 1 .. Len(first) PROVE all[j] = first[j]
        BY <4>1
      <4>3. j \in 1 .. Len(old) + Len(new) /\ j <= Len(old)
        BY <3>4, <3>6
      <4>4. QED
        BY <3>5, <3>6, <4>3
    <3>8. QED
      BY <3>7 DEF all, first
  <2>3. QED
    BY <2>1, <2>2
<1> HIDE DEF Begins
<1>2. Bad = {}
  <2>1. Bad \in SUBSET Nat
    BY <1>0
  <2>2. ASSUME Bad # {} PROVE FALSE
    <3>1. PICK m \in Bad : \A o \in Bad : m <= o
      <4> HIDE DEF Bad
      <4>1. QED
        BY <2>1, <2>2, LeastNatural
    <3>2. m \in i .. n /\ \A o \in i .. n : o < m => Begins(o)
      BY <3>1
    <3>3. QED
      BY <1>1, <3>2
  <2>3. QED
    BY <1>0, <2>2
<1>3. Begins(k)
  BY <1>2
<1>4. QED
  BY <1>3 DEF Begins

\* Flattening some of the first sequences is a step of flattening all.
LEMMA FlattenedPrefix ==
  ASSUME NEW T, NEW n, NEW seqs, NEW flat, FlatteningOf(T, n, seqs, flat), NEW k, k \in 1 .. n
  PROVE  FlattenSeq(SubSeq(seqs, 1, k)) = flat[k]
<1>a. n \in Nat \ {0} /\ seqs \in [1 .. n -> Seq(T)] /\ flat \in [1 .. n -> Seq(T)] /\ Flattens(seqs, n, flat)
  BY DEF FlatteningOf
<1> DEFINE sub == SubSeq(seqs, 1, k)
<1>0. seqs \in Seq(Seq(T)) /\ Len(seqs) = n
  BY <1>a
<1>1. sub \in [1 .. k -> Seq(T)] /\ \A j \in 1 .. k : sub[j] = seqs[j]
  <2>1. \A j \in 1 .. k : seqs[j] \in Seq(T)
    BY <1>a
  <2>2. k \in Int /\ 1 \in Int /\ 1 <= k /\ k - 1 + 1 = k /\ \A j \in 1 .. k : 1 + j - 1 = j
    BY <1>a
  <2>3. sub \in Seq(Seq(T)) /\ Len(sub) = k /\ \A j \in 1 .. k : sub[j] = seqs[j]
    BY <2>1, <2>2, SubSeqProperties
  <2> HIDE DEF sub
  <2>4. QED
    BY <2>3, LenProperties
<1> HIDE DEF sub
<1>2. k \in Nat \ {0}
  BY <1>a
<1>3. PICK g \in [1 .. k -> Seq(T)] : Flattens(sub, k, g)
  BY <1>1, <1>2, FlattenSteps
<1> DEFINE Bad == {m \in 1 .. k : g[m] # flat[m]}
<1>4. Bad = {}
  <2>1. SUFFICES ASSUME Bad # {} PROVE FALSE
    OBVIOUS
  <2>2. PICK m \in Bad : \A o \in Bad : m <= o
    <3>1. Bad \in SUBSET Nat
      BY <1>a
    <3> HIDE DEF Bad
    <3>2. QED
      BY <2>1, <3>1, LeastNatural
  <2>3. m \in 1 .. k /\ g[m] # flat[m]
    OBVIOUS
  <2>4. CASE m = 1
    BY <1>a, <1>1, <1>3, <2>3, <2>4 DEF Flattens
  <2>5. CASE m # 1
    <3>1. m - 1 \in 1 .. k /\ m - 1 < m /\ m \in 2 .. k /\ m \in 2 .. n
      BY <1>a, <2>3, <2>5
    <3>2. g[m - 1] = flat[m - 1]
      BY <2>2, <3>1
    <3>3. g[m] = g[m - 1] \o sub[m] /\ flat[m] = flat[m - 1] \o seqs[m]
      BY <1>a, <1>3, <3>1 DEF Flattens
    <3>4. QED
      BY <1>1, <2>3, <3>2, <3>3
  <2>6. QED
    BY <2>4, <2>5
<1>5. g[k] = flat[k]
  <2>1. k \in 1 .. k
    BY <1>2
  <2>2. QED
    BY <1>4, <2>1
<1>6. QED
  BY <1>3, <1>5 DEF Flattens, sub

\* A part lies in the blob where its offset says.
LEMMA BlobHoldsParts ==
  ASSUME NEW T, NEW n, NEW parts, NEW flat, FlatteningOf(T, n, parts, flat), NEW i, i \in 1 .. n
  PROVE  /\ OffsetIn(parts, i) \in Nat /\ Len(parts[i]) \in Nat
         /\ OffsetIn(parts, i) + Len(parts[i]) <= Len(FlattenSeq(parts))
         /\ Slice(FlattenSeq(parts), OffsetIn(parts, i), Len(parts[i])) = parts[i]
<1>0. FlatteningOf(T, n, parts, flat) /\ \A k : k \in 1 .. n => FlattenSeq(SubSeq(parts, 1, k)) = flat[k]
  BY FlattenedPrefix
<1>1. n \in Nat \ {0} /\ parts \in [1 .. n -> Seq(T)] /\ flat \in [1 .. n -> Seq(T)] /\ i \in 1 .. n
  BY DEF FlatteningOf
<1>2. Flattens(parts, n, flat)
  BY DEF FlatteningOf
<1>a. Len(flat[i]) <= Len(flat[n]) /\ \A j \in 1 .. Len(flat[i]) : flat[n][j] = flat[i][j]
  <2>1. n \in i .. n
    BY <1>1
  <2>2. QED
    BY <2>1, FlatBegins
<1> DEFINE off == OffsetIn(parts, i)
           len == Len(parts[i])
           blob == FlattenSeq(parts)
<1>3. blob = flat[n] /\ blob \in Seq(T) /\ parts[i] \in Seq(T) /\ flat[i] \in Seq(T) /\ len \in Nat
  BY <1>1, <1>2 DEF Flattens
<1>4. /\ off \in Nat /\ Len(flat[i]) = off + len
      /\ \A j \in 1 .. len : flat[i][off + j] = parts[i][j]
  <2>1. CASE i = 1
    <3>1. SubSeq(parts, 1, 0) = <<>>
      BY SubSeqEmpty
    <3>2. FlattenSeq(<<>>) = <<>>
      BY DEF FlattenSeq
    <3>3. off = 0
      <4>1. i - 1 = 0 /\ Len(<<>>) = 0
        BY <2>1
      <4>2. QED
        BY <3>1, <3>2, <4>1 DEF OffsetIn
    <3>4. flat[i] = parts[i]
      BY <1>1, <1>2, <2>1 DEF Flattens
    <3> HIDE DEF off
    <3>5. QED
      BY <1>3, <3>3, <3>4
  <2>2. CASE i # 1
    <3>1. i - 1 \in 1 .. n /\ i \in 2 .. n
      BY <1>1, <2>2
    <3>2. off = Len(flat[i - 1])
      <4>1. FlattenSeq(SubSeq(parts, 1, i - 1)) = flat[i - 1]
        BY <1>0, <3>1 
      <4>2. QED
        BY <4>1 DEF OffsetIn
    <3>3. flat[i] = flat[i - 1] \o parts[i] /\ flat[i - 1] \in Seq(T)
      BY <1>1, <1>2, <3>1 DEF Flattens
    <3> DEFINE old == flat[i - 1]
               new == parts[i]
               all == flat[i]
    <3> HIDE DEF off, old, new, all
    <3>4. /\ Len(old) \in Nat /\ Len(all) = Len(old) + Len(new)
          /\ \A j \in 1 .. Len(old) + Len(new) : all[j] = IF j <= Len(old) THEN old[j] ELSE new[j - Len(old)]
      <4>1. old \in Seq(T) /\ new \in Seq(T) /\ all = old \o new
        BY <1>3, <3>3 DEF old, new, all
      <4>2. QED
        BY <4>1, ConcatProperties, LenProperties
    <3>5. off = Len(old) /\ len = Len(new) /\ len \in Nat
      BY <1>3, <3>2 DEF old, new
    <3> HIDE DEF len
    <3>6. \A j \in 1 .. len : all[off + j] = new[j]
      <4>1. \A j \in 1 .. len : off + j \in 1 .. Len(old) + Len(new) /\ ~(off + j <= Len(old)) /\ off + j - Len(old) = j
        BY <3>4, <3>5
      <4>2. SUFFICES ASSUME NEW j \in 1 .. len PROVE all[off + j] = new[j]
        OBVIOUS
      <4> DEFINE q == off + j
      <4>3. q \in 1 .. Len(old) + Len(new) /\ ~(q <= Len(old)) /\ q - Len(old) = j
        BY <3>4, <3>5
      <4> HIDE DEF q
      <4>4. all[q] = new[j]
        BY <3>4, <4>3
      <4>5. QED
        BY <4>4 DEF q
    <3>7. QED
      BY <3>4, <3>5, <3>6 DEF all, new
  <2>3. QED
    BY <2>1, <2>2
<1> HIDE DEF off, blob, len
<1>5. Len(flat[i]) <= Len(blob) /\ \A j \in 1 .. Len(flat[i]) : blob[j] = flat[i][j]
  BY <1>3, <1>a
<1>6. off + len <= Len(blob)
  BY <1>3, <1>4, <1>5
<1>7. Slice(blob, off, len) = parts[i]
  <2>1. /\ off + 1 \in Int /\ off + len \in Int /\ off + len - (off + 1) + 1 = len
        /\ \A j \in 1 .. len : off + 1 + j - 1 = off + j
        /\ \A j \in off + 1 .. off + len : j \in 1 .. Len(blob)
        /\ off + 1 <= off + len <=> len # 0
    BY <1>3, <1>4, <1>5, <1>6
  <2>2. \A j \in off + 1 .. off + len : blob[j] \in T
    BY <1>3, <2>1, ElementOfSeq
  <2> DEFINE sub == SubSeq(blob, off + 1, off + len)
             m == off + 1
             o == off + len
  <2>3. /\ sub \in Seq(T) /\ Len(sub) = IF m <= o THEN o - m + 1 ELSE 0
        /\ \A j \in 1 .. o - m + 1 : sub[j] = blob[m + j - 1]
    BY <2>1, <2>2, SubSeqProperties
  <2>4. /\ sub \in Seq(T) /\ Len(sub) = len
        /\ \A j \in 1 .. len : sub[j] = blob[off + j]
    <3>1. o - m + 1 = len /\ (m <= o <=> len # 0) /\ \A j \in 1 .. len : m + j - 1 = off + j
      BY <1>3, <1>4
    <3> HIDE DEF sub, m, o
    <3>2. Len(sub) = len
      BY <1>3, <2>3, <3>1
    <3>3. ASSUME NEW j \in 1 .. len PROVE sub[j] = blob[off + j]
      <4>1. sub[j] = blob[m + j - 1]
        BY <2>3, <3>1
      <4>2. QED
        BY <3>1, <4>1
    <3>4. QED
      BY <2>3, <3>2, <3>3
  <2> HIDE DEF sub
  <2>5. \A j \in 1 .. len : sub[j] = parts[i][j]
    <3> SUFFICES ASSUME NEW j \in 1 .. len PROVE sub[j] = parts[i][j]
      OBVIOUS
    <3> DEFINE q == off + j
    <3>1. q \in 1 .. Len(flat[i])
      BY <1>3, <1>4
    <3> HIDE DEF q
    <3>2. blob[q] = flat[i][q]
      BY <1>5, <3>1
    <3>3. sub[j] = blob[q] /\ flat[i][q] = parts[i][j]
      BY <1>4, <2>4 DEF q
    <3>4. QED
      BY <3>2, <3>3
  <2>6. parts[i] \in Seq(T) /\ Len(parts[i]) = len
    BY <1>3 DEF len
  <2>7. sub = parts[i]
    BY <2>4, <2>5, <2>6, SeqEqual
  <2>8. QED
    BY <2>7 DEF Slice, sub
<1>8. QED
  BY <1>3, <1>4, <1>6, <1>7 DEF off, blob, len

\* Every part can be cut out of the blob again, at its offset.
LEMMA BlobHolds ==
  ASSUME NEW T, NEW n \in Nat, NEW parts \in [1 .. n -> Seq(T)]
  PROVE  \A i \in 1 .. n :
           /\ OffsetIn(parts, i) \in Nat /\ Len(parts[i]) \in Nat
           /\ OffsetIn(parts, i) + Len(parts[i]) <= Len(FlattenSeq(parts))
           /\ Slice(FlattenSeq(parts), OffsetIn(parts, i), Len(parts[i])) = parts[i]
<1>1. CASE n = 0
  BY <1>1
<1>2. CASE n # 0
  <2>1. n \in Nat \ {0}
    BY <1>2
  <2>2. PICK flat \in [1 .. n -> Seq(T)] : Flattens(parts, n, flat)
    BY <2>1, FlattenSteps
  <2>3. FlatteningOf(T, n, parts, flat)
    BY <2>1, <2>2 DEF FlatteningOf
  <2>4. QED
    BY <2>3, BlobHoldsParts
<1>3. QED
  BY <1>1, <1>2

-------------------------------------------------------------------------------
(* The order of the ids. *)

\* a comes before b, because of what follows their first n elements.
LexAt(a, b, n) ==
  /\ n \in Nat /\ n <= Len(a) /\ n < Len(b)
  /\ \A k \in Nat : k >= 1 /\ k <= n => a[k] = b[k]
  /\ n = Len(a) \/ a[n + 1] < b[n + 1]

\* Two strings start alike where they agree up to there.
LEMMA SamePrefix ==
  ASSUME NEW a \in Seq(Nat), NEW b \in Seq(Nat), NEW n \in Nat, n <= Len(a), n <= Len(b)
  PROVE  SubSeq(a, 1, n) = SubSeq(b, 1, n) <=> \A k \in 1 .. n : a[k] = b[k]
<1> DEFINE x == SubSeq(a, 1, n)
           y == SubSeq(b, 1, n)
<1>1. /\ \A k \in 1 .. n : a[k] \in Nat /\ b[k] \in Nat
      /\ 1 \in Int /\ n \in Int /\ n - 1 + 1 = n /\ (IF 1 <= n THEN n ELSE 0) = n
      /\ \A k \in 1 .. n : 1 + k - 1 = k
  OBVIOUS
<1>2. x \in Seq(Nat) /\ Len(x) = n /\ \A k \in 1 .. n : x[k] = a[k]
  BY <1>1, SubSeqProperties
<1>3. y \in Seq(Nat) /\ Len(y) = n /\ \A k \in 1 .. n : y[k] = b[k]
  BY <1>1, SubSeqProperties
<1> HIDE DEF x, y
<1>4. ASSUME \A k \in 1 .. n : a[k] = b[k] PROVE x = y
  BY <1>2, <1>3, <1>4, SeqEqual
<1>5. ASSUME x = y PROVE \A k \in 1 .. n : a[k] = b[k]
  BY <1>2, <1>3, <1>5
<1>6. QED
  BY <1>4, <1>5 DEF x, y

\* The order of byte strings, by the first place where they differ.
LEMMA LexIs ==
  ASSUME NEW a \in Seq(Nat), NEW b \in Seq(Nat)
  PROVE  LexBefore(a, b) <=> \E n : LexAt(a, b, n)
<1>1. Len(a) \in Nat /\ Len(b) \in Nat
  OBVIOUS
<1>2. ASSUME LexBefore(a, b) PROVE \E n : LexAt(a, b, n)
  <2>1. PICK n \in 0 .. Len(a) : /\ n < Len(b) /\ SubSeq(a, 1, n) = SubSeq(b, 1, n)
                                 /\ n = Len(a) \/ a[n + 1] < b[n + 1]
    BY <1>2 DEF LexBefore
  <2>2. n \in Nat /\ n <= Len(a) /\ n <= Len(b)
    BY <1>1, <2>1
  <2>3. \A k \in 1 .. n : a[k] = b[k]
    BY <2>1, <2>2, SamePrefix
  <2>4. LexAt(a, b, n)
    BY <2>1, <2>2, <2>3 DEF LexAt
  <2>5. QED
    BY <2>4
<1>3. ASSUME NEW n, LexAt(a, b, n) PROVE LexBefore(a, b)
  <2>1. /\ n \in Nat /\ n <= Len(a) /\ n < Len(b) /\ n <= Len(b) /\ n \in 0 .. Len(a)
        /\ \A k \in 1 .. n : a[k] = b[k]
        /\ n = Len(a) \/ a[n + 1] < b[n + 1]
    BY <1>1, <1>3 DEF LexAt
  <2>2. SubSeq(a, 1, n) = SubSeq(b, 1, n)
    BY <2>1, SamePrefix
  <2>3. QED
    BY <2>1, <2>2 DEF LexBefore
<1>4. QED
  BY <1>2, <1>3

\* Byte strings are totally ordered.
LEMMA LexIrreflexive == ASSUME NEW a \in Seq(Nat) PROVE ~LexBefore(a, a)
<1>1. ASSUME NEW n, LexAt(a, a, n) PROVE FALSE
  <2>1. n \in Nat /\ n < Len(a) /\ Len(a) \in Nat /\ a[n + 1] < a[n + 1]
    BY <1>1 DEF LexAt
  <2>2. a[n + 1] \in Nat
    BY <2>1
  <2>3. QED
    BY <2>1, <2>2
<1>2. QED
  BY <1>1, LexIs

\* What comes before a string comes before all that follow it.
LEMMA LexTransitive ==
  ASSUME NEW a \in Seq(Nat), NEW b \in Seq(Nat), NEW c \in Seq(Nat), LexBefore(a, b), LexBefore(b, c)
  PROVE  LexBefore(a, c)
<1>1. PICK n : LexAt(a, b, n)
  BY LexIs
<1>2. PICK m : LexAt(b, c, m)
  BY LexIs
<1>3. /\ Len(a) \in Nat /\ Len(b) \in Nat /\ Len(c) \in Nat /\ n \in Nat /\ m \in Nat
      /\ \A k \in Nat : k >= 1 /\ k <= Len(a) => a[k] \in Nat
      /\ \A k \in Nat : k >= 1 /\ k <= Len(b) => b[k] \in Nat
      /\ \A k \in Nat : k >= 1 /\ k <= Len(c) => c[k] \in Nat
  <2>1. n \in Nat /\ m \in Nat
    BY <1>1, <1>2 DEF LexAt
  <2>2. QED
    BY <2>1, ElementOfSeq
<1>4. CASE n < m
  <2>1. n + 1 \in Nat /\ n + 1 >= 1 /\ n + 1 <= m /\ n <= Len(a) /\ n < Len(c)
    BY <1>1, <1>2, <1>3, <1>4 DEF LexAt
  <2>2. b[n + 1] = c[n + 1]
    BY <1>2, <2>1 DEF LexAt
  <2>3. \A k \in Nat : k >= 1 /\ k <= n => a[k] = c[k]
    BY <1>1, <1>2, <1>3, <1>4 DEF LexAt
  <2>4. n = Len(a) \/ a[n + 1] < c[n + 1]
    BY <1>1, <2>2 DEF LexAt
  <2>5. LexAt(a, c, n)
    BY <1>3, <2>1, <2>3, <2>4 DEF LexAt
  <2>6. QED
    BY <2>5, LexIs
<1>5. CASE m < n
  <2>1. /\ m + 1 \in Nat /\ m + 1 >= 1 /\ m + 1 <= n /\ m <= Len(a) /\ m < Len(c) /\ m # Len(b)
    BY <1>1, <1>2, <1>3, <1>5 DEF LexAt
  <2>2. a[m + 1] = b[m + 1] /\ b[m + 1] < c[m + 1]
    BY <1>1, <1>2, <2>1 DEF LexAt
  <2>3. \A k \in Nat : k >= 1 /\ k <= m => a[k] = c[k]
    BY <1>1, <1>2, <1>3, <1>5 DEF LexAt
  <2>4. LexAt(a, c, m)
    BY <1>3, <2>1, <2>2, <2>3 DEF LexAt
  <2>5. QED
    BY <2>4, LexIs
<1>6. CASE n = m
  <2>1. n <= Len(a) /\ n < Len(b) /\ n < Len(c) /\ b[n + 1] < c[n + 1]
    BY <1>1, <1>2, <1>3, <1>6 DEF LexAt
  <2>2. \A k \in Nat : k >= 1 /\ k <= n => a[k] = c[k]
    BY <1>1, <1>2, <1>3, <1>6 DEF LexAt
  <2>3. n = Len(a) \/ a[n + 1] < c[n + 1]
    <3>1. CASE n = Len(a)
      BY <3>1
    <3>2. CASE n # Len(a)
      <4>1. a[n + 1] < b[n + 1]
        BY <1>1, <3>2 DEF LexAt
      <4>2. n + 1 \in Nat /\ n + 1 >= 1 /\ n + 1 <= Len(a) /\ n + 1 <= Len(b) /\ n + 1 <= Len(c)
        BY <1>3, <2>1, <3>2
      <4>3. a[n + 1] \in Nat /\ b[n + 1] \in Nat /\ c[n + 1] \in Nat
        BY <1>3, <4>2
      <4>4. QED
        BY <2>1, <4>1, <4>3
    <3>3. QED
      BY <3>1, <3>2
  <2>4. LexAt(a, c, n)
    BY <1>3, <2>1, <2>2, <2>3 DEF LexAt
  <2>5. QED
    BY <2>4, LexIs
<1>7. QED
  BY <1>3, <1>4, <1>5, <1>6

\* Of two strings that differ one comes first.
LEMMA LexTotal ==
  ASSUME NEW a \in Seq(Nat), NEW b \in Seq(Nat), a # b
  PROVE  LexBefore(a, b) \/ LexBefore(b, a)
<1>1. /\ Len(a) \in Nat /\ Len(b) \in Nat
      /\ \A k \in Nat : k >= 1 /\ k <= Len(a) => a[k] \in Nat
      /\ \A k \in Nat : k >= 1 /\ k <= Len(b) => b[k] \in Nat
  BY ElementOfSeq
<1> DEFINE Differ == {k \in Nat : k >= 1 /\ k <= Len(a) /\ k <= Len(b) /\ a[k] # b[k]}
<1>2. CASE Differ = {}
  <2>1. \A k \in Nat : k >= 1 /\ k <= Len(a) /\ k <= Len(b) => a[k] = b[k]
    BY <1>2
  <2>2. Len(a) # Len(b)
    <3>1. ASSUME Len(a) = Len(b) PROVE FALSE
      <4>1. \A k \in 1 .. Len(a) : a[k] = b[k]
        BY <1>1, <2>1, <3>1
      <4>2. QED
        BY <3>1, <4>1, SeqEqual
    <3>2. QED
      BY <3>1
  <2>3. CASE Len(a) < Len(b)
    <3>1. LexAt(a, b, Len(a))
      BY <1>1, <2>1, <2>3 DEF LexAt
    <3>2. QED
      BY <3>1, LexIs
  <2>4. CASE Len(b) < Len(a)
    <3>1. LexAt(b, a, Len(b))
      BY <1>1, <2>1, <2>4 DEF LexAt
    <3>2. QED
      BY <3>1, LexIs
  <2>5. QED
    BY <1>1, <2>2, <2>3, <2>4
<1>3. CASE Differ # {}
  <2>1. PICK k \in Differ : \A j \in Differ : k <= j
    <3>1. Differ \in SUBSET Nat
      OBVIOUS
    <3> HIDE DEF Differ
    <3>2. QED
      BY <1>3, <3>1, LeastNatural
  <2>2. k \in Nat /\ k >= 1 /\ k <= Len(a) /\ k <= Len(b) /\ a[k] # b[k] /\ a[k] \in Nat /\ b[k] \in Nat
    BY <1>1
  <2> DEFINE n == k - 1
  <2>3. n \in Nat /\ n + 1 = k /\ n < Len(a) /\ n < Len(b) /\ n <= Len(a) /\ n <= Len(b)
    BY <1>1, <2>2
  <2>4. \A j \in Nat : j >= 1 /\ j <= n => a[j] = b[j]
    <3> SUFFICES ASSUME NEW j \in Nat, j >= 1, j <= n PROVE a[j] = b[j]
      OBVIOUS
    <3>1. ~(k <= j) /\ j <= Len(a) /\ j <= Len(b)
      BY <1>1, <2>2
    <3>2. j \notin Differ
      BY <2>1, <3>1
    <3>3. QED
      BY <3>1, <3>2
  <2> HIDE DEF n, Differ
  <2>5. CASE a[k] < b[k]
    <3>1. LexAt(a, b, n)
      BY <2>3, <2>4, <2>5 DEF LexAt
    <3>2. QED
      BY <3>1, LexIs
  <2>6. CASE b[k] < a[k]
    <3>1. LexAt(b, a, n)
      BY <2>3, <2>4, <2>6 DEF LexAt
    <3>2. QED
      BY <3>1, LexIs
  <2>7. QED
    BY <2>2, <2>5, <2>6
<1>4. QED
  BY <1>2, <1>3

\* Every id of the rows is a byte string.
HasIds(rows, n) == n \in Nat /\ DOMAIN rows = 1 .. n /\ \A i \in 1 .. n : rows[i].id \in Seq(Nat)

\* No row comes before the one it follows.
InOrder(rows, n) ==
  \A p, q \in 1 .. n : p < q => LexBefore(rows[p].id, rows[q].id) \/ rows[p].id = rows[q].id

\* The rows of a build are those of the scan, each in its place.
PlacedAs(rows, scan, n, at) ==
  /\ at \in [1 .. n -> 1 .. n] /\ rows = [k \in 1 .. n |-> scan[at[k]]]
  /\ \A i \in 1 .. n : \E p \in 1 .. n : at[p] = i

\* Sorting loses no row, adds none, and leaves no id before a smaller one.
LEMMA SortedRowsAre ==
  ASSUME NEW scan, NEW n, HasIds(scan, n)
  PROVE  InOrder(SortedRows(scan), n) /\ \E at : PlacedAs(SortedRows(scan), scan, n, at)
<1> DEFINE S == 1 .. n
           Less(i, j) == \/ LexBefore(scan[i].id, scan[j].id)
                         \/ scan[i].id = scan[j].id /\ i < j
           before == [x \in S |-> {y \in S : Less(y, x)}]
           at == Sorted(S, before)
           rows == SortedRows(scan)
<1>1. n \in Nat /\ DOMAIN scan = S /\ \A i \in S : scan[i].id \in Seq(Nat)
  BY DEF HasIds
<1>2. rows = [k \in DOMAIN scan |-> scan[Sorted(DOMAIN scan, [x \in DOMAIN scan |-> {y \in DOMAIN scan : Less(y, x)}])[k]]]
  BY DEF SortedRows, SortedBy
<1>3. rows = [k \in S |-> scan[at[k]]]
  BY <1>1, <1>2, Zenon
<1>4. IsFiniteSet(S) /\ Cardinality(S) = n
  <2>1. 0 \in Int /\ 1 \in Int /\ n \in Int /\ (IF 1 > n THEN 0 ELSE n - 1 + 1) = n
    BY <1>1
  <2>2. IsFiniteSet(1 .. n) /\ Cardinality(1 .. n) = IF 1 > n THEN 0 ELSE n - 1 + 1
    BY <2>1, FS_Interval, Zenon
  <2>3. QED
    BY <2>1, <2>2
<1>5. \A i \in S : ~Less(i, i)
  BY <1>1, LexIrreflexive
<1>6. \A i, j, k \in S : Less(i, j) /\ Less(j, k) => Less(i, k)
  <2> SUFFICES ASSUME NEW i \in S, NEW j \in S, NEW k \in S, Less(i, j), Less(j, k) PROVE Less(i, k)
    OBVIOUS
  <2>1. /\ scan[i].id \in Seq(Nat) /\ scan[j].id \in Seq(Nat) /\ scan[k].id \in Seq(Nat)
        /\ i \in Nat /\ j \in Nat /\ k \in Nat
    BY <1>1
  <2>2. CASE LexBefore(scan[i].id, scan[j].id) /\ LexBefore(scan[j].id, scan[k].id)
    BY <2>1, <2>2, LexTransitive
  <2>3. QED
    BY <2>1, <2>2
<1>7. \A i, j \in S : i # j => Less(i, j) \/ Less(j, i)
  <2> SUFFICES ASSUME NEW i \in S, NEW j \in S, i # j PROVE Less(i, j) \/ Less(j, i)
    OBVIOUS
  <2>1. scan[i].id \in Seq(Nat) /\ scan[j].id \in Seq(Nat) /\ i \in Nat /\ j \in Nat
    BY <1>1
  <2>2. CASE scan[i].id = scan[j].id
    BY <2>1, <2>2
  <2>3. CASE scan[i].id # scan[j].id
    <3>1. LexBefore(scan[i].id, scan[j].id) \/ LexBefore(scan[j].id, scan[i].id)
      BY <2>1, <2>3, LexTotal
    <3>2. QED
      BY <3>1
  <2>4. QED
    BY <2>2, <2>3
<1> HIDE DEF Less
<1>8. IsOrder(S, before)
  <2>1. before \in [S -> SUBSET S] /\ \A i, j \in S : i \in before[j] <=> Less(i, j)
    OBVIOUS
  <2> HIDE DEF before, S
  <2>2. \A s \in S : s \notin before[s]
    BY <1>5, <2>1
  <2>3. \A s, t \in S : s \in before[t] => before[s] \subseteq before[t]
    <3> SUFFICES ASSUME NEW s \in S, NEW t \in S, s \in before[t], NEW r \in before[s] PROVE r \in before[t]
      OBVIOUS
    <3>1. r \in S
      BY <2>1
    <3>2. QED
      BY <1>6, <2>1, <3>1
  <2>4. \A s, t \in S : s # t => s \in before[t] \/ t \in before[s]
    BY <1>7, <2>1
  <2>5. QED
    BY <2>1, <2>2, <2>3, <2>4 DEF IsOrder
<1>9. Sorts(at, S, before)
  BY <1>4, <1>8, SortedSorts
<1>10. /\ at \in [S -> S]
       /\ \A i \in S : \E p \in S : at[p] = i
       /\ \A p, q \in S : p < q <=> at[p] \in before[at[q]]
  BY <1>4, <1>9 DEF Sorts
<1> HIDE DEF at, rows
<1>11. PlacedAs(rows, scan, n, at)
  BY <1>3, <1>10 DEF PlacedAs
<1>12. InOrder(rows, n)
  <2> SUFFICES ASSUME NEW p \in S, NEW q \in S, p < q
               PROVE  LexBefore(rows[p].id, rows[q].id) \/ rows[p].id = rows[q].id
    BY DEF InOrder
  <2>1. at[p] \in S /\ at[q] \in S /\ at[p] \in before[at[q]]
    BY <1>10
  <2>2. Less(at[p], at[q])
    BY <2>1
  <2>3. rows[p] = scan[at[p]] /\ rows[q] = scan[at[q]]
    BY <1>3
  <2>4. QED
    BY <2>2, <2>3 DEF Less
<1>13. QED
  BY <1>11, <1>12 DEF rows

\* What has as many elements as places has none of them twice.
LEMMA NoneTwice ==
  ASSUME NEW n \in Nat, NEW f, NEW g, DOMAIN f = 1 .. n, DOMAIN g = 1 .. n, ToSet(f) = ToSet(g),
         \A i, j \in 1 .. n : i # j => f[i] # f[j],
         g = [i \in 1 .. n |-> g[i]], f = [i \in 1 .. n |-> f[i]]
  PROVE  \A i, j \in 1 .. n : i # j => g[i] # g[j]
<1> DEFINE S == 1 .. n
           R == ToSet(f)
<1>1. IsFiniteSet(S)
  <2>1. 1 \in Int /\ n \in Int
    OBVIOUS
  <2>2. QED
    BY <2>1, FS_Interval
<1>2. f \in Injection(S, R) /\ f \in Surjection(S, R)
  <2>1. f \in [S -> R] /\ \A y \in R : \E i \in S : f[i] = y
    BY DEF ToSet
  <2> HIDE DEF R, S
  <2>2. QED
    BY <2>1 DEF Injection, Surjection, IsInjective, S
<1>3. g \in Surjection(S, R)
  <2>1. g \in [S -> R] /\ \A y \in R : \E i \in S : g[i] = y
    BY DEF ToSet
  <2> HIDE DEF R, S
  <2>2. QED
    BY <2>1 DEF Surjection
<1> HIDE DEF R, S
<1>4. Cardinality(R) = Cardinality(S) /\ IsFiniteSet(R)
  BY <1>1, <1>2, FS_Surjection
<1>5. g \in Injection(S, R)
  BY <1>1, <1>3, <1>4, FS_Surjection
<1>6. QED
  BY <1>5 DEF Injection, IsInjective, S

\* The same rows, each once, have one order.
LEMMA OneOrder ==
  ASSUME NEW n \in Nat, NEW f, NEW g, HasIds(f, n), HasIds(g, n), InOrder(f, n), InOrder(g, n),
         g = [i \in 1 .. n |-> g[i]], f = [i \in 1 .. n |-> f[i]],
         ToSet(f) = ToSet(g), NoIdTwice(f)
  PROVE  f = g
<1>1. /\ DOMAIN f = 1 .. n /\ DOMAIN g = 1 .. n
      /\ \A i \in 1 .. n : f[i].id \in Seq(Nat) /\ g[i].id \in Seq(Nat)
      /\ \A i, j \in 1 .. n : i # j => f[i].id # f[j].id
  BY DEF HasIds, NoIdTwice
<1>2. \A i, j \in 1 .. n : i # j => g[i] # g[j]
  <2>1. \A i, j \in 1 .. n : i # j => f[i] # f[j]
    BY <1>1
  <2>2. QED
    <3>1. /\ DOMAIN f = 1 .. n /\ DOMAIN g = 1 .. n /\ ToSet(f) = ToSet(g)
          /\ g = [i \in 1 .. n |-> g[i]] /\ f = [i \in 1 .. n |-> f[i]]
      BY <1>1
    <3>2. QED
      BY <2>1, <3>1, NoneTwice, Zenon
<1>3. /\ \A i \in 1 .. n : \E j \in 1 .. n : g[j] = f[i]
      /\ \A i \in 1 .. n : \E j \in 1 .. n : f[j] = g[i]
  <2>1. /\ \A i \in 1 .. n : f[i] \in ToSet(f) /\ g[i] \in ToSet(g)
        /\ \A x \in ToSet(f) : \E i \in 1 .. n : f[i] = x
        /\ \A x \in ToSet(g) : \E i \in 1 .. n : g[i] = x
    BY <1>1 DEF ToSet
  <2>2. QED
    BY <2>1
<1>4. \A i, j \in 1 .. n : g[i].id = g[j].id => i = j
  <2> SUFFICES ASSUME NEW i \in 1 .. n, NEW j \in 1 .. n, g[i].id = g[j].id PROVE i = j
    OBVIOUS
  <2>1. PICK k \in 1 .. n : f[k] = g[i]
    BY <1>3
  <2>2. PICK l \in 1 .. n : f[l] = g[j]
    BY <1>3
  <2>3. k = l
    BY <1>1, <2>1, <2>2
  <2>4. QED
    BY <1>2, <2>1, <2>2, <2>3
<1>5. \A p, q \in 1 .. n : p < q => LexBefore(f[p].id, f[q].id) /\ LexBefore(g[p].id, g[q].id)
  <2> SUFFICES ASSUME NEW p \in 1 .. n, NEW q \in 1 .. n, p < q
               PROVE  LexBefore(f[p].id, f[q].id) /\ LexBefore(g[p].id, g[q].id)
    OBVIOUS
  <2>1. p # q
    OBVIOUS
  <2>2. f[p].id # f[q].id /\ g[p].id # g[q].id
    BY <1>1, <1>4, <2>1
  <2>3. QED
    BY <2>2 DEF InOrder
<1> DEFINE Bad == {i \in 1 .. n : f[i] # g[i]}
<1>6. ASSUME Bad # {} PROVE FALSE
  <2>1. PICK p \in Bad : \A o \in Bad : p <= o
    <3>1. Bad \in SUBSET Nat
      OBVIOUS
    <3> HIDE DEF Bad
    <3>2. QED
      BY <1>6, <3>1, LeastNatural
  <2>2. p \in 1 .. n /\ f[p] # g[p]
    OBVIOUS
  <2>3. \A o \in 1 .. n : o < p => f[o] = g[o]
    BY <2>1
  <2> HIDE DEF Bad
  <2>4. PICK q \in 1 .. n : g[q] = f[p]
    BY <1>3, <2>2
  <2>5. PICK r \in 1 .. n : f[r] = g[p]
    BY <1>3, <2>2
  <2>6. p < q
    <3>1. q # p
      BY <2>2, <2>4
    <3>2. ASSUME q < p PROVE FALSE
      <4>1. f[q] = f[p] /\ q # p
        BY <2>2, <2>3, <2>4, <3>2
      <4>2. QED
        BY <1>1, <2>2, <4>1
    <3>3. QED
      BY <2>2, <3>1, <3>2
  <2>7. p < r
    <3>1. r # p
      BY <2>2, <2>5
    <3>2. ASSUME r < p PROVE FALSE
      <4>1. g[r] = g[p] /\ r # p
        BY <2>2, <2>3, <2>5, <3>2
      <4>2. QED
        BY <1>2, <2>2, <4>1
    <3>3. QED
      BY <2>2, <3>1, <3>2
  <2>8. LexBefore(g[p].id, f[p].id) /\ LexBefore(f[p].id, g[p].id)
    <3>1. LexBefore(g[p].id, g[q].id)
      BY <1>5, <2>2, <2>6
    <3>2. LexBefore(f[p].id, f[r].id)
      BY <1>5, <2>2, <2>7
    <3>3. QED
      BY <2>4, <2>5, <3>1, <3>2
  <2>9. g[p].id \in Seq(Nat) /\ f[p].id \in Seq(Nat)
    BY <1>1, <2>2
  <2>10. LexBefore(g[p].id, g[p].id)
    BY <2>8, <2>9, LexTransitive
  <2>11. QED
    BY <2>9, <2>10, LexIrreflexive
<1>7. \A i \in 1 .. n : f[i] = g[i]
  BY <1>6
<1>8. QED
  BY <1>7

\* Sorted rows are the rows of the scan.
LEMMA SameSet ==
  ASSUME NEW rows, NEW scan, NEW n, NEW at, DOMAIN scan = 1 .. n, PlacedAs(rows, scan, n, at)
  PROVE  ToSet(rows) = ToSet(scan) /\ DOMAIN rows = 1 .. n
<1>1. /\ at \in [1 .. n -> 1 .. n] /\ rows = [k \in 1 .. n |-> scan[at[k]]]
      /\ \A i \in 1 .. n : \E p \in 1 .. n : at[p] = i
  BY DEF PlacedAs
<1>2. DOMAIN rows = 1 .. n /\ \A k \in 1 .. n : rows[k] = scan[at[k]] /\ at[k] \in 1 .. n
  BY <1>1
<1>3. QED
  BY <1>1, <1>2 DEF ToSet

\* What a build is given: the rows of the scan, in order, with the ids they have there.
LEMMA RowsOfScan ==
  ASSUME NEW scan, IsScan(scan), LanceSnapshot(scan) # <<>>
  PROVE  /\ \A i \in DOMAIN scan : RowAccepted(scan[i])
         /\ LanceSnapshot(scan) = SortedRows(scan)
         /\ Len(scan) \in Nat /\ Len(LanceSnapshot(scan)) = Len(scan)
         /\ HasIds(scan, Len(scan)) /\ HasIds(LanceSnapshot(scan), Len(scan))
         /\ InOrder(LanceSnapshot(scan), Len(scan))
         /\ ToSet(LanceSnapshot(scan)) = ToSet(scan)
         /\ LanceSnapshot(scan) = [i \in 1 .. Len(scan) |-> LanceSnapshot(scan)[i]]
<1> DEFINE rows == LanceSnapshot(scan)
           n == Len(scan)
<1>1. (\A i \in DOMAIN scan : RowAccepted(scan[i])) /\ rows = SortedRows(scan)
  BY DEF LanceSnapshot
<1>2. n \in Nat /\ DOMAIN scan = 1 .. n
  BY DEF IsScan
<1>3. HasIds(scan, n)
  <2>1. \A i \in DOMAIN scan : scan[i].id \in Seq(0 .. 3)
    BY DEF IsScan, IsText
  <2>2. ASSUME NEW i \in 1 .. n PROVE scan[i].id \in Seq(Nat)
    <3>1. scan[i].id \in Seq(0 .. 3)
      BY <1>2, <2>1
    <3>2. QED
      BY <3>1
  <2>3. QED
    BY <1>2, <2>2 DEF HasIds
<1> HIDE DEF n
<1>4. PICK at : PlacedAs(SortedRows(scan), scan, n, at)
  BY <1>3, SortedRowsAre
<1>5. /\ rows = [k \in 1 .. n |-> scan[at[k]]] /\ \A k \in 1 .. n : at[k] \in 1 .. n
  BY <1>1, <1>4 DEF PlacedAs
<1>6. ToSet(rows) = ToSet(scan) /\ DOMAIN rows = 1 .. n
  BY <1>1, <1>2, <1>4, SameSet
<1>7. InOrder(rows, n)
  BY <1>1, <1>3, SortedRowsAre
<1> HIDE DEF rows
<1>8. Len(rows) = n
  BY <1>2, <1>5
<1>9. \A k \in 1 .. n : rows[k] = scan[at[k]]
  BY <1>5
<1>10. HasIds(rows, n)
  BY <1>3, <1>5, <1>6, <1>9 DEF HasIds
<1>11. rows = [i \in 1 .. n |-> rows[i]]
  BY <1>5
<1>12. QED
  BY <1>1, <1>2, <1>3, <1>6, <1>7, <1>8, <1>10, <1>11 DEF rows, n

\* Scans of the same rows, each of them once, make the same build.
LEMMA SameRowsSameBuild ==
  ASSUME NEW scan, NEW other, IsScan(scan), IsScan(other), LanceSnapshot(scan) # <<>>,
         NoIdTwice(LanceSnapshot(scan)),
         ToSet(other) = ToSet(LanceSnapshot(scan)), Len(other) = Len(LanceSnapshot(scan))
  PROVE  LanceSnapshot(other) = LanceSnapshot(scan)
<1> DEFINE n == Len(scan)
           rows == LanceSnapshot(scan)
           again == LanceSnapshot(other)
<1>1. /\ \A i \in DOMAIN scan : RowAccepted(scan[i])
      /\ n \in Nat /\ Len(rows) = n /\ HasIds(rows, n) /\ InOrder(rows, n)
      /\ ToSet(rows) = ToSet(scan) /\ rows = [i \in 1 .. n |-> rows[i]]
  BY RowsOfScan
<1>2. Len(other) = n /\ ToSet(other) = ToSet(scan)
  BY <1>1
<1>3. \A i \in DOMAIN other : RowAccepted(other[i])
  BY <1>1, <1>2 DEF ToSet
<1>4. n # 0 
  <2>1. CASE n = 0
    <3>1. rows = [i \in 1 .. 0 |-> rows[i]]
      BY <1>1, <2>1
    <3>2. rows = <<>>
      BY <3>1
    <3>3. QED
      BY <3>2
  <2>2. QED
    BY <2>1
<1>5. again # <<>>
  <2>1. again = SortedRows(other)
    BY <1>3 DEF LanceSnapshot
  <2>2. DOMAIN SortedRows(other) = DOMAIN other
    BY DEF SortedRows
  <2>3. DOMAIN other = 1 .. n /\ 1 \in 1 .. n
    BY <1>1, <1>2, <1>4 DEF IsScan
  <2>4. QED
    BY <2>1, <2>2, <2>3
<1>6. /\ HasIds(again, n) /\ InOrder(again, n) /\ ToSet(again) = ToSet(other)
      /\ again = [i \in 1 .. n |-> again[i]]
  BY <1>2, <1>5, RowsOfScan
<1> HIDE DEF rows, again, n
<1>7. ToSet(rows) = ToSet(again)
  BY <1>1, <1>2, <1>6
<1>8. NoIdTwice(rows)
  BY DEF rows
<1>9. rows = again
  BY <1>1, <1>6, <1>7, <1>8, OneOrder
<1>10. QED
  BY <1>9 DEF rows, again

-------------------------------------------------------------------------------
(* What a build lays out, and what it finds there. *)

\* What a build lays out: rows of texts, whose files have a size.
Layable(rows, n) ==
  /\ n \in Nat /\ Len(rows) = n /\ DOMAIN rows = 1 .. n
  /\ \A i \in 1 .. n : IsText(rows[i].id) /\ IsText(rows[i].text) /\ IsText(rows[i].title)
  /\ FitsU64(rows)

\* load_lance_snapshot hands on rows that can be laid out.
LEMMA ScansAreLayable ==
  ASSUME NEW scan \in Scans, LanceSnapshot(scan) # <<>>
  PROVE  Layable(LanceSnapshot(scan), Len(LanceSnapshot(scan)))
<1> DEFINE rows == LanceSnapshot(scan)
           n == Len(scan)
<1>1. IsScan(scan) /\ FitsU64(rows)
  BY ImageConstants
<1>2. n \in Nat /\ Len(rows) = n /\ HasIds(rows, n) /\ ToSet(rows) = ToSet(scan)
  BY <1>1, RowsOfScan
<1>3. \A i \in DOMAIN scan : IsText(scan[i].id) /\ IsText(scan[i].text) /\ IsText(scan[i].title)
  BY <1>1 DEF IsScan
<1>4. DOMAIN rows = 1 .. n
  BY <1>2 DEF HasIds
<1> HIDE DEF rows, n
<1>5. ASSUME NEW i \in 1 .. n PROVE IsText(rows[i].id) /\ IsText(rows[i].text) /\ IsText(rows[i].title)
  <2>1. rows[i] \in ToSet(scan)
    BY <1>2, <1>4 DEF ToSet
  <2>2. PICK j \in DOMAIN scan : rows[i] = scan[j]
    BY <2>1 DEF ToSet
  <2>3. QED
    BY <1>3, <2>2
<1>6. QED
  BY <1>1, <1>2, <1>4, <1>5 DEF Layable, rows

\* The metadata of a row is a text.
LEMMA JsonIsText ==
  ASSUME NEW row, IsText(row.title)
  PROVE  IsText(JsonOf(row)) /\ Len(JsonOf(row)) = Len(row.title) + 2
<1> DEFINE t == row.title
           T == 0 .. 3
           open == <<0>> \o t
           json == open \o <<1>>
           l == Len(t)
<1>1. t \in Seq(T) /\ IsUtf8(t)
  BY DEF IsText
<1>2. JsonOf(row) = json
  BY DEF JsonOf
<1>3. <<0>> \in Seq(T) /\ <<1>> \in Seq(T) /\ Len(<<0>>) = 1 /\ Len(<<1>>) = 1
  OBVIOUS
<1>4. l \in Nat /\ DOMAIN t = 1 .. l
  BY <1>1, LenProperties
<1> HIDE DEF T, t
<1>5. /\ open \in Seq(T) /\ Len(open) = 1 + l
      /\ \A i \in 1 .. 1 + l : open[i] = IF i <= 1 THEN <<0>>[i] ELSE t[i - 1]
  BY <1>1, <1>3, ConcatProperties
<1> HIDE DEF open
<1>6. /\ json \in Seq(T) /\ Len(json) = 1 + l + 1
      /\ \A i \in 1 .. 1 + l + 1 : json[i] = IF i <= 1 + l THEN open[i] ELSE <<1>>[i - (1 + l)]
  BY <1>3, <1>5, ConcatProperties
<1> HIDE DEF json, l
<1>7. /\ json[1] = 0 /\ json[l + 2] = 1
      /\ \A j \in Nat : 2 <= j /\ j <= l + 1 => json[j] = t[j - 1]
  <2>1. json[1] = 0
    <3>1. 1 \in 1 .. 1 + l + 1 /\ 1 <= 1 + l /\ 1 \in 1 .. 1 + l
      BY <1>4
    <3>2. json[1] = open[1] /\ open[1] = <<0>>[1]
      BY <1>5, <1>6, <3>1
    <3>3. QED
      BY <3>2
  <2>2. json[l + 2] = 1
    <3> DEFINE j == l + 2
    <3>2. j \in 1 .. 1 + l + 1 /\ ~(j <= 1 + l) /\ j - (1 + l) = 1
      BY <1>4
    <3> HIDE DEF j
    <3>3. json[j] = <<1>>[j - (1 + l)]
      BY <1>6, <3>2
    <3>4. json[j] = <<1>>[1]
      BY <3>2, <3>3
    <3>5. QED
      BY <3>4 DEF j
  <2>3. \A j \in Nat : 2 <= j /\ j <= l + 1 => json[j] = t[j - 1]
    <3> SUFFICES ASSUME NEW j \in Nat, 2 <= j, j <= l + 1 PROVE json[j] = t[j - 1]
      OBVIOUS
    <3>1. j \in 1 .. 1 + l + 1 /\ j <= 1 + l /\ j \in 1 .. 1 + l /\ ~(j <= 1)
      BY <1>4
    <3>2. json[j] = open[j] /\ open[j] = t[j - 1]
      BY <1>5, <1>6, <3>1
    <3>3. QED
      BY <3>2
  <2>4. QED
    BY <2>1, <2>2, <2>3
<1>8. \A j \in 1 .. l : /\ t[j] = 2 => j < l /\ t[j + 1] = 3
                        /\ t[j] = 3 => j > 1 /\ t[j - 1] = 2
  BY <1>1, <1>4 DEF IsUtf8, l
<1>9. ASSUME NEW k \in 1 .. l + 2
      PROVE  /\ json[k] = 2 => k < l + 2 /\ json[k + 1] = 3
             /\ json[k] = 3 => k > 1 /\ json[k - 1] = 2
  <2>1. CASE k = 1 \/ k = l + 2
    BY <1>7, <2>1
  <2>2. CASE k # 1 /\ k # l + 2
    <3>1. k \in Nat /\ 2 <= k /\ k <= l + 1 /\ k - 1 \in 1 .. l
      BY <1>4, <2>2
    <3>2. json[k] = t[k - 1]
      BY <1>7, <3>1
    <3>3. ASSUME json[k] = 2 PROVE k < l + 2 /\ json[k + 1] = 3
      <4>1. k - 1 < l /\ t[k - 1 + 1] = 3
        BY <1>8, <3>1, <3>2, <3>3
      <4>2. k + 1 \in Nat /\ 2 <= k + 1 /\ k + 1 <= l + 1 /\ k + 1 - 1 = k /\ k - 1 + 1 = k
        BY <1>4, <3>1, <4>1
      <4>3. json[k + 1] = t[k + 1 - 1]
        BY <1>7, <4>2
      <4>4. QED
        BY <1>4, <3>1, <4>1, <4>2, <4>3
    <3>4. ASSUME json[k] = 3 PROVE k > 1 /\ json[k - 1] = 2
      <4>1. k - 1 > 1 /\ t[k - 1 - 1] = 2
        BY <1>8, <3>1, <3>2, <3>4
      <4>2. k - 1 \in Nat /\ 2 <= k - 1 /\ k - 1 <= l + 1
        BY <1>4, <3>1, <4>1
      <4>3. json[k - 1] = t[k - 1 - 1]
        BY <1>7, <4>2
      <4>4. QED
        BY <3>1, <4>1, <4>3
    <3>5. QED
      BY <3>3, <3>4
  <2>3. QED
    BY <2>1, <2>2
<1>10. DOMAIN json = 1 .. l + 2 /\ Len(json) = l + 2
  BY <1>4, <1>6
<1>11. IsUtf8(json)
  BY <1>9, <1>10 DEF IsUtf8
<1>12. QED
  BY <1>2, <1>6, <1>10, <1>11 DEF IsText, T, l, t

\* The parts of each blob.
LEMMA PartsAre ==
  ASSUME NEW rows, NEW n, Layable(rows, n)
  PROVE  /\ Texts(rows) \in [1 .. n -> Seq(0 .. 3)] /\ Titles(rows) \in [1 .. n -> Seq(0 .. 3)]
         /\ DocIds(rows) \in [1 .. n -> Seq(0 .. 3)] /\ Jsons(rows) \in [1 .. n -> Seq(0 .. 3)]
         /\ \A i \in 1 .. n : /\ Texts(rows)[i] = rows[i].text /\ Titles(rows)[i] = rows[i].title
                              /\ DocIds(rows)[i] = rows[i].id /\ Jsons(rows)[i] = JsonOf(rows[i])
<1>1. DOMAIN rows = 1 .. n
  BY DEF Layable
<1>2. \A i \in 1 .. n : /\ rows[i].text \in Seq(0 .. 3) /\ rows[i].title \in Seq(0 .. 3)
                        /\ rows[i].id \in Seq(0 .. 3) /\ JsonOf(rows[i]) \in Seq(0 .. 3)
  BY JsonIsText DEF Layable, IsText
<1>3. Texts(rows) \in [1 .. n -> Seq(0 .. 3)] /\ \A i \in 1 .. n : Texts(rows)[i] = rows[i].text
  BY <1>1, <1>2 DEF Texts
<1>4. Titles(rows) \in [1 .. n -> Seq(0 .. 3)] /\ \A i \in 1 .. n : Titles(rows)[i] = rows[i].title
  BY <1>1, <1>2 DEF Titles
<1>5. DocIds(rows) \in [1 .. n -> Seq(0 .. 3)] /\ \A i \in 1 .. n : DocIds(rows)[i] = rows[i].id
  BY <1>1, <1>2 DEF DocIds
<1>6. Jsons(rows) \in [1 .. n -> Seq(0 .. 3)] /\ \A i \in 1 .. n : Jsons(rows)[i] = JsonOf(rows[i])
  BY <1>1, <1>2 DEF Jsons
<1>7. QED
  BY <1>3, <1>4, <1>5, <1>6

\* A part is in its blob.
LiesAt(blob, offset, part) ==
  RangeInBlob(blob, offset, Len(part)) /\ Slice(blob, offset, Len(part)) = part /\ Len(part) \in Nat

\* Texts, titles, ids and metadata lie in their blobs where the builder says.
LEMMA PartsFound ==
  ASSUME NEW rows, NEW n, Layable(rows, n)
  PROVE  \A i \in 1 .. n :
           /\ LiesAt(FlattenSeq(Texts(rows)), OffsetIn(Texts(rows), i), rows[i].text)
           /\ LiesAt(FlattenSeq(Titles(rows)), OffsetIn(Titles(rows), i), rows[i].title)
           /\ LiesAt(FlattenSeq(DocIds(rows)), OffsetIn(DocIds(rows), i), rows[i].id)
           /\ LiesAt(FlattenSeq(Jsons(rows)), OffsetIn(Jsons(rows), i), JsonOf(rows[i]))
<1>1. n \in Nat
  BY DEF Layable
<1>2. \A parts \in {Texts(rows), Titles(rows), DocIds(rows), Jsons(rows)} :
        parts \in [1 .. n -> Seq(0 .. 3)] /\ Len(FlattenSeq(parts)) < U64
  <2>1. /\ Texts(rows) \in [1 .. n -> Seq(0 .. 3)] /\ Titles(rows) \in [1 .. n -> Seq(0 .. 3)]
        /\ DocIds(rows) \in [1 .. n -> Seq(0 .. 3)] /\ Jsons(rows) \in [1 .. n -> Seq(0 .. 3)]
    BY PartsAre
  <2>2. \A parts \in {Texts(rows), Titles(rows), DocIds(rows), Jsons(rows)} : Len(FlattenSeq(parts)) < U64
    BY DEF Layable, FitsU64
  <2>3. \A parts \in {Texts(rows), Titles(rows), DocIds(rows), Jsons(rows)} : parts \in [1 .. n -> Seq(0 .. 3)]
    BY <2>1, Zenon
  <2>4. QED
    BY <2>2, <2>3, Zenon
<1>3. ASSUME NEW parts \in [1 .. n -> Seq(0 .. 3)], Len(FlattenSeq(parts)) < U64, NEW i \in 1 .. n
      PROVE  LiesAt(FlattenSeq(parts), OffsetIn(parts, i), parts[i])
  <2>1. /\ OffsetIn(parts, i) \in Nat /\ Len(parts[i]) \in Nat
        /\ OffsetIn(parts, i) + Len(parts[i]) <= Len(FlattenSeq(parts))
        /\ Slice(FlattenSeq(parts), OffsetIn(parts, i), Len(parts[i])) = parts[i]
    BY <1>1, BlobHolds
  <2>2. FlattenSeq(parts) \in Seq(0 .. 3) /\ U64 \in Nat
    <3>1. n \in Nat \ {0}
      BY <1>1
    <3>2. QED
      BY <3>1, Concatenation, ImageConstants
  <2>3. Len(FlattenSeq(parts)) \in Nat
    BY <2>2
  <2> DEFINE off == OffsetIn(parts, i)
             len == Len(parts[i])
             size == Len(FlattenSeq(parts))
  <2>4. off \in Nat /\ len \in Nat /\ size \in Nat /\ U64 \in Nat /\ off + len <= size /\ size < U64
    BY <1>3, <2>1, <2>2, <2>3
  <2> HIDE DEF off, len, size
  <2>5. off + len < U64 /\ off + len <= size
    BY <2>4
  <2>6. QED
    BY <2>1, <2>5 DEF LiesAt, RangeInBlob, off, len, size
<1> SUFFICES ASSUME NEW i \in 1 .. n
             PROVE  /\ LiesAt(FlattenSeq(Texts(rows)), OffsetIn(Texts(rows), i), rows[i].text)
                    /\ LiesAt(FlattenSeq(Titles(rows)), OffsetIn(Titles(rows), i), rows[i].title)
                    /\ LiesAt(FlattenSeq(DocIds(rows)), OffsetIn(DocIds(rows), i), rows[i].id)
                    /\ LiesAt(FlattenSeq(Jsons(rows)), OffsetIn(Jsons(rows), i), JsonOf(rows[i]))
  OBVIOUS
<1>4. /\ Texts(rows)[i] = rows[i].text /\ Titles(rows)[i] = rows[i].title
      /\ DocIds(rows)[i] = rows[i].id /\ Jsons(rows)[i] = JsonOf(rows[i])
  BY PartsAre
<1>5. \A parts \in {Texts(rows), Titles(rows), DocIds(rows), Jsons(rows)} :
        LiesAt(FlattenSeq(parts), OffsetIn(parts, i), parts[i])
  BY <1>2, <1>3
<1>6. QED
  BY <1>4, <1>5

-------------------------------------------------------------------------------
(* What was built loads, and its rows read back. *)

\* The offsets of a row, as the builder writes them.
LEMMA MetaIs ==
  ASSUME NEW rows, NEW n, Layable(rows, n)
  PROVE  /\ MetaFile(rows).extra = 0 /\ Len(MetaFile(rows).records) = n
         /\ DOMAIN MetaFile(rows).records = 1 .. n
         /\ \A i \in 1 .. n :
              /\ MetaFile(rows).records[i].text_offset = OffsetIn(Texts(rows), i)
              /\ MetaFile(rows).records[i].text_len = Len(rows[i].text)
              /\ MetaFile(rows).records[i].title_offset = OffsetIn(Titles(rows), i)
              /\ MetaFile(rows).records[i].title_len = Len(rows[i].title)
<1>1. DOMAIN rows = 1 .. n /\ n \in Nat
  BY DEF Layable
<1>2. MetaFile(rows).records = [i \in 1 .. n |->
        [doc |-> DocHash(rows[i].id), text_offset |-> OffsetIn(Texts(rows), i), text_len |-> Len(rows[i].text),
         title_offset |-> OffsetIn(Titles(rows), i), title_len |-> Len(rows[i].title)]]
  BY <1>1 DEF MetaFile, TitleOffset
<1>3. MetaFile(rows).extra = 0
  BY DEF MetaFile
<1>4. QED
  BY <1>1, <1>2, <1>3

\* The offsets of the ids and the metadata, as the builder writes them.
LEMMA MetaExtIs ==
  ASSUME NEW rows, NEW n, Layable(rows, n)
  PROVE  /\ MetaExtFile(rows).extra = 0 /\ Len(MetaExtFile(rows).records) = n
         /\ DOMAIN MetaExtFile(rows).records = 1 .. n
         /\ \A i \in 1 .. n :
              /\ MetaExtFile(rows).records[i].docid_offset = OffsetIn(DocIds(rows), i)
              /\ MetaExtFile(rows).records[i].docid_len = Len(rows[i].id)
              /\ MetaExtFile(rows).records[i].json_offset = OffsetIn(Jsons(rows), i)
              /\ MetaExtFile(rows).records[i].json_len = Len(JsonOf(rows[i]))
<1>1. DOMAIN rows = 1 .. n /\ n \in Nat
  BY DEF Layable
<1>2. MetaExtFile(rows).records = [i \in 1 .. n |->
        [docid_offset |-> OffsetIn(DocIds(rows), i), docid_len |-> Len(rows[i].id),
         json_offset |-> OffsetIn(Jsons(rows), i), json_len |-> Len(JsonOf(rows[i]))]]
  BY <1>1 DEF MetaExtFile
<1>3. MetaExtFile(rows).extra = 0
  BY DEF MetaExtFile
<1>4. QED
  BY <1>1, <1>2, <1>3

\* What a build goes on with: a format, and a codec its assets make up.
Writable(format) ==
  /\ format \in Formats
  /\ format.version = 4 => Generated(format.config) # Refused /\ HoldsCodesOf(format.config)

\* Only format 4 has a codec of its own, and it is the one the images hold.
LEMMA FormatIs ==
  ASSUME NEW format, Writable(format)
  PROVE  /\ format.version \in {2, 3, 4} /\ format.config \in Configs /\ format.config.dim = Dim
         /\ format.version # 4 => format.config = LegacyV1
         /\ format.version = 4 => /\ CheckedConfig(format.config)
                                  /\ format.config.codec = "turbo_quant_prod_v1"
<1>1. format \in [version : {2, 3, 4}, config : Configs]
  BY ImageConstants DEF Writable
<1>2. format.version # 4 => format.config = LegacyV1
  BY ImageConstants DEF Writable
<1>3. format.version \in {2, 3, 4} /\ format.config \in Configs
  BY <1>1
<1>4. CASE format.version = 4
  BY <1>3, <1>4, GeneratedIs DEF Writable
<1>5. CASE format.version # 4
  <2>1. LegacyV1.dim = Dim
    BY DEF LegacyV1
  <2>2. QED
    BY <1>2, <1>3, <1>5, <2>1
<1>6. QED
  BY <1>4, <1>5

\* The codec of a release is that of its format.
LEMMA CodecReadsBack ==
  ASSUME NEW rows, NEW format, Writable(format)
  PROVE  /\ LoadedCodec(FilesOf(rows, format)) =
              [config |-> format.config, data |-> CodecData(format.version, AssetsOf(format))]
         /\ LoadedCodec(FilesOf(rows, format)).config = format.config
         /\ LoadedCodec(FilesOf(rows, format)) # Refused
<1>1. LoadedCodec(FilesOf(rows, format)) =
        [config |-> format.config, data |-> CodecData(format.version, AssetsOf(format))]
  <2>1. CASE format.version = 4
    BY <2>1, FormatIs, ProdCodecReadsBack DEF Writable
  <2>2. CASE format.version # 4
    <3>1. format.version \in {2, 3} /\ format.config = LegacyV1
      BY <2>2, FormatIs
    <3>2. LoadedCodec(FilesOf(rows, format)) =
            [config |-> LegacyV1, data |-> CodecData(format.version, AssetsOf(format))]
      BY <3>1, LegacyCodecReadsBack
    <3>3. QED
      BY <3>1, <3>2
  <2>3. QED
    BY <2>1, <2>2
<1> DEFINE codec == LoadedCodec(FilesOf(rows, format))
<1> HIDE DEF codec
<1>2. codec = [config |-> format.config, data |-> CodecData(format.version, AssetsOf(format))]
  BY <1>1 DEF codec
<1>3. codec.config = format.config /\ codec # Refused
  BY <1>2, NotRefused
<1>4. QED
  BY <1>2, <1>3 DEF codec

\* An image that was built loads.
LEMMA BuiltLoads ==
  ASSUME NEW rows, NEW n, Layable(rows, n), NEW format, Writable(format),
         NEW files, files = FilesOf(rows, format)
  PROVE  Loads(files) /\ files.records.version = format.version /\ files.records.count = n
<1>1. /\ format.version \in {2, 3, 4} /\ format.config.dim = Dim
      /\ format.version = 4 => format.config.codec = "turbo_quant_prod_v1"
  BY FormatIs
<1>2. /\ DOMAIN files = FilesNeeded(format.version)
      /\ files.records = RecordsFile(rows, format)
      /\ files.meta = MetaFile(rows)
      /\ files.text = FlattenSeq(Texts(rows)) /\ files.title = FlattenSeq(Titles(rows))
      /\ format.version # 2 =>
           /\ files.meta_ext = MetaExtFile(rows)
           /\ files.docid = FlattenSeq(DocIds(rows)) /\ files.meta_json = FlattenSeq(Jsons(rows))
  BY <1>1, FilesAre
<1>3. LoadedCodec(files) # Refused
  BY CodecReadsBack
<1>4. n \in Nat /\ Len(rows) = n /\ DOMAIN rows = 1 .. n /\ n * RecordSize + HeaderSize < U64
  BY DEF Layable, FitsU64
<1> DEFINE bin == files.records
<1>5. /\ bin.whole = TRUE /\ bin.version = format.version /\ bin.dim = Dim /\ bin.count = n /\ bin.extra = 0
      /\ format.version = 4 => bin.codec = "turbo_quant_prod_v1"
  <2>1. /\ RecordsFile(rows, format).version = format.version
        /\ RecordsFile(rows, format).dim = format.config.dim
        /\ RecordsFile(rows, format).whole = TRUE
        /\ RecordsFile(rows, format).count = Len(rows)
        /\ RecordsFile(rows, format).extra = 0
        /\ RecordsFile(rows, format).codec = IF format.version = 4 THEN format.config.codec ELSE "none"
    BY HeaderOfRecords
  <2>2. QED
    BY <1>1, <1>2, <1>4, <2>1
<1>6. Len(bin.records) = n
  <2>1. bin.records = [i \in 1 .. n |->
          [doc |-> DocHash(rows[i].id), by |-> CodecData(format.version, AssetsOf(format))]]
    <3>1. bin.records = RecordsFile(rows, format).records
      BY <1>2
    <3>2. RecordsFile(rows, format).records = [i \in DOMAIN rows |->
            [doc |-> DocHash(rows[i].id), by |-> CodecData(format.version, AssetsOf(format))]]
      BY RecordsAre
    <3>3. QED
      BY <1>4, <3>1, <3>2
  <2> HIDE DEF bin
  <2>2. QED
    BY <1>4, <2>1
<1> HIDE DEF bin
<1>7. LayoutKnown(bin)
  BY <1>1, <1>5 DEF LayoutKnown
<1>8. SizeExpected(bin)
  <2>1. HeaderSize = 32 /\ RecordSize = 208 /\ U64 \in Nat
    BY ImageConstants DEF HeaderSize, RecordSize
  <2>2. n * RecordSize + HeaderSize = HeaderSize + RecordSize * n + 0
    BY <1>4, <2>1
  <2>3. QED
    BY <1>4, <1>5, <1>6, <2>2 DEF SizeExpected
<1>9. CountExpected(bin, files.meta)
  <2>1. MetaFile(rows).extra = 0 /\ Len(MetaFile(rows).records) = n
    BY MetaIs
  <2>2. QED
    BY <1>2, <1>5, <2>1 DEF CountExpected
<1>10. \A i \in DOMAIN files.meta.records :
         LET m == files.meta.records[i]
         IN  RangeInBlob(files.text, m.text_offset, m.text_len) /\
             RangeInBlob(files.title, m.title_offset, m.title_len)
  <2>1. DOMAIN files.meta.records = 1 .. n
    BY <1>2, MetaIs
  <2>2. ASSUME NEW i \in 1 .. n
        PROVE  /\ RangeInBlob(files.text, files.meta.records[i].text_offset, files.meta.records[i].text_len)
               /\ RangeInBlob(files.title, files.meta.records[i].title_offset, files.meta.records[i].title_len)
    <3>1. /\ MetaFile(rows).records[i].text_offset = OffsetIn(Texts(rows), i)
          /\ MetaFile(rows).records[i].text_len = Len(rows[i].text)
          /\ MetaFile(rows).records[i].title_offset = OffsetIn(Titles(rows), i)
          /\ MetaFile(rows).records[i].title_len = Len(rows[i].title)
      BY MetaIs
    <3>2. /\ RangeInBlob(FlattenSeq(Texts(rows)), OffsetIn(Texts(rows), i), Len(rows[i].text))
          /\ RangeInBlob(FlattenSeq(Titles(rows)), OffsetIn(Titles(rows), i), Len(rows[i].title))
      BY PartsFound DEF LiesAt
    <3>3. QED
      BY <1>2, <3>1, <3>2
  <2>3. QED
    BY <2>1, <2>2
<1>11. ASSUME format.version # 2
       PROVE  /\ CountExpected(bin, files.meta_ext)
              /\ \A i \in DOMAIN files.meta_ext.records :
                   LET m == files.meta_ext.records[i]
                   IN  RangeInBlob(files.docid, m.docid_offset, m.docid_len) /\
                       RangeInBlob(files.meta_json, m.json_offset, m.json_len)
  <2>0. /\ files.meta_ext = MetaExtFile(rows)
        /\ files.docid = FlattenSeq(DocIds(rows)) /\ files.meta_json = FlattenSeq(Jsons(rows))
    BY <1>2, <1>11
  <2>1. DOMAIN files.meta_ext.records = 1 .. n /\ CountExpected(bin, files.meta_ext)
    BY <1>5, <2>0, MetaExtIs DEF CountExpected
  <2>2. ASSUME NEW i \in 1 .. n
        PROVE  /\ RangeInBlob(files.docid, files.meta_ext.records[i].docid_offset,
                              files.meta_ext.records[i].docid_len)
               /\ RangeInBlob(files.meta_json, files.meta_ext.records[i].json_offset,
                              files.meta_ext.records[i].json_len)
    <3>1. /\ MetaExtFile(rows).records[i].docid_offset = OffsetIn(DocIds(rows), i)
          /\ MetaExtFile(rows).records[i].docid_len = Len(rows[i].id)
          /\ MetaExtFile(rows).records[i].json_offset = OffsetIn(Jsons(rows), i)
          /\ MetaExtFile(rows).records[i].json_len = Len(JsonOf(rows[i]))
      BY MetaExtIs
    <3>2. /\ RangeInBlob(FlattenSeq(DocIds(rows)), OffsetIn(DocIds(rows), i), Len(rows[i].id))
          /\ RangeInBlob(FlattenSeq(Jsons(rows)), OffsetIn(Jsons(rows), i), Len(JsonOf(rows[i])))
      BY PartsFound DEF LiesAt
    <3>3. QED
      BY <2>0, <3>1, <3>2
  <2>3. QED
    BY <2>1, <2>2
<1>12. "records" \in DOMAIN files /\ FilesNeeded(bin.version) \subseteq DOMAIN files
  <2>1. "records" \in FilesNeeded(format.version)
    BY <1>1, Names
  <2>2. QED
    BY <1>2, <1>5, <2>1
<1>13. Loads(files)
  BY <1>3, <1>5, <1>7, <1>8, <1>9, <1>10, <1>11, <1>12 DEF Loads, bin
<1>14. QED
  BY <1>5, <1>13 DEF bin

\* A row of it reads back.
LEMMA BuiltReads ==
  ASSUME NEW rows, NEW n, Layable(rows, n), NEW format, Writable(format),
         NEW files, files = FilesOf(rows, format), NEW i, i \in 1 .. n
  PROVE  Read(files, i) = [text  |-> rows[i].text, title |-> rows[i].title,
                           id    |-> IF format.version # 2 THEN rows[i].id ELSE <<>>,
                           json  |-> IF format.version # 2 THEN JsonOf(rows[i]) ELSE <<>>]
<1>1. format.version \in {2, 3, 4}
  BY FormatIs
<1>2. /\ files.meta = MetaFile(rows)
      /\ files.text = FlattenSeq(Texts(rows)) /\ files.title = FlattenSeq(Titles(rows))
      /\ format.version # 2 =>
           /\ files.meta_ext = MetaExtFile(rows)
           /\ files.docid = FlattenSeq(DocIds(rows)) /\ files.meta_json = FlattenSeq(Jsons(rows))
  BY <1>1, FilesAre
<1>3. files.records.version = format.version
  BY BuiltLoads
<1> DEFINE m == files.meta.records[i]
           e == files.meta_ext.records[i]
<1>4. /\ m.text_offset = OffsetIn(Texts(rows), i) /\ m.text_len = Len(rows[i].text)
      /\ m.title_offset = OffsetIn(Titles(rows), i) /\ m.title_len = Len(rows[i].title)
  BY <1>2, MetaIs
<1>5. format.version # 2 =>
        /\ e.docid_offset = OffsetIn(DocIds(rows), i) /\ e.docid_len = Len(rows[i].id)
        /\ e.json_offset = OffsetIn(Jsons(rows), i) /\ e.json_len = Len(JsonOf(rows[i]))
  BY <1>2, MetaExtIs
<1>6. /\ Slice(FlattenSeq(Texts(rows)), OffsetIn(Texts(rows), i), Len(rows[i].text)) = rows[i].text
      /\ Slice(FlattenSeq(Titles(rows)), OffsetIn(Titles(rows), i), Len(rows[i].title)) = rows[i].title
      /\ Slice(FlattenSeq(DocIds(rows)), OffsetIn(DocIds(rows), i), Len(rows[i].id)) = rows[i].id
      /\ Slice(FlattenSeq(Jsons(rows)), OffsetIn(Jsons(rows), i), Len(JsonOf(rows[i]))) = JsonOf(rows[i])
  BY PartsFound DEF LiesAt
<1>7. Len(rows[i].title) = 0 => rows[i].title = <<>>
  <2>1. rows[i].title \in Seq(0 .. 3)
    BY DEF Layable, IsText
  <2>2. QED
    BY <2>1, EmptySeq
<1>8. /\ Slice(files.text, m.text_offset, m.text_len) = rows[i].text
      /\ (IF m.title_len = 0 THEN <<>> ELSE Slice(files.title, m.title_offset, m.title_len)) = rows[i].title
  BY <1>2, <1>4, <1>6, <1>7
<1>9. format.version # 2 => /\ Slice(files.docid, e.docid_offset, e.docid_len) = rows[i].id
                            /\ Slice(files.meta_json, e.json_offset, e.json_len) = JsonOf(rows[i])
  BY <1>2, <1>5, <1>6
<1>10. Read(files, i) =
         [text  |-> Slice(files.text, m.text_offset, m.text_len),
          title |-> IF m.title_len = 0 THEN <<>> ELSE Slice(files.title, m.title_offset, m.title_len),
          id    |-> IF files.records.version # 2 THEN Slice(files.docid, e.docid_offset, e.docid_len) ELSE <<>>,
          json  |-> IF files.records.version # 2 THEN Slice(files.meta_json, e.json_offset, e.json_len)
                    ELSE <<>>]
  BY Zenon DEF Read
<1> HIDE DEF m, e
<1>11. QED
  BY <1>3, <1>8, <1>9, <1>10

-------------------------------------------------------------------------------
(* What was built verifies. *)

\* An id is derived from what a manifest says besides its id.
LEMMA DerivedFrom ==
  ASSUME NEW m, NEW w, m.version = w.version, m.profile = w.profile, m.codec = w.codec,
         m.digest = w.digest, m.outputs = w.outputs
  PROVE  DerivedId(m) = DerivedId(w)
<1> DEFINE D(version, profile, codec, digest, outputs) ==
             <<version, profile, codec, digest,
               [x \in {outputs[i].name : i \in DOMAIN outputs} |-> SelectSeq(outputs, LAMBDA o : o.name = x)]>>
<1>1. DerivedId(m) = D(m.version, m.profile, m.codec, m.digest, m.outputs)
  BY Zenon DEF DerivedId, OutputNames
<1>2. DerivedId(w) = D(w.version, w.profile, w.codec, w.digest, w.outputs)
  BY Zenon DEF DerivedId, OutputNames
<1> HIDE DEF D
<1>3. QED
  BY <1>1, <1>2, Zenon

\* The manifest of a build, field by field.
LEMMA ManifestIs ==
  ASSUME NEW rows, NEW format, NEW files, NEW m, m = ManifestOf(rows, format, files)
  PROVE  /\ m # Refused /\ m.id = DerivedId(m) /\ m.schema = 1 /\ m.version = format.version
         /\ m.source = [kind |-> "lance", path |-> "dataset", version |-> 1, rows |-> Len(rows)]
         /\ m.profile = [model |-> "model", dim |-> Dim] /\ m.docs = Len(rows) /\ m.digest = rows
         /\ m.codec = ManifestCodec(format)
         /\ m.outputs = [i \in DOMAIN OutputFiles(format.version) |->
                           [name |-> OutputFiles(format.version)[i],
                            digest |-> files[OutputFiles(format.version)[i]]]]
<1> DEFINE names == OutputFiles(format.version)
           w == [id      |-> <<>>,
                 schema  |-> 1,
                 version |-> format.version,
                 source  |-> [kind |-> "lance", path |-> "dataset", version |-> 1, rows |-> Len(rows)],
                 profile |-> [model |-> "model", dim |-> Dim],
                 docs    |-> Len(rows),
                 digest  |-> rows,
                 codec   |-> ManifestCodec(format),
                 outputs |-> [i \in DOMAIN names |-> [name |-> names[i], digest |-> files[names[i]]]]]
<1>1. m = [w EXCEPT !.id = DerivedId(w)]
  BY Zenon DEF ManifestOf
<1> DEFINE o == w.outputs
           d == DerivedId(w)
<1>2. /\ w.version = format.version /\ w.profile = [model |-> "model", dim |-> Dim]
      /\ w.codec = ManifestCodec(format) /\ w.digest = rows
      /\ o = [i \in DOMAIN names |-> [name |-> names[i], digest |-> files[names[i]]]]
  OBVIOUS
<1>3. /\ m.id = d /\ m.schema = 1 /\ m.version = w.version
      /\ m.source = [kind |-> "lance", path |-> "dataset", version |-> 1, rows |-> Len(rows)]
      /\ m.profile = w.profile /\ m.docs = Len(rows) /\ m.digest = w.digest
      /\ m.codec = w.codec /\ m.outputs = o /\ DOMAIN m = DOMAIN w /\ "id" \in DOMAIN w
  <2> HIDE DEF d
  <2>1. m = [w EXCEPT !.id = d]
    BY <1>1 DEF d
  <2>2. QED
    BY <2>1
<1> HIDE DEF w, d
<1>4. DerivedId(m) = d
  BY <1>3, DerivedFrom DEF d
<1>5. m # Refused
  BY <1>3 DEF Refused
<1>6. QED
  BY <1>2, <1>3, <1>4, <1>5

\* The codec section a build writes is one the reader accepts.
LEMMA SectionIsAccepted ==
  ASSUME NEW format, Writable(format), format.version # 2, NEW m, m.version = format.version,
         m.codec = ManifestCodec(format)
  PROVE  SectionAccepted(m) /\ (m.version = 4 => m.codec.config = format.config)
<1>1. /\ format.version \in {3, 4} /\ format.config \in Configs
      /\ format.version # 4 => format.config = LegacyV1
      /\ format.version = 4 => CheckedConfig(format.config)
  BY FormatIs
<1>2. CASE format.version = 3
  <2>1. m.codec = V3Section(LegacyV1)
    BY <1>1, <1>2 DEF ManifestCodec
  <2>2. V3Section(LegacyV1).version = 3
    BY DEF V3Section
  <2>3. QED
    BY <1>2, <2>1, <2>2 DEF SectionAccepted
<1>3. CASE format.version = 4
  <2>1. m.codec = V4Section(format.config)
    BY <1>3 DEF ManifestCodec
  <2>2. V4Section(format.config).version = 4 /\ V4Section(format.config).config = format.config
    BY DEF V4Section
  <2>3. format.config # Refused
    BY <1>1 DEF Configs, Refused
  <2>4. format.config.codec = "turbo_quant_prod_v1" /\ Validated(format.config)
    BY <1>1, <1>3 DEF CheckedConfig
  <2>5. FromV4Section(m.codec) # Refused
    <3>1. m.codec.config = format.config
      BY <2>1, <2>2
    <3>2. QED
      BY <2>3, <2>4, <3>1 DEF FromV4Section
  <2>6. QED
    BY <1>3, <2>1, <2>2, <2>5 DEF SectionAccepted
<1>4. QED
  BY <1>1, <1>2, <1>3

\* The listed outputs are files of the image.
LEMMA OutputsAreFiles ==
  ASSUME NEW version \in {3, 4}
  PROVE  /\ FilesNeeded(version) = {OutputFiles(version)[i] : i \in DOMAIN OutputFiles(version)}
         /\ DOMAIN OutputFiles(version) = 1 .. Len(OutputFiles(version))
         /\ OutputFiles(version) = [i \in DOMAIN OutputFiles(version) |-> OutputFiles(version)[i]]
         /\ Len(OutputFiles(version)) \in Nat
<1> DEFINE N == {"centroids", "projection", "codebook", "qjl", "rotation", "records", "docid", "meta",
                 "meta_ext", "meta_json", "text", "title"}
<1>1. FilesNeeded(version) = {OutputFiles(version)[i] : i \in DOMAIN OutputFiles(version)}
  BY DEF FilesNeeded, ToSet
<1>2. OutputFiles(version) \in Seq(N)
  <2>1. <<"centroids", "projection">> \in Seq(N) /\ <<"codebook", "qjl", "rotation">> \in Seq(N)
    OBVIOUS
  <2>2. DataFiles \in Seq(N)
    BY DEF DataFiles
  <2>3. QED
    BY <2>1, <2>2, ConcatProperties DEF OutputFiles
<1>3. QED
  BY <1>1, <1>2, LenProperties

\* A release that was built verifies.
LEMMA BuiltVerifies ==
  ASSUME NEW rows, NEW n, Layable(rows, n), rows # <<>>, NEW format, Writable(format), format.version # 2,
         NEW dir, dir.files = FilesOf(rows, format), dir.manifest = ManifestOf(rows, format, dir.files)
  PROVE  Verifies(dir)
<1> DEFINE m == dir.manifest
           files == dir.files
           v == format.version
<1>1. /\ m # Refused /\ m.id = DerivedId(m) /\ m.schema = 1 /\ m.version = v
      /\ m.source = [kind |-> "lance", path |-> "dataset", version |-> 1, rows |-> Len(rows)]
      /\ m.profile = [model |-> "model", dim |-> Dim] /\ m.docs = Len(rows)
      /\ m.codec = ManifestCodec(format)
      /\ m.outputs = [i \in DOMAIN OutputFiles(v) |-> [name |-> OutputFiles(v)[i],
                                                       digest |-> files[OutputFiles(v)[i]]]]
  BY ManifestIs
<1>2. SectionAccepted(m) /\ (m.version = 4 => m.codec.config = format.config)
  BY <1>1, SectionIsAccepted
<1>3. Loads(files) /\ files.records.version = v /\ files.records.count = n
  BY BuiltLoads
<1>4. LoadedCodec(files).config = format.config
  BY CodecReadsBack
<1>5. v \in {3, 4} /\ DOMAIN files = FilesNeeded(v)
  BY FormatIs, FilesAre
<1>6. n \in Nat /\ Len(rows) = n /\ \A i \in 1 .. n : IsText(rows[i].id) /\ IsText(rows[i].text) /\ IsText(rows[i].title)
  BY DEF Layable
<1>7. \A i \in 1 .. n : LET hit == Read(files, i)
                        IN  IsUtf8(hit.text) /\ IsUtf8(hit.title) /\ IsUtf8(hit.id) /\ IsUtf8(hit.json)
  <2> SUFFICES ASSUME NEW i \in 1 .. n
               PROVE  /\ IsUtf8(Read(files, i).text) /\ IsUtf8(Read(files, i).title)
                      /\ IsUtf8(Read(files, i).id) /\ IsUtf8(Read(files, i).json)
    BY Zenon
  <2>1. Read(files, i) = [text  |-> rows[i].text, title |-> rows[i].title,
                          id    |-> IF v # 2 THEN rows[i].id ELSE <<>>,
                          json  |-> IF v # 2 THEN JsonOf(rows[i]) ELSE <<>>]
    BY BuiltReads
  <2>2. IsText(JsonOf(rows[i]))
    BY <1>6, JsonIsText
  <2>3. /\ Read(files, i).text = rows[i].text /\ Read(files, i).title = rows[i].title
        /\ Read(files, i).id = rows[i].id /\ Read(files, i).json = JsonOf(rows[i])
    BY <2>1
  <2>4. QED
    BY <1>6, <2>2, <2>3 DEF IsText
<1> HIDE DEF m, files, v
<1> DEFINE names == OutputFiles(v)
<1>8. /\ DOMAIN names = 1 .. Len(names) /\ Len(names) \in Nat
      /\ FilesNeeded(v) = {names[i] : i \in DOMAIN names}
  BY <1>5, OutputsAreFiles
<1>9. names = [i \in DOMAIN names |-> names[i]]
  BY <1>5, OutputsAreFiles
<1> HIDE DEF names
<1>10. /\ DOMAIN m.outputs = DOMAIN names
       /\ \A i \in DOMAIN names : m.outputs[i].name = names[i] /\ m.outputs[i].digest = files[names[i]]
  BY <1>1 DEF names
<1>11. OutputsPinned(m)
  <2>1. [i \in DOMAIN m.outputs |-> m.outputs[i].name] = [i \in DOMAIN names |-> names[i]]
    BY <1>10
  <2>2. QED
    BY <1>1, <1>9, <2>1 DEF OutputsPinned, names
<1>12. \A i \in DOMAIN m.outputs : /\ m.outputs[i].name \in DOMAIN files
                                   /\ files[m.outputs[i].name] = m.outputs[i].digest
  BY <1>5, <1>8, <1>10
<1>13. /\ m.source.kind = "lance" /\ m.source.path # "" /\ m.source.version > 0 /\ m.source.rows = n
       /\ m.docs = n /\ m.profile.dim = Dim /\ m.profile.model # ""
  BY <1>1, <1>6
<1>14. QED
  BY <1>1, <1>2, <1>3, <1>4, <1>7, <1>11, <1>12, <1>13 DEF Verifies, m, files

-------------------------------------------------------------------------------
(* What an image still is after damage: the inductive invariant.

   A file that is not the build's is a records file of one accepted format, or the rows of a
   text file; a manifest that is not the build's lists no output the build has not. *)

\* What the altered files of an image still are.
RecordsMeant(bin) ==
  /\ DOMAIN bin = {"whole", "version", "dim", "count", "codec", "fingerprint", "records", "extra"}
  /\ bin.count \in Nat /\ bin.extra \in {0, RecordSize - 1}
  /\ \E format \in Formats :
       LET assets == AssetsOf(format)
       IN  /\ format.version # 4 => bin.codec = "none"
           /\ format.version = 4 => bin.fingerprint = Fingerprint(format.config, assets)
           /\ \E S : bin.records \in Seq(S) /\ \A r \in S : r.by = CodecData(format.version, assets)

RowsMeant(file) == DOMAIN file = {"records", "extra"} /\ \E S : file.records \in Seq(S)

FileMeant(name, file) ==
  /\ name = "records" => RecordsMeant(file)
  /\ name \in {"meta", "meta_ext"} => RowsMeant(file)

FilesMeant(files, format) ==
  /\ DOMAIN files \subseteq FilesNeeded(format.version) /\ files = [n \in DOMAIN files |-> files[n]]
  /\ \A name \in DOMAIN files : FileMeant(name, files[name])

\* What a rewritten manifest still lists.
ManifestMeant(m, rows, format) ==
  \/ m = Refused
  \/ /\ format.version # 2
     /\ DOMAIN m = {"id", "schema", "version", "source", "profile", "docs", "digest", "codec", "outputs"}
     /\ \E f \in Formats : f.version # 2 /\ m.codec = ManifestCodec(f)
     /\ m.outputs \in Seq({[name |-> n, digest |-> FilesOf(rows, format)[n]] :
                              n \in FilesNeeded(format.version)})

\* An image is of a scan and a format that make a build; what is not altered is all of it.
OfABuild(dir) ==
  /\ dir = [files |-> dir.files, manifest |-> dir.manifest, rows |-> dir.rows, format |-> dir.format,
            damage |-> dir.damage]
  /\ \E scan \in Scans : dir.rows = LanceSnapshot(scan)
  /\ dir.format \in Formats /\ BuildAccepted(dir.rows, dir.format)
  /\ dir.damage \in Nat
  /\ dir.damage = 0 => dir = Built(dir.rows, dir.format)
  /\ FilesMeant(dir.files, dir.format)
  /\ ManifestMeant(dir.manifest, dir.rows, dir.format)

ImageInv == image = NoImage \/ OfABuild(image)

\* A file takes the place of another.
LEMMA Replaced ==
  ASSUME NEW files, NEW format, FilesMeant(files, format), NEW name, name \in DOMAIN files,
         NEW file, FileMeant(name, file)
  PROVE  FilesMeant([files EXCEPT ![name] = file], format)
BY DEF FilesMeant

\* What a build writes is meant.
LEMMA BuiltIsMeant ==
  ASSUME NEW rows, NEW n, Layable(rows, n), NEW format, Writable(format),
         NEW files, files = FilesOf(rows, format)
  PROVE  FilesMeant(files, format)
<1>1. format.version \in {2, 3, 4} /\ format \in Formats
  BY FormatIs DEF Writable
<1>2. /\ DOMAIN files = FilesNeeded(format.version)
      /\ files.records = RecordsFile(rows, format)
      /\ files.meta = MetaFile(rows)
      /\ format.version # 2 => files.meta_ext = MetaExtFile(rows)
  BY <1>1, FilesAre
<1>3. files = [name \in DOMAIN files |-> files[name]]
  BY DEF FilesOf
<1>4. DOMAIN rows = 1 .. n /\ n \in Nat /\ Len(rows) = n
  BY DEF Layable
<1>5. RowsMeant(MetaFile(rows)) /\ RowsMeant(MetaExtFile(rows))
  <2>1. DOMAIN MetaFile(rows) = {"records", "extra"} /\ DOMAIN MetaExtFile(rows) = {"records", "extra"}
    BY DEF MetaFile, MetaExtFile
  <2> DEFINE r == MetaFile(rows).records
             e == MetaExtFile(rows).records
  <2>2. r \in [1 .. n -> ToSet(r)] /\ e \in [1 .. n -> ToSet(e)]
    <3>1. r = [i \in 1 .. n |-> r[i]] /\ e = [i \in 1 .. n |-> e[i]]
      BY <1>4 DEF MetaFile, MetaExtFile
    <3> HIDE DEF r, e
    <3>2. QED
      BY <3>1 DEF ToSet
  <2> HIDE DEF r, e
  <2>3. r \in Seq(ToSet(r)) /\ e \in Seq(ToSet(e))
    BY <1>4, <2>2
  <2>4. QED
    BY <2>1, <2>3 DEF RowsMeant, r, e
<1>6. RecordsMeant(RecordsFile(rows, format))
  <2> DEFINE bin == RecordsFile(rows, format)
             S == ToSet(bin.records)
  <2>1. DOMAIN bin = {"whole", "version", "dim", "count", "codec", "fingerprint", "records", "extra"}
    BY Zenon DEF RecordsFile
  <2>2. /\ bin.count = Len(rows) /\ bin.extra = 0
        /\ bin.codec = IF format.version = 4 THEN format.config.codec ELSE "none"
        /\ bin.fingerprint = IF format.version = 4 THEN Fingerprint(format.config, AssetsOf(format)) ELSE <<>>
    BY HeaderOfRecords
  <2>3. bin.records = [i \in DOMAIN rows |-> [doc |-> DocHash(rows[i].id),
                                             by |-> CodecData(format.version, AssetsOf(format))]]
    BY RecordsAre
  <2>4. bin.records \in Seq(S) /\ \A r \in S : r.by = CodecData(format.version, AssetsOf(format))
    <3> DEFINE recs == bin.records
    <3>1. recs = [i \in 1 .. n |-> [doc |-> DocHash(rows[i].id),
                                    by |-> CodecData(format.version, AssetsOf(format))]]
      BY <1>4, <2>3
    <3> HIDE DEF recs, bin
    <3>2. recs \in [1 .. n -> ToSet(recs)]
      BY <3>1 DEF ToSet
    <3>3. \A r \in ToSet(recs) : r.by = CodecData(format.version, AssetsOf(format))
      BY <3>1 DEF ToSet
    <3>4. QED
      BY <1>4, <3>2, <3>3 DEF recs
  <2> HIDE DEF bin, S
  <2>5. QED
    <3>1. bin.count \in Nat /\ bin.extra \in {0, RecordSize - 1}
      BY <1>4, <2>2
    <3>2. /\ format.version # 4 => bin.codec = "none"
          /\ format.version = 4 => bin.fingerprint = Fingerprint(format.config, AssetsOf(format))
      BY <2>2
    <3>3. RecordsMeant(bin)
      BY <1>1, <2>1, <2>4, <3>1, <3>2 DEF RecordsMeant
    <3>4. QED
      BY <3>3 DEF bin
<1>7. "meta_ext" \in DOMAIN files => format.version # 2
  BY <1>1, <1>2, Names
<1>8. \A name \in DOMAIN files : FileMeant(name, files[name])
  BY <1>2, <1>5, <1>6, <1>7 DEF FileMeant
<1>9. QED
  BY <1>2, <1>3, <1>8 DEF FilesMeant

\* A build goes on with rows that can be laid out and a format that can be written.
LEMMA BuildIs ==
  ASSUME NEW scan \in Scans, NEW format \in Formats, BuildAccepted(LanceSnapshot(scan), format)
  PROVE  /\ LanceSnapshot(scan) # <<>> /\ Writable(format)
         /\ Layable(LanceSnapshot(scan), Len(LanceSnapshot(scan)))
<1>1. LanceSnapshot(scan) # <<>> /\ Writable(format)
  BY DEF BuildAccepted, Writable
<1>2. QED
  BY <1>1, ScansAreLayable

\* The manifest a build writes is meant.
LEMMA ManifestIsMeant ==
  ASSUME NEW rows, NEW format, format \in Formats, format.version \in {3, 4},
         NEW files, files = FilesOf(rows, format), NEW m, m = ManifestOf(rows, format, files)
  PROVE  ManifestMeant(m, rows, format)
<1> DEFINE names == OutputFiles(format.version)
           T == {[name |-> n, digest |-> FilesOf(rows, format)[n]] : n \in FilesNeeded(format.version)}
<1>1. /\ m.codec = ManifestCodec(format)
      /\ m.outputs = [i \in DOMAIN names |-> [name |-> names[i], digest |-> files[names[i]]]]
  <2>1. /\ m # Refused /\ m.id = DerivedId(m) /\ m.schema = 1 /\ m.version = format.version
        /\ m.source = [kind |-> "lance", path |-> "dataset", version |-> 1, rows |-> Len(rows)]
        /\ m.profile = [model |-> "model", dim |-> Dim] /\ m.docs = Len(rows) /\ m.digest = rows
        /\ m.codec = ManifestCodec(format)
        /\ m.outputs = [i \in DOMAIN OutputFiles(format.version) |->
                          [name |-> OutputFiles(format.version)[i],
                           digest |-> files[OutputFiles(format.version)[i]]]]
    BY ManifestIs
  <2>2. QED
    BY <2>1
<1>2. DOMAIN m = {"id", "schema", "version", "source", "profile", "docs", "digest", "codec", "outputs"}
  BY DEF ManifestOf
<1>3. /\ FilesNeeded(format.version) = {names[i] : i \in DOMAIN names}
      /\ DOMAIN names = 1 .. Len(names) /\ Len(names) \in Nat
  BY OutputsAreFiles
<1> HIDE DEF names
<1>4. m.outputs \in [1 .. Len(names) -> T]
  BY <1>1, <1>3
<1> HIDE DEF T
<1>5. m.outputs \in Seq(T)
  BY <1>3, <1>4
<1>6. QED
  BY <1>1, <1>2, <1>5 DEF ManifestMeant, T

-------------------------------------------------------------------------------
(* Every build and every damage keeps it. *)

\* There is no image at first.
LEMMA ImageInvInit == ImageInit => ImageInv
BY DEF ImageInit, ImageInv

\* A build makes an image of its own scan and format.
LEMMA BuildKeeps == ASSUME Build PROVE ImageInv'
<1>1. PICK scan \in Scans, format \in Formats :
        BuildAccepted(LanceSnapshot(scan), format) /\ image' = Built(LanceSnapshot(scan), format)
  BY DEF Build
<1> DEFINE rows == LanceSnapshot(scan)
           n == Len(rows)
           files == FilesOf(rows, format)
           manifest == IF format.version = 2 THEN Refused ELSE ManifestOf(rows, format, files)
<1>2. rows # <<>> /\ Writable(format) /\ Layable(rows, n)
  BY <1>1, BuildIs
<1>3. format.version \in {2, 3, 4}
  BY <1>2, FormatIs
<1>4. image' = [files |-> files, rows |-> rows, format |-> format, damage |-> 0, manifest |-> manifest]
  BY <1>1 DEF Built
<1>5. FilesMeant(files, format)
  BY <1>2, BuiltIsMeant
<1>6. ManifestMeant(manifest, rows, format)
  <2>1. CASE format.version = 2
    BY <2>1 DEF ManifestMeant
  <2>2. CASE format.version # 2
    <3>1. manifest = ManifestOf(rows, format, files)
      BY <2>2
    <3>2. format.version \in {3, 4} /\ files = FilesOf(rows, format)
      BY <1>3, <2>2
    <3> HIDE DEF manifest, files, rows
    <3>3. QED
      BY <3>1, <3>2, ManifestIsMeant
  <2>3. QED
    BY <2>1, <2>2
<1>7. BuildAccepted(rows, format) /\ image' = Built(rows, format)
  BY <1>1
<1> HIDE DEF rows, files, manifest
<1>8. /\ image'.files = files /\ image'.rows = rows /\ image'.format = format /\ image'.damage = 0
      /\ image'.manifest = manifest
  BY <1>4
<1>9. image' = [files |-> image'.files, manifest |-> image'.manifest, rows |-> image'.rows,
                format |-> image'.format, damage |-> image'.damage]
  BY <1>4
<1>10. \E s \in Scans : rows = LanceSnapshot(s)
  BY DEF rows
<1>11. OfABuild(image')
  BY <1>5, <1>6, <1>7, <1>8, <1>9, <1>10 DEF OfABuild
<1>12. QED
  BY <1>11 DEF ImageInv

\* What may become of a build's files and manifest.
LEMMA AlterKeeps ==
  ASSUME ImageInv, NEW files, NEW manifest, Alter(files, manifest), FilesMeant(files, image.format),
         ManifestMeant(manifest, image.rows, image.format)
  PROVE  ImageInv'
<1>1. OfABuild(image)
  BY DEF ImageInv, Alter
<1>2. /\ image = [files |-> image.files, manifest |-> image.manifest, rows |-> image.rows,
                  format |-> image.format, damage |-> image.damage]
      /\ \E scan \in Scans : image.rows = LanceSnapshot(scan)
      /\ image.format \in Formats /\ BuildAccepted(image.rows, image.format)
      /\ image.damage \in Nat
  BY <1>1 DEF OfABuild
<1>3. image' = [files |-> files, manifest |-> manifest, rows |-> image.rows, format |-> image.format,
                damage |-> image.damage + 1]
  <2>1. image' = [image EXCEPT !.files = files, !.manifest = manifest, !.damage = @ + 1]
    BY DEF Alter
  <2>2. QED
    BY <1>2, <2>1
<1>4. /\ image'.files = files /\ image'.manifest = manifest /\ image'.rows = image.rows
      /\ image'.format = image.format /\ image'.damage = image.damage + 1
  BY <1>3
<1>5. image'.damage \in Nat /\ image'.damage # 0
  BY <1>2, <1>4
<1>6. image' = [files |-> image'.files, manifest |-> image'.manifest, rows |-> image'.rows,
                format |-> image'.format, damage |-> image'.damage]
  BY <1>3
<1>7. OfABuild(image')
  BY <1>2, <1>4, <1>5, <1>6 DEF OfABuild
<1>8. QED
  BY <1>7 DEF ImageInv

\* A lost file, a file of another build, a file cut short or with bytes too many.
LEMMA LoseKeeps == ASSUME ImageInv, image # NoImage, Lose PROVE ImageInv'
<1>1. PICK name \in DOMAIN image.files : Alter(Without(image.files, name), image.manifest)
  BY DEF Lose
<1>2. FilesMeant(image.files, image.format) /\ ManifestMeant(image.manifest, image.rows, image.format)
  BY DEF ImageInv, OfABuild
<1>3. FilesMeant(Without(image.files, name), image.format)
  BY <1>2 DEF FilesMeant, Without
<1>4. QED
  BY <1>1, <1>2, <1>3, AlterKeeps

LEMMA MixKeeps == ASSUME ImageInv, image # NoImage, Mix PROVE ImageInv'
<1>1. PICK scan \in Scans, format \in Formats :
        /\ BuildAccepted(LanceSnapshot(scan), format)
        /\ \E name \in DOMAIN image.files \cap DOMAIN FilesOf(LanceSnapshot(scan), format) :
             Alter([image.files EXCEPT ![name] = FilesOf(LanceSnapshot(scan), format)[name]], image.manifest)
  BY DEF Mix
<1> DEFINE other == FilesOf(LanceSnapshot(scan), format)
<1>2. PICK name \in DOMAIN image.files \cap DOMAIN other :
        Alter([image.files EXCEPT ![name] = other[name]], image.manifest)
  BY <1>1
<1>3. FilesMeant(image.files, image.format) /\ ManifestMeant(image.manifest, image.rows, image.format)
  BY DEF ImageInv, OfABuild
<1>4. FilesMeant(other, format)
  BY <1>1, BuildIs, BuiltIsMeant
<1> HIDE DEF other
<1>5. FileMeant(name, other[name])
  BY <1>4 DEF FilesMeant
<1>6. FilesMeant([image.files EXCEPT ![name] = other[name]], image.format)
  BY <1>3, <1>5, Replaced
<1>7. QED
  BY <1>2, <1>3, <1>6, AlterKeeps

\* The start of a sequence is one of the same elements.
LEMMA FrontIs ==
  ASSUME NEW S, NEW s \in Seq(S), s # <<>>
  PROVE  Front(s) \in Seq(S)
<1>1. Len(s) \in Nat /\ \A i \in 1 .. Len(s) - 1 : s[i] \in S
  OBVIOUS
<1>2. 1 \in Int /\ Len(s) - 1 \in Int
  BY <1>1
<1>3. SubSeq(s, 1, Len(s) - 1) \in Seq(S)
  BY <1>1, <1>2, SubSeqProperties
<1>4. QED
  BY <1>3 DEF Front

LEMMA CutKeeps == ASSUME ImageInv, image # NoImage, Cut PROVE ImageInv'
<1> DEFINE files == image.files
<1>1. PICK name \in DOMAIN files :
        /\ name \in {"meta", "meta_ext", "records"} => files[name].records # <<>>
        /\ Alter([files EXCEPT ![name] = CutFile(name, @)], image.manifest)
  BY DEF Cut
<1>2. FilesMeant(files, image.format) /\ ManifestMeant(image.manifest, image.rows, image.format)
  BY DEF ImageInv, OfABuild
<1> DEFINE old == files[name]
           file == CutFile(name, old)
<1>3. FileMeant(name, old)
  BY <1>2 DEF FilesMeant
<1>4. Alter([files EXCEPT ![name] = file], image.manifest)
  BY <1>1
<1> HIDE DEF files, old
<1>5. FileMeant(name, file)
  <2>1. CASE name = "records"
    <3>1. RecordsMeant(old) /\ old.records # <<>>
      BY <1>1, <1>3, <2>1 DEF FileMeant, old
    <3>2. file = [old EXCEPT !.records = Front(@), !.extra = RecordSize - 1]
      BY <2>1 DEF CutFile
    <3>3. DOMAIN old = {"whole", "version", "dim", "count", "codec", "fingerprint", "records", "extra"}
      BY <3>1 DEF RecordsMeant
    <3>4. /\ DOMAIN file = DOMAIN old /\ file.records = Front(old.records) /\ file.extra = RecordSize - 1
          /\ file.count = old.count /\ file.codec = old.codec /\ file.fingerprint = old.fingerprint
      BY <3>2, <3>3
    <3> HIDE DEF file
    <3>5. PICK format \in Formats :
            /\ format.version # 4 => old.codec = "none"
            /\ format.version = 4 => old.fingerprint = Fingerprint(format.config, AssetsOf(format))
            /\ \E S : /\ old.records \in Seq(S)
                      /\ \A r \in S : r.by = CodecData(format.version, AssetsOf(format))
      BY <3>1 DEF RecordsMeant
    <3>6. PICK S : /\ old.records \in Seq(S)
                   /\ \A r \in S : r.by = CodecData(format.version, AssetsOf(format))
      BY <3>5
    <3>7. file.records \in Seq(S)
      BY <3>1, <3>4, <3>6, FrontIs
    <3>8. file.count \in Nat /\ file.extra \in {0, RecordSize - 1}
      BY <3>1, <3>4 DEF RecordsMeant
    <3>9. RecordsMeant(file)
      BY <3>3, <3>4, <3>5, <3>6, <3>7, <3>8 DEF RecordsMeant
    <3>10. QED
      BY <2>1, <3>9 DEF FileMeant
  <2>2. CASE name \in {"meta", "meta_ext"}
    <3>1. RowsMeant(old) /\ old.records # <<>>
      BY <1>1, <1>3, <2>2 DEF FileMeant, old
    <3>2. file = [records |-> Front(old.records), extra |-> 23]
      BY <2>2 DEF CutFile
    <3>3. PICK S : old.records \in Seq(S)
      BY <3>1 DEF RowsMeant
    <3>4. Front(old.records) \in Seq(S)
      BY <3>1, <3>3, FrontIs
    <3>5. RowsMeant(file)
      BY <3>2, <3>4 DEF RowsMeant
    <3>6. QED
      BY <2>2, <3>5 DEF FileMeant
  <2>3. CASE name \notin {"records", "meta", "meta_ext"}
    BY <2>3 DEF FileMeant
  <2>4. QED
    BY <2>1, <2>2, <2>3
<1> HIDE DEF file
<1>6. FilesMeant([files EXCEPT ![name] = file], image.format)
  BY <1>2, <1>5, Replaced
<1>7. QED
  BY <1>2, <1>4, <1>6, AlterKeeps

LEMMA SpoilKeeps == ASSUME ImageInv, image # NoImage, Spoil PROVE ImageInv'
<1> DEFINE files == image.files
<1>1. PICK name \in DOMAIN files \cap {"rotation", "codebook", "qjl"}, to \in {"other", "unsorted"} :
        Alter([files EXCEPT ![name].data = <<to, files[name].data>>], image.manifest)
  BY DEF Spoil
<1>2. FilesMeant(files, image.format) /\ ManifestMeant(image.manifest, image.rows, image.format)
  BY DEF ImageInv, OfABuild
<1> DEFINE file == [files[name] EXCEPT !.data = <<to, files[name].data>>]
<1>3. Alter([files EXCEPT ![name] = file], image.manifest)
  BY <1>1
<1>4. FileMeant(name, file)
  BY DEF FileMeant
<1> HIDE DEF file, files
<1>5. FilesMeant([files EXCEPT ![name] = file], image.format)
  BY <1>2, <1>4, Replaced
<1>6. QED
  BY <1>2, <1>3, <1>5, AlterKeeps

\* A header that says other things.
LEMMA AlterHeaderKeeps ==
  ASSUME ImageInv, image # NoImage, "records" \in DOMAIN image.files, AlterHeader PROVE ImageInv'
<1> DEFINE files == image.files
           old == files.records
<1>1. FilesMeant(files, image.format) /\ ManifestMeant(image.manifest, image.rows, image.format)
  BY DEF ImageInv, OfABuild
<1>2. RecordsMeant(old)
  BY <1>1 DEF FilesMeant, FileMeant
<1>3. /\ DOMAIN old = {"whole", "version", "dim", "count", "codec", "fingerprint", "records", "extra"}
      /\ old.count \in Nat
  BY <1>2 DEF RecordsMeant
<1>4. ASSUME NEW file, DOMAIN file = DOMAIN old, file.count \in Nat, file.codec = old.codec,
             file.fingerprint = old.fingerprint, file.records = old.records, file.extra = old.extra,
             Alter([files EXCEPT !["records"] = file], image.manifest)
      PROVE  ImageInv'
  <2>1. RecordsMeant(file)
    BY <1>2, <1>4 DEF RecordsMeant
  <2>2. FileMeant("records", file)
    BY <2>1 DEF FileMeant
  <2>3. "records" \in DOMAIN files
    OBVIOUS
  <2> HIDE DEF files
  <2>4. FilesMeant([files EXCEPT !["records"] = file], image.format)
    BY <1>1, <2>2, <2>3, Replaced
  <2>5. QED
    BY <1>1, <1>4, <2>4, AlterKeeps
<1>5. CASE \E k \in {old.count + 1, old.count + U64 \div 16} :
             Alter([image.files EXCEPT !.records.count = k], image.manifest)
  <2>1. PICK k \in {old.count + 1, old.count + U64 \div 16} :
          Alter([image.files EXCEPT !.records.count = k], image.manifest)
    BY <1>5
  <2>2. k \in Nat
    BY <1>3, ImageConstants
  <2> DEFINE file == [old EXCEPT !.count = k]
  <2>3. /\ DOMAIN file = DOMAIN old /\ file.count \in Nat /\ file.codec = old.codec
        /\ file.fingerprint = old.fingerprint /\ file.records = old.records /\ file.extra = old.extra
    BY <1>3, <2>2
  <2>4. Alter([files EXCEPT !["records"] = file], image.manifest)
    BY <2>1
  <2> HIDE DEF file, old
  <2>5. QED
    BY <1>4, <2>3, <2>4
<1>6. CASE \E v \in {1, 2, 3, 4} : Alter([image.files EXCEPT !.records.version = v], image.manifest)
  <2>1. PICK v \in {1, 2, 3, 4} : Alter([image.files EXCEPT !.records.version = v], image.manifest)
    BY <1>6
  <2> DEFINE file == [old EXCEPT !.version = v]
  <2>3. /\ DOMAIN file = DOMAIN old /\ file.count \in Nat /\ file.codec = old.codec
        /\ file.fingerprint = old.fingerprint /\ file.records = old.records /\ file.extra = old.extra
    BY <1>3
  <2>4. Alter([files EXCEPT !["records"] = file], image.manifest)
    BY <2>1
  <2> HIDE DEF file, old
  <2>5. QED
    BY <1>4, <2>3, <2>4
<1>7. CASE Alter([image.files EXCEPT !.records.whole = FALSE], image.manifest)
  <2> DEFINE file == [old EXCEPT !.whole = FALSE]
  <2>3. /\ DOMAIN file = DOMAIN old /\ file.count \in Nat /\ file.codec = old.codec
        /\ file.fingerprint = old.fingerprint /\ file.records = old.records /\ file.extra = old.extra
    BY <1>3
  <2>4. Alter([files EXCEPT !["records"] = file], image.manifest)
    BY <1>7
  <2> HIDE DEF file, old
  <2>5. QED
    BY <1>4, <2>3, <2>4
<1>8. QED
  BY <1>5, <1>6, <1>7 DEF AlterHeader

\* Offsets and lengths that lie elsewhere.
LEMMA AlterMetaKeeps ==
  ASSUME ImageInv, image # NoImage, "meta" \in DOMAIN image.files, AlterMeta PROVE ImageInv'
<1> DEFINE files == image.files
<1>1. FilesMeant(files, image.format) /\ ManifestMeant(image.manifest, image.rows, image.format)
  BY DEF ImageInv, OfABuild
<1>2. ASSUME NEW name \in {"meta", "meta_ext"}, name \in DOMAIN files,
             NEW i \in DOMAIN files[name].records, NEW row,
             Alter([files EXCEPT ![name] = [files[name] EXCEPT !["records"] =
                     [files[name].records EXCEPT ![i] = row]]], image.manifest)
      PROVE  ImageInv'
  <2> DEFINE old == files[name]
             recs == [old.records EXCEPT ![i] = row]
             file == [old EXCEPT !["records"] = recs]
  <2>1. RowsMeant(old)
    BY <1>1, <1>2 DEF FilesMeant, FileMeant
  <2>2. PICK S : old.records \in Seq(S) /\ DOMAIN old = {"records", "extra"}
    BY <2>1 DEF RowsMeant
  <2>3. recs \in Seq(S \cup {row})
    <3> DEFINE r == old.records
    <3>1. r \in Seq(S) /\ i \in DOMAIN r
      BY <2>2
    <3> HIDE DEF r
    <3>2. Len(r) \in Nat /\ r \in [1 .. Len(r) -> S] /\ i \in 1 .. Len(r)
      BY <3>1, LenProperties
    <3>3. [r EXCEPT ![i] = row] \in [1 .. Len(r) -> S \cup {row}]
      BY <3>2
    <3>4. [r EXCEPT ![i] = row] \in Seq(S \cup {row})
      BY <3>2, <3>3
    <3>5. QED
      BY <3>4 DEF r
  <2>4. RowsMeant(file)
    <3> HIDE DEF old, recs
    <3>1. DOMAIN file = {"records", "extra"} /\ file.records = recs
      BY <2>2
    <3>2. QED
      BY <2>3, <3>1 DEF RowsMeant
  <2>5. FileMeant(name, file)
    BY <2>4 DEF FileMeant
  <2>6. Alter([files EXCEPT ![name] = file], image.manifest)
    BY <1>2
  <2> HIDE DEF file, files
  <2>7. FilesMeant([files EXCEPT ![name] = file], image.format)
    BY <1>1, <1>2, <2>5, Replaced
  <2>8. QED
    BY <1>1, <2>6, <2>7, AlterKeeps
<1>3. PICK v \in {1, U64 - 1} :
        \/ \E i \in DOMAIN files.meta.records, f \in {"text_offset", "text_len", "title_offset"} :
             Alter([files EXCEPT !.meta.records[i][f] = v], image.manifest)
        \/ /\ "meta_ext" \in DOMAIN files
           /\ \E i \in DOMAIN files.meta_ext.records, f \in {"docid_offset", "json_offset"} :
                Alter([files EXCEPT !.meta_ext.records[i][f] = v], image.manifest)
  BY DEF AlterMeta
<1>4. CASE \E i \in DOMAIN files.meta.records, f \in {"text_offset", "text_len", "title_offset"} :
             Alter([files EXCEPT !.meta.records[i][f] = v], image.manifest)
  <2>1. PICK i \in DOMAIN files.meta.records, f \in {"text_offset", "text_len", "title_offset"} :
          Alter([files EXCEPT !.meta.records[i][f] = v], image.manifest)
    BY <1>4
  <2> DEFINE row == [files.meta.records[i] EXCEPT ![f] = v]
  <2>2. Alter([files EXCEPT !["meta"] = [files["meta"] EXCEPT !["records"] =
                 [files["meta"].records EXCEPT ![i] = row]]], image.manifest)
    BY <2>1
  <2> HIDE DEF row
  <2>3. QED
    BY <1>2, <2>2
<1>5. CASE /\ "meta_ext" \in DOMAIN files
           /\ \E i \in DOMAIN files.meta_ext.records, f \in {"docid_offset", "json_offset"} :
                Alter([files EXCEPT !.meta_ext.records[i][f] = v], image.manifest)
  <2>1. PICK i \in DOMAIN files.meta_ext.records, f \in {"docid_offset", "json_offset"} :
          Alter([files EXCEPT !.meta_ext.records[i][f] = v], image.manifest)
    BY <1>5
  <2> DEFINE row == [files.meta_ext.records[i] EXCEPT ![f] = v]
  <2>2. Alter([files EXCEPT !["meta_ext"] = [files["meta_ext"] EXCEPT !["records"] =
                 [files["meta_ext"].records EXCEPT ![i] = row]]], image.manifest)
    BY <2>1
  <2> HIDE DEF row
  <2>3. QED
    BY <1>2, <1>5, <2>2
<1>6. QED
  BY <1>3, <1>4, <1>5

\* Outputs that are fewer, or in another order, are outputs of the image.
LEMMA FewerOutputs ==
  ASSUME NEW S, NEW s \in Seq(S)
  PROVE  Reverse(s) \in Seq(S) /\ \A k \in DOMAIN s : RemoveAt(s, k) \in Seq(S)
<1>1. Len(s) \in Nat /\ \A i \in 1 .. Len(s) : s[i] \in S
  OBVIOUS
<1>2. Reverse(s) \in Seq(S)
  <2>1. \A i \in 1 .. Len(s) : s[Len(s) - i + 1] \in S
    BY <1>1
  <2>2. Reverse(s) \in [1 .. Len(s) -> S]
    BY <2>1 DEF Reverse
  <2>3. QED
    BY <1>1, <2>2
<1>3. ASSUME NEW k \in 1 .. Len(s) PROVE RemoveAt(s, k) \in Seq(S)
  <2>1. /\ 1 \in Int /\ k - 1 \in Int /\ k + 1 \in Int /\ Len(s) \in Int
        /\ \A i \in 1 .. k - 1 : s[i] \in S
        /\ \A i \in k + 1 .. Len(s) : s[i] \in S
    BY <1>1
  <2>2. SubSeq(s, 1, k - 1) \in Seq(S) /\ SubSeq(s, k + 1, Len(s)) \in Seq(S)
    BY <2>1, SubSeqProperties
  <2>3. QED
    BY <2>2, ConcatProperties DEF RemoveAt
<1>4. QED
  BY <1>2, <1>3

\* A manifest that was edited.
LEMMA AlterManifestKeeps == ASSUME ImageInv, AlterManifest PROVE ImageInv'
<1> DEFINE m == image.manifest
           F == FilesOf(image.rows, image.format)
           T == {[name |-> n, digest |-> F[n]] : n \in FilesNeeded(image.format.version)}
           Fields == {"id", "schema", "version", "source", "profile", "docs", "digest", "codec", "outputs"}
<1>1. m # Refused
  BY DEF AlterManifest
<1>2. image # NoImage
  BY <1>1 DEF NoImage
<1>3. FilesMeant(image.files, image.format) /\ ManifestMeant(m, image.rows, image.format)
  BY <1>2 DEF ImageInv, OfABuild
<1>4. /\ image.format.version # 2 /\ DOMAIN m = Fields
      /\ \E f \in Formats : f.version # 2 /\ m.codec = ManifestCodec(f)
      /\ m.outputs \in Seq(T)
  BY <1>1, <1>3 DEF ManifestMeant
<1>5. ASSUME NEW w, DOMAIN w = Fields, \E f \in Formats : f.version # 2 /\ w.codec = ManifestCodec(f),
             w.outputs \in Seq(T), NEW derived \in BOOLEAN, Alter(image.files, Rewritten(w, derived))
      PROVE  ImageInv'
  <2> DEFINE r == Rewritten(w, derived)
             d == DerivedId(w)
  <2>1. DOMAIN r = Fields /\ r.codec = w.codec /\ r.outputs = w.outputs
    <3>1. CASE derived
      <4>1. r = [w EXCEPT !.id = d]
        BY <3>1 DEF Rewritten
      <4> HIDE DEF r, d
      <4>2. QED
        BY <1>5, <4>1
    <3>2. CASE ~derived
      BY <1>5, <3>2 DEF Rewritten
    <3>3. QED
      BY <3>1, <3>2
  <2>2. Alter(image.files, r)
    BY <1>5
  <2> HIDE DEF r
  <2>3. ManifestMeant(r, image.rows, image.format)
    BY <1>4, <1>5, <2>1 DEF ManifestMeant
  <2> HIDE DEF m, F, T
  <2>4. QED
    BY <1>3, <2>2, <2>3, AlterKeeps
<1> HIDE DEF T, F
<1>6. PICK derived \in BOOLEAN :
       \/ \E k \in DOMAIN m.outputs : Alter(image.files, Rewritten([m EXCEPT !.outputs = RemoveAt(@, k)], derived))
       \/ Alter(image.files, Rewritten([m EXCEPT !.outputs = Reverse(@)], derived))
       \/ \E f \in Formats : /\ f.version # 2
                             /\ Alter(image.files, Rewritten([m EXCEPT !.codec = ManifestCodec(f)], derived))
       \/ Alter(image.files, Rewritten([m EXCEPT !.version = 7 - @], derived))
  BY DEF AlterManifest
<1> HIDE DEF m
<1>7. CASE \E k \in DOMAIN m.outputs :
             Alter(image.files, Rewritten([m EXCEPT !.outputs = RemoveAt(@, k)], derived))
  <2>1. PICK k \in DOMAIN m.outputs :
          Alter(image.files, Rewritten([m EXCEPT !.outputs = RemoveAt(@, k)], derived))
    BY <1>7
  <2> DEFINE o == RemoveAt(m.outputs, k)
             w == [m EXCEPT !.outputs = o]
  <2>2. o \in Seq(T)
    BY <1>4, FewerOutputs
  <2>3. Alter(image.files, Rewritten(w, derived))
    BY <2>1
  <2> HIDE DEF o
  <2>4. DOMAIN w = Fields /\ w.codec = m.codec /\ w.outputs = o
    BY <1>4
  <2> HIDE DEF w
  <2>5. QED
    BY <1>4, <1>5, <2>2, <2>3, <2>4
<1>8. CASE Alter(image.files, Rewritten([m EXCEPT !.outputs = Reverse(@)], derived))
  <2> DEFINE o == Reverse(m.outputs)
             w == [m EXCEPT !.outputs = o]
  <2>2. o \in Seq(T)
    BY <1>4, FewerOutputs
  <2>3. Alter(image.files, Rewritten(w, derived))
    BY <1>8
  <2> HIDE DEF o
  <2>4. DOMAIN w = Fields /\ w.codec = m.codec /\ w.outputs = o
    BY <1>4
  <2> HIDE DEF w
  <2>5. QED
    BY <1>4, <1>5, <2>2, <2>3, <2>4
<1>9. CASE \E f \in Formats : /\ f.version # 2
                              /\ Alter(image.files, Rewritten([m EXCEPT !.codec = ManifestCodec(f)], derived))
  <2>1. PICK f \in Formats : /\ f.version # 2
                             /\ Alter(image.files, Rewritten([m EXCEPT !.codec = ManifestCodec(f)], derived))
    BY <1>9
  <2> DEFINE c == ManifestCodec(f)
             w == [m EXCEPT !.codec = c]
  <2>3. Alter(image.files, Rewritten(w, derived)) /\ c = ManifestCodec(f)
    BY <2>1
  <2> HIDE DEF c
  <2>4. DOMAIN w = Fields /\ w.codec = c /\ w.outputs = m.outputs
    BY <1>4
  <2> HIDE DEF w
  <2>5. QED
    BY <1>4, <1>5, <2>1, <2>3, <2>4
<1>10. CASE Alter(image.files, Rewritten([m EXCEPT !.version = 7 - @], derived))
  <2> DEFINE w == [m EXCEPT !.version = 7 - @]
  <2>4. DOMAIN w = Fields /\ w.codec = m.codec /\ w.outputs = m.outputs
    BY <1>4
  <2>3. Alter(image.files, Rewritten(w, derived))
    BY <1>10
  <2> HIDE DEF w
  <2>5. QED
    BY <1>4, <1>5, <2>3, <2>4
<1>11. QED
  BY <1>6, <1>7, <1>8, <1>9, <1>10

-------------------------------------------------------------------------------
(* The theorems. *)

\* Every step keeps the invariant.
LEMMA NextKeeps == ASSUME ImageInv, [ImageNext]_image PROVE ImageInv'
<1>1. CASE Build
  BY <1>1, BuildKeeps
<1>2. CASE image # NoImage /\ Lose
  BY <1>2, LoseKeeps
<1>3. CASE image # NoImage /\ Mix
  BY <1>3, MixKeeps
<1>4. CASE image # NoImage /\ Cut
  BY <1>4, CutKeeps
<1>5. CASE image # NoImage /\ Spoil
  BY <1>5, SpoilKeeps
<1>6. CASE "records" \in DOMAIN image.files /\ AlterHeader
  <2>1. image # NoImage
    BY <1>6 DEF AlterHeader, Alter
  <2>2. QED
    BY <1>6, <2>1, AlterHeaderKeeps
<1>7. CASE "meta" \in DOMAIN image.files /\ AlterMeta
  <2>1. image # NoImage
    BY <1>7 DEF AlterMeta, Alter
  <2>2. QED
    BY <1>7, <2>1, AlterMetaKeeps
<1>8. CASE AlterManifest
  BY <1>8, AlterManifestKeeps
<1>9. CASE UNCHANGED image
  BY <1>9 DEF ImageInv, OfABuild
<1>10. QED
  BY <1>1, <1>2, <1>3, <1>4, <1>5, <1>6, <1>7, <1>8, <1>9 DEF ImageNext

\* Every image is of one build, but for what its damage may have altered.
LEMMA ImageInvariant == ImageSpec => []ImageInv
<1>1. ImageInit => ImageInv
  BY ImageInvInit
<1>2. ImageInv /\ [ImageNext]_image => ImageInv'
  BY NextKeeps
<1>3. QED
  BY <1>1, <1>2, PTL DEF ImageSpec

\* An image without damage loads, verifies and reads back.
LEMMA InvReadsBack == ImageInv => BuiltReadsBack
<1> SUFFICES ASSUME ImageInv, image # NoImage, image.damage = 0
             PROVE  /\ Loads(image.files)
                    /\ LoadedCodec(image.files).config = image.format.config
                    /\ image.format.version # 2 => Verifies(image)
                    /\ \A i \in DOMAIN image.rows :
                         LET hit == Read(image.files, i)
                             row == image.rows[i]
                         IN  /\ hit.text = row.text /\ hit.title = row.title
                             /\ image.format.version # 2 => hit.id = row.id /\ hit.json = JsonOf(row)
                    /\ SameForEveryScan
  BY DEF BuiltReadsBack
<1> DEFINE rows == image.rows
           format == image.format
           files == image.files
           n == Len(rows)
<1>1. PICK scan \in Scans : rows = LanceSnapshot(scan)
  BY DEF ImageInv, OfABuild
<1>2. format \in Formats /\ BuildAccepted(rows, format) /\ image = Built(rows, format)
  BY DEF ImageInv, OfABuild
<1>3. rows # <<>> /\ Writable(format) /\ Layable(rows, n)
  BY <1>1, <1>2, BuildIs
<1>4. /\ files = FilesOf(rows, format)
      /\ format.version # 2 => image.manifest = ManifestOf(rows, format, files)
  <2>1. Built(rows, format).files = FilesOf(rows, format)
    BY DEF Built
  <2>2. format.version # 2 => Built(rows, format).manifest = ManifestOf(rows, format, FilesOf(rows, format))
    BY DEF Built
  <2>3. files = FilesOf(rows, format)
    BY <1>2, <2>1, Zenon
  <2>4. image.manifest = Built(rows, format).manifest
    BY <1>2, Zenon
  <2> HIDE DEF files, rows, format
  <2>5. QED
    BY <2>2, <2>3, <2>4
<1>5. Loads(files)
  BY <1>3, <1>4, BuiltLoads
<1>6. LoadedCodec(files).config = format.config
  <2>1. LoadedCodec(FilesOf(rows, format)).config = format.config
    BY <1>3, CodecReadsBack
  <2>2. QED
    BY <1>4, <2>1
<1>7. format.version # 2 => Verifies(image)
  BY <1>3, <1>4, BuiltVerifies
<1>8. ASSUME NEW i \in DOMAIN rows
      PROVE  /\ Read(files, i).text = rows[i].text /\ Read(files, i).title = rows[i].title
             /\ format.version # 2 => Read(files, i).id = rows[i].id /\ Read(files, i).json = JsonOf(rows[i])
  <2>1. i \in 1 .. n
    BY <1>3 DEF Layable
  <2>2. Read(files, i) = [text  |-> rows[i].text, title |-> rows[i].title,
                          id    |-> IF format.version # 2 THEN rows[i].id ELSE <<>>,
                          json  |-> IF format.version # 2 THEN JsonOf(rows[i]) ELSE <<>>]
    BY <1>3, <1>4, <2>1, BuiltReads
  <2> HIDE DEF files, rows, format
  <2>3. QED
    BY <2>2
<1>9. SameForEveryScan
  <2> SUFFICES ASSUME NoIdTwice(rows), NEW other \in Scans, ToSet(other) = ToSet(rows), Len(other) = Len(rows)
               PROVE  BuildAccepted(LanceSnapshot(other), format) /\ Built(LanceSnapshot(other), format) = image
    BY DEF SameForEveryScan
  <2>1. IsScan(scan) /\ IsScan(other)
    BY ImageConstants
  <2>2. LanceSnapshot(other) = rows
    BY <1>1, <1>3, <2>1, SameRowsSameBuild
  <2>3. QED
    BY <1>2, <2>2, Zenon
<1>10. QED
  BY <1>5, <1>6, <1>7, <1>8, <1>9

\* What is read of an image that loaded lies within its files.
LEMMA InvInBounds == ImageInv => LoadedInBounds
<1> SUFFICES ASSUME ImageInv, Loads(image.files), NEW i \in 1 .. image.files.records.count
             PROVE  LET m == image.files.meta.records[i]
                        e == image.files.meta_ext.records[i]
                    IN  /\ i <= Len(image.files.records.records) /\ i <= Len(image.files.meta.records)
                        /\ m.text_offset + m.text_len <= Len(image.files.text)
                        /\ m.title_offset + m.title_len <= Len(image.files.title)
                        /\ image.files.records.version # 2 =>
                             /\ e.docid_offset + e.docid_len <= Len(image.files.docid)
                             /\ e.json_offset + e.json_len <= Len(image.files.meta_json)
  BY DEF LoadedInBounds
<1> DEFINE files == image.files
           bin == files.records
           m == files.meta.records[i]
           e == files.meta_ext.records[i]
<1>1. /\ "records" \in DOMAIN files /\ LayoutKnown(bin) /\ FilesNeeded(bin.version) \subseteq DOMAIN files
      /\ SizeExpected(bin) /\ CountExpected(bin, files.meta)
  BY DEF Loads
<1>2. \A j \in DOMAIN files.meta.records :
        /\ RangeInBlob(files.text, files.meta.records[j].text_offset, files.meta.records[j].text_len)
        /\ RangeInBlob(files.title, files.meta.records[j].title_offset, files.meta.records[j].title_len)
  BY DEF Loads
<1>3. bin.version # 2 =>
        /\ CountExpected(bin, files.meta_ext)
        /\ \A j \in DOMAIN files.meta_ext.records :
             /\ RangeInBlob(files.docid, files.meta_ext.records[j].docid_offset,
                            files.meta_ext.records[j].docid_len)
             /\ RangeInBlob(files.meta_json, files.meta_ext.records[j].json_offset,
                            files.meta_ext.records[j].json_len)
  BY DEF Loads
<1>4. FilesMeant(files, image.format)
  <2>1. image # NoImage
    BY <1>1 DEF NoImage
  <2>2. QED
    BY <2>1 DEF ImageInv, OfABuild
<1>5. /\ bin.version \in {2, 3, 4}
      /\ "meta" \in DOMAIN files /\ (bin.version # 2 => "meta_ext" \in DOMAIN files)
  <2>1. bin.version \in {2, 3, 4}
    BY <1>1 DEF LayoutKnown
  <2>2. "meta" \in FilesNeeded(bin.version) /\ (bin.version # 2 => "meta_ext" \in FilesNeeded(bin.version))
    BY <2>1, Names
  <2>3. QED
    BY <1>1, <2>1, <2>2
<1>6. RecordsMeant(bin) /\ RowsMeant(files.meta) /\ (bin.version # 2 => RowsMeant(files.meta_ext))
  BY <1>1, <1>4, <1>5 DEF FilesMeant, FileMeant
<1> HIDE DEF files, bin
<1>7. bin.count \in Nat /\ bin.extra \in {0, 207} /\ \E S : bin.records \in Seq(S)
  BY <1>6 DEF RecordsMeant, RecordSize
<1>8. /\ Len(bin.records) \in Nat
      /\ Len(files.meta.records) \in Nat /\ DOMAIN files.meta.records = 1 .. Len(files.meta.records)
  <2>1. PICK S : bin.records \in Seq(S)
    BY <1>7
  <2>2. PICK R : files.meta.records \in Seq(R)
    BY <1>6 DEF RowsMeant
  <2>3. QED
    BY <2>1, <2>2, LenProperties
<1>9. bin.count = Len(bin.records)
  <2>1. bin.count * 208 + 32 = 32 + 208 * Len(bin.records) + bin.extra
    BY <1>1 DEF SizeExpected, RecordSize, HeaderSize
  <2>2. QED
    BY <1>7, <1>8, <2>1
<1>10. Len(files.meta.records) = bin.count
  BY <1>1 DEF CountExpected
<1>11. i \in 1 .. bin.count
  BY DEF bin, files
<1>12. i <= Len(bin.records) /\ i <= Len(files.meta.records) /\ i \in DOMAIN files.meta.records
  BY <1>7, <1>8, <1>9, <1>10, <1>11
<1>13. m.text_offset + m.text_len <= Len(files.text) /\ m.title_offset + m.title_len <= Len(files.title)
  BY <1>2, <1>12 DEF RangeInBlob
<1>14. ASSUME bin.version # 2
       PROVE  e.docid_offset + e.docid_len <= Len(files.docid) /\ e.json_offset + e.json_len <= Len(files.meta_json)
  <2>1. PICK R : files.meta_ext.records \in Seq(R)
    BY <1>6, <1>14 DEF RowsMeant
  <2>2. Len(files.meta_ext.records) = bin.count
    BY <1>3, <1>14 DEF CountExpected
  <2>3. i \in DOMAIN files.meta_ext.records
    BY <1>11, <2>1, <2>2, LenProperties
  <2>4. QED
    BY <1>3, <1>14, <2>3 DEF RangeInBlob
<1>15. QED
  BY <1>12, <1>13, <1>14 DEF files, bin

\* A v4 image that loads is scored by the configuration its codes were made with.
LEMMA InvOwnCodec == ImageInv => ScoredByItsOwnCodec
<1> SUFFICES ASSUME ImageInv, Loads(image.files), image.files.records.version = 4,
                    NEW i \in DOMAIN image.files.records.records
             PROVE  image.files.records.records[i].by = LoadedCodec(image.files).data
  BY DEF ScoredByItsOwnCodec
<1> DEFINE files == image.files
           bin == files.records
           r == ParsedRotation(files.rotation)
           b == ParsedCodebook(files.codebook)
           q == ParsedQjl(files.qjl)
           config == [codec |-> "turbo_quant_prod_v1", dim |-> files.records.dim, mse_bits |-> b.bits,
                      qjl_dim |-> q.qjl_dim, mse_seed |-> r.seed, qjl_seed |-> q.seed,
                      generator |-> r.generator, norm |-> "normalize_and_store"]
           assets == [rotation |-> files.rotation, codebook |-> files.codebook, qjl |-> files.qjl]
<1>1. "records" \in DOMAIN files /\ bin.codec = "turbo_quant_prod_v1" /\ LoadedCodec(files) # Refused
  BY DEF Loads, LayoutKnown
<1>2. FilesMeant(files, image.format)
  <2>1. image # NoImage
    BY <1>1 DEF NoImage
  <2>2. QED
    BY <2>1 DEF ImageInv, OfABuild
<1>3. RecordsMeant(bin)
  BY <1>1, <1>2 DEF FilesMeant, FileMeant
<1>4. PICK format \in Formats :
        /\ format.version # 4 => bin.codec = "none"
        /\ format.version = 4 => bin.fingerprint = Fingerprint(format.config, AssetsOf(format))
        /\ \E S : bin.records \in Seq(S) /\ \A x \in S : x.by = CodecData(format.version, AssetsOf(format))
  BY <1>3 DEF RecordsMeant
<1>5. format.version = 4 /\ bin.fingerprint = <<format.config, AssetsOf(format)>>
  BY <1>1, <1>4 DEF Fingerprint
<1>6. bin.records[i].by = CodecData(4, AssetsOf(format))
  <2>1. PICK S : bin.records \in Seq(S) /\ \A x \in S : x.by = CodecData(format.version, AssetsOf(format))
    BY <1>4
  <2>2. bin.records[i] \in S
    BY <2>1
  <2>3. QED
    BY <1>5, <2>1, <2>2
<1>7. LoadedCodec(files) = ProdCodec(files)
  BY DEF LoadedCodec
<1>8. ProdCodec(files) = IF /\ r # Refused /\ b # Refused /\ q # Refused
                            /\ FromAssets(config, r, b, q) # Refused
                            /\ HoldsCodesOf(config)
                            /\ files.records.fingerprint = Fingerprint(config, assets)
                         THEN FromAssets(config, r, b, q) ELSE Refused
  BY DEF ProdCodec
<1> HIDE DEF r, b, q, config, assets
<1>9. /\ r # Refused /\ b # Refused /\ q # Refused /\ FromAssets(config, r, b, q) # Refused
      /\ bin.fingerprint = <<config, assets>> /\ LoadedCodec(files) = FromAssets(config, r, b, q)
  BY <1>1, <1>7, <1>8 DEF Fingerprint
<1>10. AssetsOf(format) = assets
  BY <1>5, <1>9
<1>11. LoadedCodec(files).data = <<r.data, b.data, q.data>>
  <2>1. FromAssets(config, r, b, q) = [config |-> config, data |-> <<r.data, b.data, q.data>>]
    BY <1>9 DEF FromAssets
  <2>2. QED
    BY <1>9, <2>1
<1>12. r.data = files.rotation.data /\ b.data = files.codebook.data /\ q.data = files.qjl.data
  <2>1. r.data = files.rotation.data
    BY <1>9 DEF r, ParsedRotation
  <2>2. b.data = files.codebook.data
    BY <1>9 DEF b, ParsedCodebook
  <2>3. q.data = files.qjl.data
    BY <1>9 DEF q, ParsedQjl
  <2>4. QED
    BY <2>1, <2>2, <2>3
<1>13. CodecData(4, assets) = <<files.rotation.data, files.codebook.data, files.qjl.data>>
  BY DEF CodecData, assets
<1>14. QED
  BY <1>6, <1>10, <1>11, <1>12, <1>13

\* Whatever verifies lists the files of the format that was built.
LEMMA InvVerified == ImageInv => VerifiedIsBuilt
<1> SUFFICES ASSUME ImageInv, Verifies(image)
             PROVE  /\ image.files = FilesOf(image.rows, image.format)
                    /\ image.manifest.codec = ManifestCodec(image.format)
  BY DEF VerifiedIsBuilt
<1> DEFINE m == image.manifest
           files == image.files
           format == image.format
           v == format.version
           F == FilesOf(image.rows, format)
           names == OutputFiles(m.version)
<1>1. /\ m # Refused /\ SectionAccepted(m) /\ OutputsPinned(m)
      /\ \A i \in DOMAIN m.outputs : /\ m.outputs[i].name \in DOMAIN files
                                    /\ files[m.outputs[i].name] = m.outputs[i].digest
      /\ m.version = 4 => LoadedCodec(files).config = m.codec.config
  BY DEF Verifies
<1>2. image # NoImage
  BY <1>1 DEF NoImage
<1>3. /\ format \in Formats /\ BuildAccepted(image.rows, format)
      /\ FilesMeant(files, format) /\ ManifestMeant(m, image.rows, format)
      /\ \E scan \in Scans : image.rows = LanceSnapshot(scan)
  BY <1>2 DEF ImageInv, OfABuild
<1>4. Writable(format)
  BY <1>3 DEF BuildAccepted, Writable
<1>5. v \in {3, 4} /\ (v = 3 => format.config = LegacyV1)
  BY <1>1, <1>3, <1>4, FormatIs DEF ManifestMeant
<1>6. /\ \E f \in Formats : f.version # 2 /\ m.codec = ManifestCodec(f)
      /\ m.outputs \in Seq({[name |-> n, digest |-> F[n]] : n \in FilesNeeded(v)})
  BY <1>1, <1>3 DEF ManifestMeant
<1>7. m.version \in {3, 4} /\ m.codec.version = m.version
  BY <1>1 DEF SectionAccepted
<1> HIDE DEF m, files, F
<1>8. \A i \in DOMAIN m.outputs : \E n \in FilesNeeded(v) : m.outputs[i].name = n /\ m.outputs[i].digest = F[n]
  <2> DEFINE T == {[name |-> n, digest |-> F[n]] : n \in FilesNeeded(v)}
             o == m.outputs
  <2>1. o \in Seq(T)
    BY <1>6
  <2>2. \A t \in T : \E n \in FilesNeeded(v) : t.name = n /\ t.digest = F[n]
    OBVIOUS
  <2> HIDE DEF T, o
  <2>3. \A i \in DOMAIN o : o[i] \in T
    BY <2>1
  <2>4. QED
    BY <2>2, <2>3 DEF o
<1>9. DOMAIN m.outputs = DOMAIN names /\ \A i \in DOMAIN names : m.outputs[i].name = names[i]
  <2>1. [i \in DOMAIN m.outputs |-> m.outputs[i].name] = names
    BY <1>1 DEF OutputsPinned
  <2> HIDE DEF names
  <2>2. QED
    BY <2>1
<1>10. FilesNeeded(m.version) = {names[i] : i \in DOMAIN names}
  BY <1>7, OutputsAreFiles
<1> HIDE DEF names
<1>11. \A n \in FilesNeeded(m.version) : /\ n \in FilesNeeded(v) /\ n \in DOMAIN files /\ files[n] = F[n]
  <2> SUFFICES ASSUME NEW i \in DOMAIN names
               PROVE  names[i] \in FilesNeeded(v) /\ names[i] \in DOMAIN files /\ files[names[i]] = F[names[i]]
    BY <1>10
  <2>1. i \in DOMAIN m.outputs /\ m.outputs[i].name = names[i]
    BY <1>9
  <2>2. m.outputs[i].name \in FilesNeeded(v) /\ m.outputs[i].digest = F[m.outputs[i].name]
    BY <1>8, <2>1
  <2>3. QED
    BY <1>1, <2>1, <2>2
<1>12. m.version = v
  <2>1. CASE m.version = 3 /\ v = 4
    <3>1. "centroids" \in FilesNeeded(4)
      BY <1>11, <2>1, Names
    <3>2. QED
      BY <3>1, Names
  <2>2. CASE m.version = 4 /\ v = 3
    <3>1. "codebook" \in FilesNeeded(3)
      BY <1>11, <2>2, Names
    <3>2. QED
      BY <3>1, Names
  <2>3. QED
    BY <1>5, <1>7, <2>1, <2>2
<1>13. files = F
  <2>1. DOMAIN files \subseteq FilesNeeded(v) /\ files = [n \in DOMAIN files |-> files[n]]
    BY <1>3 DEF FilesMeant
  <2>2. DOMAIN files = FilesNeeded(v) /\ \A n \in FilesNeeded(v) : files[n] = F[n]
    BY <1>11, <1>12, <2>1
  <2>3. F = [n \in FilesNeeded(v) |-> F[n]]
    BY DEF F, FilesOf
  <2> HIDE DEF v, format
  <2>4. QED
    BY <2>1, <2>2, <2>3
<1>14. m.codec = ManifestCodec(format)
  <2>1. CASE v = 3
    <3>1. m.codec = V3Section(LegacyV1)
      BY <1>1, <1>12, <2>1 DEF SectionAccepted
    <3>2. QED
      BY <1>5, <2>1, <3>1 DEF ManifestCodec
  <2>2. CASE v = 4
    <3>1. PICK f \in Formats : f.version # 2 /\ m.codec = ManifestCodec(f)
      BY <1>6
    <3>2. f.version = 4
      <4>1. CASE f.version # 4
        <5>1. m.codec = V3Section(f.config)
          BY <3>1, <4>1 DEF ManifestCodec
        <5>2. V3Section(f.config).version = 3
          BY DEF V3Section
        <5>3. QED
          BY <1>7, <1>12, <2>2, <5>1, <5>2
      <4>2. QED
        BY <4>1
    <3>3. m.codec = V4Section(f.config) /\ V4Section(f.config).config = f.config
      BY <3>1, <3>2 DEF ManifestCodec, V4Section
    <3>4. LoadedCodec(F).config = format.config
      BY <1>4, CodecReadsBack DEF F
    <3>5. f.config = format.config
      BY <1>1, <1>12, <1>13, <2>2, <3>3, <3>4
    <3>6. QED
      BY <2>2, <3>3, <3>5 DEF ManifestCodec
  <2>3. QED
    BY <1>5, <2>1, <2>2
<1>15. QED
  BY <1>13, <1>14 DEF F, m, files

(* static_builder.rs and mmap_index.rs: whatever rows a scan returns and whatever
   format they are built in, the image loads, its release verifies, and every
   row reads back with the id, text, title and metadata it had; and another
   scan of the same rows, in any order, gives the same image. *)
THEOREM ImagesReadBack == ImageSpec => []BuiltReadsBack
BY ImageInvariant, InvReadsBack, PTL

(* mmap_index.rs: however often an image was cut, mixed with another or altered,
   what the reader does load it reads within its files, and scores by the codec
   whose codes it holds. *)
THEOREM LoadedImagesAreSound == ImageSpec => []LoadedIsSound
<1>1. ImageInv => LoadedIsSound
  BY InvInBounds, InvOwnCodec DEF LoadedIsSound
<1>2. QED
  BY <1>1, ImageInvariant, PTL

(* release_manifest.rs: a release that verifies has every file of its format as
   it was built, and its manifest names the codec of the build; no damage to
   files or manifest, in any number, gets past it. *)
THEOREM VerifiedReleasesAreBuilt == ImageSpec => []VerifiedIsBuilt
BY ImageInvariant, InvVerified, PTL

-------------------------------------------------------------------------------
(* Codes: the thresholds of a codebook part its values as the centroids do. *)

\* A set of places that has every place before one of its own is a first few places.
LEMMA FirstPlaces ==
  ASSUME NEW m \in Nat, NEW S \in SUBSET (1 .. m), \A i \in S : \A j \in 1 .. i : j \in S
  PROVE  Cardinality(S) \in 0 .. m /\ S = 1 .. Cardinality(S)
<1>1. \A n \in Nat : Cardinality(1 .. n) = n
  <2>1. \A n \in Nat : Cardinality(1 .. n) = IF 1 > n THEN 0 ELSE n - 1 + 1
    BY FS_Interval
  <2>2. QED
    BY <2>1
<1>2. CASE S = {}
  <2>1. S = 1 .. 0
    BY <1>2
  <2>2. QED
    BY <1>1, <2>1
<1>3. CASE S # {}
  <2>1. S \in SUBSET (0 .. m)
    OBVIOUS
  <2>2. PICK g \in S : \A k \in S : k <= g
    BY <1>3, <2>1, GreatestNatural
  <2>3. S = 1 .. g /\ g \in 0 .. m
    <3>1. g \in 1 .. m /\ \A k \in S : k \in 1 .. g
      BY <2>2
    <3>2. \A k \in 1 .. g : k \in S
      BY <2>2
    <3>3. S = 1 .. g
      BY <3>1, <3>2, Zenon
    <3>4. QED
      BY <3>1, <3>3
  <2>4. QED
    BY <1>1, <2>3
<1>4. QED
  BY <1>2, <1>3

\* The centroids of a codebook ascend.
LEMMA CentroidsAscend ==
  ASSUME NEW c, IsCodebook(c)
  PROVE  /\ Len(c) \in Nat /\ Len(c) >= 1 /\ \A i \in 1 .. Len(c) : c[i] \in Int
         /\ \A i, j \in 1 .. Len(c) : i < j => c[i] < c[j]
<1>1. Len(c) \in Nat /\ Len(c) >= 1 /\ \A i \in 1 .. Len(c) : c[i] \in Int
  BY DEF IsCodebook
<1>2. ASSUME NEW i \in 1 .. Len(c) PROVE \A j \in 1 .. Len(c) : i < j => c[i] < c[j]
  <2> DEFINE Bad == {j \in Nat : j \in 1 .. Len(c) /\ i < j /\ ~(c[i] < c[j])}
  <2> SUFFICES ASSUME Bad # {} PROVE FALSE
    BY <1>1
  <2>1. Bad \in SUBSET Nat
    OBVIOUS
  <2>2. PICK j \in Bad : \A k \in Bad : j <= k
    <3> HIDE DEF Bad
    <3>1. QED
      BY <2>1, LeastNatural
  <2>3. j \in 1 .. Len(c) /\ i < j /\ ~(c[i] < c[j]) /\ j - 1 \in 1 .. Len(c) /\ j - 1 \in 1 .. Len(c) - 1
    BY <1>1
  <2>4. j - 1 = i \/ (i < j - 1 /\ j - 1 \notin Bad)
    BY <2>2, <2>3
  <2>5. c[i] <= c[j - 1]
    BY <1>1, <2>3, <2>4
  <2>6. c[j - 1] < c[j - 1 + 1] /\ j - 1 + 1 = j
    BY <2>3 DEF IsCodebook
  <2>7. QED
    BY <1>1, <2>3, <2>5, <2>6
<1>3. QED
  BY <1>1, <1>2

\* A threshold is the least value that is no lower than the midpoint.
LEMMA ThresholdIs ==
  ASSUME NEW lower \in Int, NEW upper \in Int
  PROVE  /\ ThresholdBetween(lower, upper) \in Int
         /\ 2 * ThresholdBetween(lower, upper) >= lower + upper
         /\ 2 * ThresholdBetween(lower, upper) <= lower + upper + 1
BY DEF ThresholdBetween

\* The code of a value counts the thresholds it reaches, and these are the first ones.
LEMMA QuantizeIs ==
  ASSUME NEW c, IsCodebook(c), NEW x, x \in Int
  PROVE  /\ Quantize(c, x) \in 0 .. Len(c) - 1
         /\ \A i \in 1 .. Len(c) - 1 : i <= Quantize(c, x) <=> 2 * x >= c[i] + c[i + 1]
<1>1. /\ Len(c) \in Nat /\ Len(c) >= 1 /\ \A i \in 1 .. Len(c) : c[i] \in Int
      /\ \A i, j \in 1 .. Len(c) : i < j => c[i] < c[j]
  BY CentroidsAscend
<1> DEFINE m == Len(c) - 1
           S == {i \in 1 .. m : x >= ThresholdBetween(c[i], c[i + 1])}
<1>2. m \in Nat
  BY <1>1
<1>3. \A i \in 1 .. m : i \in S <=> 2 * x >= c[i] + c[i + 1]
  <2>1. SUFFICES ASSUME NEW i \in 1 .. m PROVE i \in S <=> 2 * x >= c[i] + c[i + 1]
    OBVIOUS
  <2> DEFINE t == ThresholdBetween(c[i], c[i + 1])
  <2>2. c[i] \in Int /\ c[i + 1] \in Int
    BY <1>1
  <2>3. t \in Int /\ 2 * t >= c[i] + c[i + 1] /\ 2 * t <= c[i] + c[i + 1] + 1
    BY <2>2, ThresholdIs
  <2>4. i \in S <=> x >= t
    OBVIOUS
  <2> HIDE DEF t
  <2>5. QED
    BY <2>2, <2>3, <2>4
<1>4. \A i \in S : \A j \in 1 .. i : j \in S
  <2>1. SUFFICES ASSUME NEW i \in S, NEW j \in 1 .. i PROVE 2 * x >= c[j] + c[j + 1]
    BY <1>3
  <2>2. i \in 1 .. m /\ j \in 1 .. m /\ 2 * x >= c[i] + c[i + 1]
    BY <1>3
  <2>3. c[j] <= c[i] /\ c[j + 1] <= c[i + 1] /\ c[i] \in Int /\ c[j] \in Int /\ c[i + 1] \in Int /\ c[j + 1] \in Int
    BY <1>1, <2>2
  <2>4. QED
    BY <2>2, <2>3
<1>5. Cardinality(S) \in 0 .. m /\ S = 1 .. Cardinality(S)
  <2> HIDE DEF m
  <2>1. S \in SUBSET (1 .. m)
    OBVIOUS
  <2> HIDE DEF S
  <2>2. QED
    BY <1>2, <1>4, <2>1, FirstPlaces
<1>6. Quantize(c, x) = Cardinality(S)
  <2>1. DOMAIN Thresholds(c) = 1 .. m /\ \A i \in 1 .. m : Thresholds(c)[i] = ThresholdBetween(c[i], c[i + 1])
    BY DEF Thresholds
  <2>2. {i \in DOMAIN Thresholds(c) : x >= Thresholds(c)[i]} = S
    BY <2>1
  <2>3. QED
    BY <2>2 DEF Quantize, Quantify
<1>7. \A i \in 1 .. m : i <= Cardinality(S) <=> i \in S
  <2> HIDE DEF S
  <2>1. QED
    BY <1>2, <1>5
<1>8. QED
  BY <1>3, <1>5, <1>6, <1>7

\* A code names the nearest centroid, and of two as near the upper one.
LEMMA CodeIsNearest ==
  ASSUME NEW c, IsCodebook(c), NEW x, x \in Int, NEW i, i \in 0 .. Len(c) - 1
  PROVE  \/ Distance(x, Centroid(c, Quantize(c, x))) < Distance(x, Centroid(c, i))
         \/ /\ Distance(x, Centroid(c, Quantize(c, x))) = Distance(x, Centroid(c, i))
            /\ i <= Quantize(c, x)
<1> DEFINE k == Quantize(c, x)
<1>1. /\ Len(c) \in Nat /\ Len(c) >= 1 /\ \A j \in 1 .. Len(c) : c[j] \in Int
      /\ \A j, l \in 1 .. Len(c) : j < l => c[j] < c[l]
  BY CentroidsAscend
<1>2. /\ k \in 0 .. Len(c) - 1
      /\ \A j \in 1 .. Len(c) - 1 : j <= k <=> 2 * x >= c[j] + c[j + 1]
  BY QuantizeIs
<1>9. SUFFICES \/ Distance(x, Centroid(c, k)) < Distance(x, Centroid(c, i))
               \/ Distance(x, Centroid(c, k)) = Distance(x, Centroid(c, i)) /\ i <= k
  OBVIOUS
<1> HIDE DEF k
<1> DEFINE a == c[k + 1]
           b == c[i + 1]
<1>3. a \in Int /\ b \in Int /\ Centroid(c, k) = a /\ Centroid(c, i) = b
  BY <1>1, <1>2 DEF Centroid
<1>4. CASE i = k
  BY <1>2, <1>3, <1>4 DEF Distance
<1>5. CASE i < k
  <2>1. k \in 1 .. Len(c) - 1 /\ c[k] \in Int /\ 2 * x >= c[k] + a
    BY <1>1, <1>2, <1>5
  <2>2. b <= c[k] /\ b < a
    <3>1. k + 1 \in 1 .. Len(c) /\ i + 1 \in 1 .. Len(c) /\ k \in 1 .. Len(c) /\ i + 1 < k + 1
      /\ (i + 1 < k \/ i + 1 = k)
      BY <1>1, <1>2, <1>5
    <3>2. QED
      BY <1>1, <2>1, <3>1
  <2> HIDE DEF a, b
  <2>3. QED
    BY <1>2, <1>3, <1>5, <2>1, <2>2 DEF Distance
<1>6. CASE i > k
  <2>1. k + 1 \in 1 .. Len(c) - 1 /\ c[k + 2] \in Int /\ ~(2 * x >= a + c[k + 1 + 1]) /\ k + 1 + 1 = k + 2
    BY <1>1, <1>2, <1>6
  <2>2. c[k + 2] <= b /\ a < b
    BY <1>1, <1>2, <1>6, <2>1
  <2> HIDE DEF a, b
  <2>3. QED
    BY <1>2, <1>3, <1>6, <2>1, <2>2 DEF Distance
<1>7. QED
  BY <1>2, <1>4, <1>5, <1>6

-------------------------------------------------------------------------------
(* Products: a rotation keeps them, as its columns are orthogonal and sums may be exchanged. *)

\* Vectors and square matrices of d whole numbers.
Vec(x, d) == d \in Nat /\ x \in [1 .. d -> Int]
Square(m, d) == d \in Nat /\ m \in [1 .. d -> [1 .. d -> Int]]

\* Products of whole numbers, in any order.
LEMMA Times ==
  /\ \A p, q \in Int : p * q \in Int /\ p * q = q * p
  /\ \A p, q, r \in Int : p * (q * r) = r * (q * p)
OBVIOUS

\* A product of vectors is a sum of products.
LEMMA DotIs ==
  ASSUME NEW d, NEW x, NEW y, Vec(x, d), Vec(y, d)
  PROVE  /\ Terms([i \in 1 .. d |-> x[i] * y[i]], 1 .. d)
         /\ Dot(x, y) = SumOver([i \in 1 .. d |-> x[i] * y[i]], 1 .. d)
         /\ Dot(x, y) \in Int /\ Dot(x, y) = Dot(y, x)
<1> DEFINE w == [i \in 1 .. d |-> x[i] * y[i]]
<1>1. d \in Nat /\ DOMAIN x = 1 .. d /\ DOMAIN y = 1 .. d /\ \A i \in 1 .. d : x[i] \in Int /\ y[i] \in Int
  BY DEF Vec
<1>2. \A i \in 1 .. d : x[i] * y[i] \in Int /\ x[i] * y[i] = y[i] * x[i]
  BY <1>1, Times
<1>3. Terms(w, 1 .. d)
  BY <1>1, <1>2, FS_Interval DEF Terms
<1>4. w = [i \in 1 .. d |-> w[i]]
  OBVIOUS
<1>5. Dot(x, y) = SumOver(w, 1 .. d)
  BY <1>1, <1>4 DEF Dot, SumOver
<1>6. Dot(y, x) = SumOver(w, 1 .. d)
  <2>1. w = [i \in 1 .. d |-> y[i] * x[i]]
    BY <1>2
  <2>2. QED
    BY <1>1, <1>4, <2>1 DEF Dot, SumOver
<1>7. SumOver(w, 1 .. d) \in Int
  <2>1. 1 .. d \in SUBSET (1 .. d)
    OBVIOUS
  <2> HIDE DEF w
  <2>2. QED
    BY <1>3, <2>1, OverTakes
<1>8. QED
  BY <1>3, <1>5, <1>6, <1>7

\* What the columns of m make of u.
Back(m, d, u) == [k \in 1 .. d |-> Dot(Column(m, 1 .. d, k), u)]

\* What a matrix, or its columns, make of a vector is a vector.
LEMMA RotateIs ==
  ASSUME NEW d, NEW m, NEW x, Square(m, d), Vec(x, d)
  PROVE  /\ Vec(Rotate(m, x), d) /\ Vec(Back(m, d, x), d)
         /\ \A i \in 1 .. d : Rotate(m, x)[i] = Dot(m[i], x) /\ Vec(m[i], d)
         /\ \A k \in 1 .. d : Vec(Column(m, 1 .. d, k), d)
<1>1. DOMAIN m = 1 .. d /\ d \in Nat
  BY DEF Square
<1>2. \A i \in 1 .. d : Vec(m[i], d)
  BY DEF Square, Vec
<1>3. \A k \in 1 .. d : Vec(Column(m, 1 .. d, k), d)
  BY DEF Square, Vec, Column
<1>4. \A i \in 1 .. d : Dot(m[i], x) \in Int
  BY <1>2, DotIs
<1>5. \A k \in 1 .. d : Dot(Column(m, 1 .. d, k), x) \in Int
  BY <1>3, DotIs
<1>6. Rotate(m, x) = [i \in 1 .. d |-> Dot(m[i], x)]
  BY <1>1 DEF Rotate
<1>7. Vec(Rotate(m, x), d) /\ Vec(Back(m, d, x), d)
  BY <1>1, <1>4, <1>5, <1>6 DEF Vec, Back
<1>8. QED
  BY <1>2, <1>3, <1>6, <1>7

\* A matrix may be moved from one side of a product to the other.
LEMMA Adjoint ==
  ASSUME NEW d, NEW m, NEW u, NEW v, Square(m, d), Vec(u, d), Vec(v, d)
  PROVE  Dot(u, Rotate(m, v)) = Dot(v, Back(m, d, u))
<1> DEFINE D == 1 .. d
           a == [i \in D |-> [k \in D |-> u[i] * (m[i][k] * v[k])]]
<1>1. /\ d \in Nat /\ \A i \in D : u[i] \in Int /\ v[i] \in Int
      /\ \A i, k \in D : m[i][k] \in Int
  BY DEF Vec, Square
<1>2. \A i, k \in D : u[i] * (m[i][k] * v[k]) \in Int /\ u[i] * (m[i][k] * v[k]) = v[k] * (m[i][k] * u[i])
  BY <1>1, Times
<1>3. Grid(a, D, D)
  <2>1. a \in [D -> [D -> Int]]
    BY <1>2
  <2>2. IsFiniteSet(D)
    BY <1>1, FS_Interval
  <2> HIDE DEF a, D
  <2>3. QED
    BY <2>1, <2>2 DEF Grid
<1>4. Vec(Rotate(m, v), d) /\ Vec(Back(m, d, u), d)
  BY RotateIs
<1>5. \A i \in D : RowSums(a, D, D)[i] = u[i] * Rotate(m, v)[i]
  <2> SUFFICES ASSUME NEW i \in D PROVE SumOver(a[i], D) = u[i] * Rotate(m, v)[i]
    BY DEF RowSums
  <2> DEFINE w == [k \in D |-> m[i][k] * v[k]]
             c == a[i]
  <2>1. Rotate(m, v)[i] = Dot(m[i], v) /\ Vec(m[i], d)
    BY RotateIs
  <2>2. Terms(w, D) /\ Dot(m[i], v) = SumOver(w, D)
    BY <2>1, DotIs
  <2>3. Terms(c, D) /\ \A k \in D : c[k] = u[i] * w[k]
    BY <1>1, <1>2, FS_Interval DEF Terms
  <2>4. u[i] \in Int
    BY <1>1
  <2> HIDE DEF w, c, D
  <2>5. SumOver(c, D) = u[i] * SumOver(w, D)
    BY <2>2, <2>3, <2>4, OverTimes
  <2>6. QED
    BY <2>1, <2>2, <2>5 DEF c
<1>6. \A k \in D : ColumnSums(a, D, D, D)[k] = v[k] * Back(m, d, u)[k]
  <2> SUFFICES ASSUME NEW k \in D PROVE SumOver(Column(a, D, k), D) = v[k] * Back(m, d, u)[k]
    BY DEF ColumnSums
  <2> DEFINE w == [i \in D |-> Column(m, 1 .. d, k)[i] * u[i]]
             c == Column(a, D, k)
  <2>1. Back(m, d, u)[k] = Dot(Column(m, 1 .. d, k), u)
    BY DEF Back
  <2>2. Terms(w, D) /\ Dot(Column(m, 1 .. d, k), u) = SumOver(w, D)
    <3>1. Vec(Column(m, 1 .. d, k), d)
      BY RotateIs
    <3> HIDE DEF Column
    <3>2. QED
      BY <3>1, DotIs
  <2>3. Terms(c, D) /\ \A i \in D : c[i] = v[k] * w[i]
    <3>1. \A i \in D : c[i] = u[i] * (m[i][k] * v[k]) /\ w[i] = m[i][k] * u[i]
      BY DEF Column
    <3>2. c = [i \in D |-> c[i]]
      BY DEF Column
    <3>3. IsFiniteSet(D)
      BY <1>1, FS_Interval
    <3> HIDE DEF c, w, D
    <3>4. QED
      BY <1>2, <3>1, <3>2, <3>3 DEF Terms
  <2>4. v[k] \in Int
    BY <1>1
  <2> HIDE DEF w, c, D
  <2>5. SumOver(c, D) = v[k] * SumOver(w, D)
    BY <2>2, <2>3, <2>4, OverTimes
  <2>6. QED
    BY <2>1, <2>2, <2>5 DEF c
<1>7. SumOver(RowSums(a, D, D), D) = SumOver(ColumnSums(a, D, D, D), D)
  <2> HIDE DEF a, D
  <2>1. QED
    BY <1>3, OverExchange
<1>8. Dot(u, Rotate(m, v)) = SumOver(RowSums(a, D, D), D)
  <2>1. RowSums(a, D, D) = [i \in 1 .. d |-> u[i] * Rotate(m, v)[i]]
    <3>1. RowSums(a, D, D) = [i \in D |-> RowSums(a, D, D)[i]]
      BY DEF RowSums
    <3> HIDE DEF a
    <3>2. QED
      BY <1>5, <3>1
  <2>2. Dot(u, Rotate(m, v)) = SumOver([i \in 1 .. d |-> u[i] * Rotate(m, v)[i]], 1 .. d)
    <3> DEFINE R == Rotate(m, v)
    <3>1. Vec(R, d) /\ Vec(u, d)
      BY <1>4
    <3> HIDE DEF R, a
    <3>2. Dot(u, R) = SumOver([i \in 1 .. d |-> u[i] * R[i]], 1 .. d)
      BY <3>1, DotIs
    <3>3. QED
      BY <3>2 DEF R
  <2> HIDE DEF a
  <2>3. QED
    BY <2>1, <2>2, Zenon
<1>9. Dot(v, Back(m, d, u)) = SumOver(ColumnSums(a, D, D, D), D)
  <2>1. ColumnSums(a, D, D, D) = [k \in 1 .. d |-> v[k] * Back(m, d, u)[k]]
    <3>1. ColumnSums(a, D, D, D) = [k \in D |-> ColumnSums(a, D, D, D)[k]]
      BY DEF ColumnSums
    <3> HIDE DEF a
    <3>2. QED
      BY <1>6, <3>1
  <2>2. Dot(v, Back(m, d, u)) = SumOver([k \in 1 .. d |-> v[k] * Back(m, d, u)[k]], 1 .. d)
    <3> DEFINE R == Back(m, d, u)
    <3>1. Vec(R, d) /\ Vec(v, d)
      BY <1>4
    <3> HIDE DEF R, a
    <3>2. Dot(v, R) = SumOver([k \in 1 .. d |-> v[k] * R[k]], 1 .. d)
      BY <3>1, DotIs
    <3>3. QED
      BY <3>2 DEF R
  <2> HIDE DEF a
  <2>3. QED
    BY <2>1, <2>2, Zenon
<1>10. QED
  BY <1>7, <1>8, <1>9

\* The columns of a rotation take back what its rows made of a vector.
LEMMA BackUndoes ==
  ASSUME NEW d, NEW m, NEW y, Vec(y, d), IsRotation(m, d)
  PROVE  Back(m, d, Rotate(m, y)) = y
<1> DEFINE Y == Rotate(m, y)
<1>1. Square(m, d) /\ d \in Nat
  BY DEF IsRotation, Square, Vec
<1>2. Vec(Y, d)
  BY <1>1, RotateIs
<1>3. ASSUME NEW k \in 1 .. d PROVE Back(m, d, Y)[k] = y[k]
  <2> DEFINE u == Column(m, 1 .. d, k)
             B == Back(m, d, u)
             w == [l \in 1 .. d |-> y[l] * B[l]]
  <2>1. Vec(u, d) /\ Back(m, d, Y)[k] = Dot(u, Y)
    BY <1>1, RotateIs DEF Back
  <2>2. Dot(u, Y) = Dot(y, B)
    <3> HIDE DEF u
    <3>1. QED
      BY <1>1, <2>1, Adjoint
  <2>3. \A l \in 1 .. d : B[l] = IF l = k THEN 1 ELSE 0
    <3>1. ASSUME NEW l \in 1 .. d PROVE B[l] = IF l = k THEN 1 ELSE 0
      <4>1. B[l] = Dot(Column(m, 1 .. d, l), u)
        BY DEF Back
      <4>2. Dot(Column(m, 1 .. d, l), u) = SumFunction([i \in 1 .. d |-> m[i][l] * m[i][k]])
        BY DEF Dot, Column
      <4>3. SumFunction([i \in 1 .. d |-> m[i][l] * m[i][k]]) = IF l = k THEN 1 ELSE 0
        BY DEF IsRotation
      <4>4. QED
        BY <4>1, <4>2, <4>3
    <3>2. QED
      BY <3>1
  <2>4. Vec(B, d)
    <3> HIDE DEF u
    <3>1. QED
      BY <1>1, <2>1, RotateIs
  <2>5. Terms(w, 1 .. d) /\ Dot(y, B) = SumOver(w, 1 .. d)
    <3> HIDE DEF B
    <3>1. QED
      BY <2>4, DotIs
  <2>6. \A l \in 1 .. d : y[l] \in Int
    BY DEF Vec
  <2> HIDE DEF B
  <2>7. w[k] = y[k] /\ \A l \in 1 .. d : l # k => w[l] = 0
    BY <2>3, <2>6
  <2> HIDE DEF w
  <2>8. SumOver(w, 1 .. d) = w[k]
    BY <2>5, <2>7, OverOne
  <2>9. QED
    BY <2>1, <2>2, <2>5, <2>7, <2>8
<1>4. Back(m, d, Y) = [k \in 1 .. d |-> Back(m, d, Y)[k]] /\ y = [k \in 1 .. d |-> y[k]]
  BY DEF Back, Vec
<1> HIDE DEF Y
<1>5. Back(m, d, Y) = y
  BY <1>3, <1>4
<1>6. QED
  BY <1>5 DEF Y

\* Rotating both leaves a product as it is.
LEMMA RotationKeepsProducts ==
  ASSUME NEW d, NEW m, NEW x, NEW y, Vec(x, d), Vec(y, d), IsRotation(m, d)
  PROVE  Dot(Rotate(m, x), Rotate(m, y)) = Dot(x, y)
<1> DEFINE Y == Rotate(m, y)
<1>1. Square(m, d)
  BY DEF IsRotation, Square, Vec
<1>2. Vec(Y, d) /\ Vec(Rotate(m, x), d)
  BY <1>1, RotateIs
<1>3. Back(m, d, Y) = y
  BY BackUndoes
<1> HIDE DEF Y
<1>4. Dot(Y, Rotate(m, x)) = Dot(x, y)
  BY <1>1, <1>2, <1>3, Adjoint
<1>5. Dot(Rotate(m, x), Y) = Dot(Y, Rotate(m, x))
  BY <1>2, DotIs
<1>6. QED
  BY <1>4, <1>5 DEF Y

\* rotation.rs: inverse_rotate undoes rotate, for a rotation of any size.
THEOREM InverseUndoesRotation ==
  ASSUME NEW d, NEW m, NEW y, Vec(y, d), IsRotation(m, d)
  PROVE  InverseRotate(m, Rotate(m, y)) = y
<1> DEFINE Y == Rotate(m, y)
<1>1. Square(m, d)
  BY DEF IsRotation, Square, Vec
<1>2. Vec(Y, d) /\ \A k \in 1 .. d : Vec(Column(m, 1 .. d, k), d)
  BY <1>1, RotateIs
<1>3. DOMAIN m = 1 .. d /\ DOMAIN Y = 1 .. d
  BY <1>1, <1>2 DEF Square, Vec
<1> HIDE DEF Y
<1>4. ASSUME NEW k \in 1 .. d
      PROVE  SumFunction([i \in DOMAIN m |-> Y[i] * m[i][k]]) = Back(m, d, Y)[k]
  <2> DEFINE u == Column(m, 1 .. d, k)
  <2>1. Back(m, d, Y)[k] = Dot(u, Y)
    BY DEF Back
  <2>2. Vec(u, d)
    BY <1>2
  <2>3. u = [i \in 1 .. d |-> m[i][k]]
    BY DEF Column
  <2> HIDE DEF u
  <2>4. Dot(u, Y) = Dot(Y, u)
    BY <1>2, <2>2, DotIs
  <2>5. Dot(Y, u) = SumFunction([i \in 1 .. d |-> Y[i] * m[i][k]])
    BY <1>3, <2>3 DEF Dot
  <2>6. QED
    BY <1>3, <2>1, <2>4, <2>5
<1>5. InverseRotate(m, Y) = Back(m, d, Y)
  <2>1. InverseRotate(m, Y) = [k \in 1 .. d |-> SumFunction([i \in DOMAIN m |-> Y[i] * m[i][k]])]
    BY <1>3 DEF InverseRotate
  <2>2. Back(m, d, Y) = [k \in 1 .. d |-> Back(m, d, Y)[k]]
    BY DEF Back
  <2>3. QED
    BY <1>4, <2>1, <2>2
<1>6. Back(m, d, Y) = y
  BY BackUndoes DEF Y
<1>7. QED
  BY <1>5, <1>6 DEF Y

-------------------------------------------------------------------------------
(* Bytes: a byte is the sum of its values, each at its power, and is read value by value. *)

\* The terms at places q + 1 to q + per, as far as there are any, one after the other.
Stretch(n, q, per) == {j \in 1 .. n : q < j /\ j <= q + per}
\* L has the sums of the first of them.
RunningSum(w, n, q, per, L) ==
  /\ L \in [0 .. per -> Int] /\ L[0] = 0
  /\ \A s \in 0 .. per - 1 : L[s + 1] = L[s] + (IF q + s + 1 <= n THEN w[q + s + 1] ELSE 0)

\* They lead to the sum of them all.
LEMMA StretchSums ==
  ASSUME NEW n, n \in Nat, NEW q, q \in Nat, NEW per, per \in Nat, NEW w, Terms(w, Stretch(n, q, per))
  PROVE  \E L : RunningSum(w, n, q, per, L) /\ L[per] = SumOver(w, Stretch(n, q, per))
<1> DEFINE P == Stretch(n, q, per)
           L == [s \in 0 .. per |-> SumOver(w, Stretch(n, q, s))]
<1>1. \A s \in 0 .. per : Stretch(n, q, s) \in SUBSET P
  BY DEF Stretch
<1>2. \A s \in 0 .. per : SumOver(w, Stretch(n, q, s)) \in Int
  BY <1>1, OverTakes
<1>3. SumOver(w, {}) = 0
  BY OverTakes
<1>4. Stretch(n, q, 0) = {}
  BY DEF Stretch
<1>5. ASSUME NEW s \in 0 .. per - 1
      PROVE  SumOver(w, Stretch(n, q, s + 1)) =
               SumOver(w, Stretch(n, q, s)) + (IF q + s + 1 <= n THEN w[q + s + 1] ELSE 0)
  <2>1. s \in 0 .. per /\ s + 1 \in 0 .. per
    OBVIOUS
  <2>2. CASE q + s + 1 <= n
    <3> DEFINE x == q + s + 1
               T == Stretch(n, q, s + 1)
    <3>1. x \in T /\ T \ {x} = Stretch(n, q, s) /\ x \in P
      BY <2>2 DEF Stretch
    <3>2. T \in SUBSET P
      BY <1>1, <2>1
    <3>3. w[x] \in Int
      BY <3>1 DEF Terms
    <3> HIDE DEF x, T
    <3>4. SumOver(w, T) = w[x] + SumOver(w, T \ {x})
      BY <3>1, <3>2, OverTakes
    <3>5. SumOver(w, Stretch(n, q, s)) \in Int
      BY <1>2, <2>1
    <3>6. SumOver(w, T) = SumOver(w, Stretch(n, q, s)) + w[x]
      <4>1. SumOver(w, T) = w[x] + SumOver(w, Stretch(n, q, s))
        BY <3>1, <3>4, Zenon
      <4> DEFINE o == SumOver(w, Stretch(n, q, s))
                 y == w[x]
      <4> HIDE DEF o, y
      <4>2. y + o = o + y
        BY <3>3, <3>5 DEF o, y
      <4>3. QED
        BY <4>1, <4>2, Zenon DEF o, y
    <3>7. QED
      BY <2>2, <3>6 DEF x, T
  <2>3. CASE ~(q + s + 1 <= n)
    <3>1. Stretch(n, q, s + 1) = Stretch(n, q, s)
      BY <2>3 DEF Stretch
    <3>2. SumOver(w, Stretch(n, q, s)) \in Int
      BY <1>2, <2>1
    <3>3. QED
      BY <2>3, <3>1, <3>2
  <2>4. QED
    BY <2>2, <2>3
<1>6. RunningSum(w, n, q, per, L)
  <2>1. L \in [0 .. per -> Int]
    BY <1>2
  <2>2. L[0] = 0
    BY <1>3, <1>4
  <2>3. \A s \in 0 .. per - 1 : L[s] = SumOver(w, Stretch(n, q, s)) /\ L[s + 1] = SumOver(w, Stretch(n, q, s + 1))
    OBVIOUS
  <2> HIDE DEF L
  <2>4. QED
    BY <1>5, <2>1, <2>2, <2>3 DEF RunningSum
<1>7. QED
  BY <1>6

\* Each value is found again where it was packed.
LEMMA PackedTwo ==
  ASSUME NEW n, n \in Nat, NEW values, values \in [1 .. n -> 0 .. 3], NEW i, i \in 1 .. n
  PROVE  /\ (Pack(values, 2)[(i - 1) \div 4 + 1] \div 4 ^ ((i - 1) % 4)) % 4 = values[i]
         /\ ReadAt(Pack(values, 2), 2, i - 1) = values[i]
<1> DEFINE q == 4 * ((i - 1) \div 4)
           b == (i - 1) \div 4 + 1
           w == [j \in PlacesIn(b, n, 2) |-> values[j] * 2 ^ (2 * ((j - 1) % 4))]
           byte == Pack(values, 2)[b]
           u(s) == IF q + s + 1 <= n THEN values[q + s + 1] ELSE 0
<1>1. q \in Nat /\ b \in 1 .. BytesFor(n, 2)
  BY DEF BytesFor
<1>2. PlacesIn(b, n, 2) = Stretch(n, q, 4)
  <2>1. 8 \div 2 = 4
    OBVIOUS
  <2>2. \A j \in 1 .. n : (j - 1) \div 4 = b - 1 <=> q < j /\ j <= q + 4
    OBVIOUS
  <2> HIDE DEF b, q
  <2>3. QED
    BY <2>1, <2>2 DEF PlacesIn, Stretch
<1>3. values \in Seq(0 .. 3) /\ Len(values) = n /\ DOMAIN values = 1 .. n
  OBVIOUS
<1>4. byte = SumOver(w, Stretch(n, q, 4))
  <2>1. byte = SumFunction([j \in PlacesIn(b, n, 2) |-> values[j] * 2 ^ (2 * ((j - 1) % (8 \div 2)))])
    <3> HIDE DEF b
    <3>1. QED
      BY <1>1, <1>3 DEF Pack
  <2>2. 8 \div 2 = 4
    OBVIOUS
  <2>3. byte = SumFunction(w)
    BY <2>1, <2>2
  <2>4. w = [j \in Stretch(n, q, 4) |-> w[j]]
    BY <1>2
  <2> HIDE DEF w, b, q, byte
  <2>5. QED
    BY <2>3, <2>4 DEF SumOver
<1>5. \A j \in Stretch(n, q, 4) : /\ values[j] \in 0 .. 3 /\ (j - 1) % 4 \in 0 .. 3 /\ w[j] \in Int
                                 /\ w[j] = values[j] * 2 ^ (2 * ((j - 1) % 4))
  <2>1. \A k \in 0 .. 3 : 2 ^ (2 * k) \in Int
    OBVIOUS
  <2>2. \A j \in Stretch(n, q, 4) : values[j] \in 0 .. 3 /\ (j - 1) % 4 \in 0 .. 3
    BY <1>1 DEF Stretch
  <2>3. \A j \in Stretch(n, q, 4) : w[j] = values[j] * 2 ^ (2 * ((j - 1) % 4))
    BY <1>2
  <2>4. ASSUME NEW j \in Stretch(n, q, 4) PROVE w[j] \in Int
    <3> DEFINE e == (j - 1) % 4
               p == values[j]
               r == 2 ^ (2 * e)
    <3>0. p \in 0 .. 3 /\ e \in 0 .. 3 /\ w[j] = p * r
      BY <2>2, <2>3
    <3> HIDE DEF p, e, w
    <3>1. r \in Int
      BY <2>1, <3>0
    <3> HIDE DEF r
    <3>2. QED
      BY <3>0, <3>1
  <2> HIDE DEF w, q, b
  <2>5. QED
    BY <2>2, <2>3, <2>4
<1>6. Terms(w, Stretch(n, q, 4))
  <2>1. IsFiniteSet(1 .. n) /\ Stretch(n, q, 4) \subseteq 1 .. n
    BY FS_Interval DEF Stretch
  <2>2. IsFiniteSet(Stretch(n, q, 4))
    BY <2>1, FS_Subset
  <2>3. w = [j \in Stretch(n, q, 4) |-> w[j]]
    BY <1>2
  <2> HIDE DEF w, q, b
  <2>4. QED
    BY <1>5, <2>2, <2>3 DEF Terms
<1>7. PICK L : RunningSum(w, n, q, 4, L) /\ L[4] = SumOver(w, Stretch(n, q, 4))
  <2> HIDE DEF w, q
  <2>1. 4 \in Nat
    OBVIOUS
  <2>2. QED
    BY <1>1, <1>6, <2>1, StretchSums
<1>8. \A s \in 0 .. 3 : u(s) \in 0 .. 3
  BY <1>1
<1>9. /\ 2 ^ (2 * 0) = 1 /\ 2 ^ (2 * 1) = 4 /\ 2 ^ (2 * 2) = 16 /\ 2 ^ (2 * 3) = 64
      /\ 4 ^ 0 = 1 /\ 4 ^ 1 = 4 /\ 4 ^ 2 = 16 /\ 4 ^ 3 = 64 /\ 2 ^ 2 = 4
      /\ 2 ^ 0 = 1 /\ 2 ^ 4 = 16 /\ 2 ^ 6 = 64
  OBVIOUS
<1>10. /\ L[0] = 0 /\ L[1] = L[0] + u(0) /\ L[2] = L[1] + 4 * u(1) /\ L[3] = L[2] + 16 * u(2)
       /\ L[4] = L[3] + 64 * u(3)
  <2>1. ASSUME NEW s \in 0 .. 3, q + s + 1 <= n
        PROVE  w[q + s + 1] = values[q + s + 1] * 2 ^ (2 * s)
    <3> DEFINE x == q + s + 1
    <3>1. x \in Stretch(n, q, 4) /\ (x - 1) % 4 = s
      BY <1>1, <2>1 DEF Stretch
    <3> HIDE DEF q, b, x, w
    <3>2. w[x] = values[x] * 2 ^ (2 * s)
      BY <1>5, <3>1
    <3>3. QED
      BY <3>2 DEF x
  <2>2. /\ L[0] = 0
        /\ \A s \in 0 .. 3 : L[s] \in Int /\ L[s + 1] = L[s] + (IF q + s + 1 <= n THEN w[q + s + 1] ELSE 0)
    <3> HIDE DEF w, q
    <3>1. QED
      BY <1>7 DEF RunningSum
  <2>3. ASSUME NEW s \in 0 .. 3 PROVE L[s + 1] = L[s] + u(s) * 2 ^ (2 * s)
    <3>1. CASE q + s + 1 <= n
      BY <2>1, <2>2, <3>1
    <3>2. CASE ~(q + s + 1 <= n)
      <4>1. 2 ^ (2 * s) \in Int /\ \A p \in Int : 0 * p = 0
        OBVIOUS
      <4>2. u(s) * 2 ^ (2 * s) = 0
        BY <3>2, <4>1
      <4> HIDE DEF u
      <4>3. QED
        BY <2>2, <3>2, <4>2
    <3>3. QED
      BY <3>1, <3>2
  <2> HIDE DEF u, w, q
  <2>4. /\ L[0 + 1] = L[0] + u(0) * 2 ^ (2 * 0) /\ L[1 + 1] = L[1] + u(1) * 2 ^ (2 * 1)
        /\ L[2 + 1] = L[2] + u(2) * 2 ^ (2 * 2) /\ L[3 + 1] = L[3] + u(3) * 2 ^ (2 * 3)
    BY <2>3
  <2>5. u(0) \in Int /\ u(1) \in Int /\ u(2) \in Int /\ u(3) \in Int
    BY <1>8
  <2>6. /\ u(0) * 2 ^ (2 * 0) = u(0) /\ u(1) * 2 ^ (2 * 1) = 4 * u(1)
        /\ u(2) * 2 ^ (2 * 2) = 16 * u(2) /\ u(3) * 2 ^ (2 * 3) = 64 * u(3)
    BY <1>9, <2>5
  <2>7. 0 + 1 = 1 /\ 1 + 1 = 2 /\ 2 + 1 = 3 /\ 3 + 1 = 4
    OBVIOUS
  <2>8. QED
    BY <2>2, <2>4, <2>6, <2>7, Zenon
<1>11. byte = u(0) + 4 * u(1) + 16 * u(2) + 64 * u(3)
  <2>1. L[4] = byte
    BY <1>4, <1>7
  <2> HIDE DEF u, byte
  <2>2. QED
    BY <1>8, <1>10, <2>1
<1>12. /\ byte % 4 = u(0) /\ (byte \div 4) % 4 = u(1) /\ (byte \div 16) % 4 = u(2)
       /\ (byte \div 64) % 4 = u(3) /\ byte \in Int
  <2> HIDE DEF u, byte
  <2>1. 0 \in 0 .. 3 /\ 1 \in 0 .. 3 /\ 2 \in 0 .. 3 /\ 3 \in 0 .. 3
    OBVIOUS
  <2>2. u(0) \in 0 .. 3 /\ u(1) \in 0 .. 3 /\ u(2) \in 0 .. 3 /\ u(3) \in 0 .. 3
    BY <1>8, <2>1
  <2> DEFINE u0 == u(0)
             u1 == u(1)
             u2 == u(2)
             u3 == u(3)
  <2>3. /\ u0 \in 0 .. 3 /\ u1 \in 0 .. 3 /\ u2 \in 0 .. 3 /\ u3 \in 0 .. 3
        /\ byte = u0 + 4 * u1 + 16 * u2 + 64 * u3
    BY <1>11, <2>2
  <2> HIDE DEF u0, u1, u2, u3
  <2>4. /\ byte % 4 = u0 /\ (byte \div 4) % 4 = u1 /\ (byte \div 16) % 4 = u2
        /\ (byte \div 64) % 4 = u3 /\ byte \in Int
    BY <2>3
  <2>5. QED
    BY <2>4 DEF u0, u1, u2, u3
<1> DEFINE k == (i - 1) % 4
<1>13. k \in 0 .. 3 /\ q + k + 1 = i /\ u(k) = values[i]
  BY <1>1
<1>14. (byte \div 4 ^ k) % 4 = u(k)
  <2> HIDE DEF u, byte, k
  <2>1. byte \div 1 = byte
    BY <1>12
  <2>2. k = 0 \/ k = 1 \/ k = 2 \/ k = 3
    BY <1>13
  <2>3. QED
    BY <1>9, <1>12, <2>1, <2>2
<1>15. ReadAt(Pack(values, 2), 2, i - 1) = (byte \div 4 ^ k) % 4
  <2>1. ((i - 1) * 2) \div 8 + 1 = b /\ ((i - 1) * 2) % 8 = 2 * k
    OBVIOUS
  <2>2. 2 ^ (2 * k) = 4 ^ k
    <3>1. k = 0 \/ k = 1 \/ k = 2 \/ k = 3
      BY <1>13
    <3> HIDE DEF k
    <3>2. QED
      BY <1>9, <3>1
  <2> HIDE DEF k, b
  <2>3. QED
    BY <1>9, <2>1, <2>2 DEF ReadAt
<1>16. QED
  BY <1>13, <1>14, <1>15

\* The same of bits, eight to a byte.
LEMMA PackedOne ==
  ASSUME NEW n, n \in Nat, NEW values, values \in [1 .. n -> 0 .. 1], NEW i, i \in 1 .. n
  PROVE  /\ (Pack(values, 1)[(i - 1) \div 8 + 1] \div 2 ^ ((i - 1) % 8)) % 2 = values[i]
         /\ ReadAt(Pack(values, 1), 1, i - 1) = values[i]
<1> DEFINE q == 8 * ((i - 1) \div 8)
           b == (i - 1) \div 8 + 1
           w == [j \in PlacesIn(b, n, 1) |-> values[j] * 2 ^ (1 * ((j - 1) % 8))]
           byte == Pack(values, 1)[b]
           u(s) == IF q + s + 1 <= n THEN values[q + s + 1] ELSE 0
<1>1. q \in Nat /\ b \in 1 .. BytesFor(n, 1)
  BY DEF BytesFor
<1>2. PlacesIn(b, n, 1) = Stretch(n, q, 8)
  <2>1. 8 \div 1 = 8
    OBVIOUS
  <2>2. \A j \in 1 .. n : (j - 1) \div 8 = b - 1 <=> q < j /\ j <= q + 8
    OBVIOUS
  <2> HIDE DEF b, q
  <2>3. QED
    BY <2>1, <2>2 DEF PlacesIn, Stretch
<1>3. values \in Seq(0 .. 1) /\ Len(values) = n /\ DOMAIN values = 1 .. n
  OBVIOUS
<1>4. byte = SumOver(w, Stretch(n, q, 8))
  <2>1. byte = SumFunction([j \in PlacesIn(b, n, 1) |-> values[j] * 2 ^ (1 * ((j - 1) % (8 \div 1)))])
    <3> HIDE DEF b
    <3>1. QED
      BY <1>1, <1>3 DEF Pack
  <2>2. 8 \div 1 = 8
    OBVIOUS
  <2>3. byte = SumFunction(w)
    BY <2>1, <2>2
  <2>4. w = [j \in Stretch(n, q, 8) |-> w[j]]
    BY <1>2
  <2> HIDE DEF w, b, q, byte
  <2>5. QED
    BY <2>3, <2>4 DEF SumOver
<1>5. \A j \in Stretch(n, q, 8) : /\ values[j] \in 0 .. 1 /\ (j - 1) % 8 \in 0 .. 7 /\ w[j] \in Int
                                 /\ w[j] = values[j] * 2 ^ (1 * ((j - 1) % 8))
  <2>1. \A k \in 0 .. 7 : 2 ^ (1 * k) \in Int
    OBVIOUS
  <2>2. \A j \in Stretch(n, q, 8) : values[j] \in 0 .. 1 /\ (j - 1) % 8 \in 0 .. 7
    BY <1>1 DEF Stretch
  <2>3. \A j \in Stretch(n, q, 8) : w[j] = values[j] * 2 ^ (1 * ((j - 1) % 8))
    BY <1>2
  <2>4. ASSUME NEW j \in Stretch(n, q, 8) PROVE w[j] \in Int
    <3> DEFINE e == (j - 1) % 8
               p == values[j]
               r == 2 ^ (1 * e)
    <3>0. p \in 0 .. 1 /\ e \in 0 .. 7 /\ w[j] = p * r
      BY <2>2, <2>3
    <3> HIDE DEF p, e, w
    <3>1. r \in Int
      BY <2>1, <3>0
    <3> HIDE DEF r
    <3>2. QED
      BY <3>0, <3>1
  <2> HIDE DEF w, q, b
  <2>5. QED
    BY <2>2, <2>3, <2>4
<1>6. Terms(w, Stretch(n, q, 8))
  <2>1. IsFiniteSet(1 .. n) /\ Stretch(n, q, 8) \subseteq 1 .. n
    BY FS_Interval DEF Stretch
  <2>2. IsFiniteSet(Stretch(n, q, 8))
    BY <2>1, FS_Subset
  <2>3. w = [j \in Stretch(n, q, 8) |-> w[j]]
    BY <1>2
  <2> HIDE DEF w, q, b
  <2>4. QED
    BY <1>5, <2>2, <2>3 DEF Terms
<1>7. PICK L : RunningSum(w, n, q, 8, L) /\ L[8] = SumOver(w, Stretch(n, q, 8))
  <2> HIDE DEF w, q
  <2>1. 8 \in Nat
    OBVIOUS
  <2>2. QED
    BY <1>1, <1>6, <2>1, StretchSums
<1>8. \A s \in 0 .. 7 : u(s) \in 0 .. 1
  BY <1>1
<1>9. /\ 2 ^ (1 * 0) = 1 /\ 2 ^ (1 * 1) = 2 /\ 2 ^ (1 * 2) = 4 /\ 2 ^ (1 * 3) = 8
      /\ 2 ^ (1 * 4) = 16 /\ 2 ^ (1 * 5) = 32 /\ 2 ^ (1 * 6) = 64 /\ 2 ^ (1 * 7) = 128
      /\ 2 ^ 0 = 1 /\ 2 ^ 1 = 2 /\ 2 ^ 2 = 4 /\ 2 ^ 3 = 8
      /\ 2 ^ 4 = 16 /\ 2 ^ 5 = 32 /\ 2 ^ 6 = 64 /\ 2 ^ 7 = 128
  OBVIOUS
<1>10. /\ L[0] = 0 /\ L[1] = L[0] + u(0)
       /\ L[2] = L[1] + 2 * u(1)
       /\ L[3] = L[2] + 4 * u(2)
       /\ L[4] = L[3] + 8 * u(3)
       /\ L[5] = L[4] + 16 * u(4)
       /\ L[6] = L[5] + 32 * u(5)
       /\ L[7] = L[6] + 64 * u(6)
       /\ L[8] = L[7] + 128 * u(7)
  <2>1. ASSUME NEW s \in 0 .. 7, q + s + 1 <= n
        PROVE  w[q + s + 1] = values[q + s + 1] * 2 ^ (1 * s)
    <3> DEFINE x == q + s + 1
    <3>1. x \in Stretch(n, q, 8) /\ (x - 1) % 8 = s
      BY <1>1, <2>1 DEF Stretch
    <3> HIDE DEF q, b, x, w
    <3>2. w[x] = values[x] * 2 ^ (1 * s)
      BY <1>5, <3>1
    <3>3. QED
      BY <3>2 DEF x
  <2>2. /\ L[0] = 0
        /\ \A s \in 0 .. 7 : L[s] \in Int /\ L[s + 1] = L[s] + (IF q + s + 1 <= n THEN w[q + s + 1] ELSE 0)
    <3> HIDE DEF w, q
    <3>1. QED
      BY <1>7 DEF RunningSum
  <2>3. ASSUME NEW s \in 0 .. 7 PROVE L[s + 1] = L[s] + u(s) * 2 ^ (1 * s)
    <3>1. CASE q + s + 1 <= n
      BY <2>1, <2>2, <3>1
    <3>2. CASE ~(q + s + 1 <= n)
      <4>1. 2 ^ (1 * s) \in Int /\ \A p \in Int : 0 * p = 0
        OBVIOUS
      <4>2. u(s) * 2 ^ (1 * s) = 0
        BY <3>2, <4>1
      <4> HIDE DEF u
      <4>3. QED
        BY <2>2, <3>2, <4>2
    <3>3. QED
      BY <3>1, <3>2
  <2> HIDE DEF u, w, q
  <2>4. /\ L[0 + 1] = L[0] + u(0) * 2 ^ (1 * 0)
        /\ L[1 + 1] = L[1] + u(1) * 2 ^ (1 * 1)
        /\ L[2 + 1] = L[2] + u(2) * 2 ^ (1 * 2)
        /\ L[3 + 1] = L[3] + u(3) * 2 ^ (1 * 3)
        /\ L[4 + 1] = L[4] + u(4) * 2 ^ (1 * 4)
        /\ L[5 + 1] = L[5] + u(5) * 2 ^ (1 * 5)
        /\ L[6 + 1] = L[6] + u(6) * 2 ^ (1 * 6)
        /\ L[7 + 1] = L[7] + u(7) * 2 ^ (1 * 7)
    BY <2>3
  <2>5. u(0) \in Int /\ u(1) \in Int /\ u(2) \in Int /\ u(3) \in Int
        /\ u(4) \in Int /\ u(5) \in Int /\ u(6) \in Int /\ u(7) \in Int
    BY <1>8
  <2>6. /\ u(0) * 2 ^ (1 * 0) = u(0)
        /\ u(1) * 2 ^ (1 * 1) = 2 * u(1)
        /\ u(2) * 2 ^ (1 * 2) = 4 * u(2)
        /\ u(3) * 2 ^ (1 * 3) = 8 * u(3)
        /\ u(4) * 2 ^ (1 * 4) = 16 * u(4)
        /\ u(5) * 2 ^ (1 * 5) = 32 * u(5)
        /\ u(6) * 2 ^ (1 * 6) = 64 * u(6)
        /\ u(7) * 2 ^ (1 * 7) = 128 * u(7)
    <3>1. u(0) * 2 ^ (1 * 0) = u(0)
      BY <1>9, <2>5
    <3>2. u(1) * 2 ^ (1 * 1) = 2 * u(1)
      BY <1>9, <2>5
    <3>3. u(2) * 2 ^ (1 * 2) = 4 * u(2)
      BY <1>9, <2>5
    <3>4. u(3) * 2 ^ (1 * 3) = 8 * u(3)
      BY <1>9, <2>5
    <3>5. u(4) * 2 ^ (1 * 4) = 16 * u(4)
      BY <1>9, <2>5
    <3>6. u(5) * 2 ^ (1 * 5) = 32 * u(5)
      BY <1>9, <2>5
    <3>7. u(6) * 2 ^ (1 * 6) = 64 * u(6)
      BY <1>9, <2>5
    <3>8. u(7) * 2 ^ (1 * 7) = 128 * u(7)
      BY <1>9, <2>5
    <3>9. QED
      BY <3>1, <3>2, <3>3, <3>4, <3>5, <3>6, <3>7, <3>8
  <2>7. 0 + 1 = 1 /\ 1 + 1 = 2 /\ 2 + 1 = 3 /\ 3 + 1 = 4 /\ 4 + 1 = 5 /\ 5 + 1 = 6 /\ 6 + 1 = 7 /\ 7 + 1 = 8
    OBVIOUS
  <2>8. QED
    BY <2>2, <2>4, <2>6, <2>7, Zenon
<1>11. byte = u(0) + 2 * u(1) + 4 * u(2) + 8 * u(3) + 16 * u(4) + 32 * u(5) + 64 * u(6) + 128 * u(7)
  <2>1. L[8] = byte
    BY <1>4, <1>7
  <2> HIDE DEF u, byte
  <2>2. QED
    BY <1>8, <1>10, <2>1
<1>12. /\ byte \in Int /\ byte % 2 = u(0)
       /\ (byte \div 2) % 2 = u(1)
       /\ (byte \div 4) % 2 = u(2)
       /\ (byte \div 8) % 2 = u(3)
       /\ (byte \div 16) % 2 = u(4)
       /\ (byte \div 32) % 2 = u(5)
       /\ (byte \div 64) % 2 = u(6)
       /\ (byte \div 128) % 2 = u(7)
  <2> HIDE DEF u, byte
  <2>1. /\ 0 \in 0 .. 7 /\ 1 \in 0 .. 7 /\ 2 \in 0 .. 7 /\ 3 \in 0 .. 7
        /\ 4 \in 0 .. 7 /\ 5 \in 0 .. 7 /\ 6 \in 0 .. 7 /\ 7 \in 0 .. 7
    OBVIOUS
  <2>2. /\ u(0) \in 0 .. 1 /\ u(1) \in 0 .. 1 /\ u(2) \in 0 .. 1 /\ u(3) \in 0 .. 1
        /\ u(4) \in 0 .. 1 /\ u(5) \in 0 .. 1 /\ u(6) \in 0 .. 1 /\ u(7) \in 0 .. 1
    BY <1>8, <2>1
  <2> DEFINE u0 == u(0)
             u1 == u(1)
             u2 == u(2)
             u3 == u(3)
             u4 == u(4)
             u5 == u(5)
             u6 == u(6)
             u7 == u(7)
  <2>3. /\ u0 \in 0 .. 1 /\ u1 \in 0 .. 1 /\ u2 \in 0 .. 1 /\ u3 \in 0 .. 1
        /\ u4 \in 0 .. 1 /\ u5 \in 0 .. 1 /\ u6 \in 0 .. 1 /\ u7 \in 0 .. 1
        /\ byte = u0 + 2 * u1 + 4 * u2 + 8 * u3 + 16 * u4 + 32 * u5 + 64 * u6 + 128 * u7
    BY <1>11, <2>2
  <2> HIDE DEF u0, u1, u2, u3, u4, u5, u6, u7
  <2>4. byte \in Int /\ byte % 2 = u0
    BY <2>3
  <2>5. (byte \div 2) % 2 = u1
    BY <2>3
  <2>6. (byte \div 4) % 2 = u2
    BY <2>3
  <2>7. (byte \div 8) % 2 = u3
    BY <2>3
  <2>8. (byte \div 16) % 2 = u4
    BY <2>3
  <2>9. (byte \div 32) % 2 = u5
    BY <2>3
  <2>10. (byte \div 64) % 2 = u6
    BY <2>3
  <2>11. (byte \div 128) % 2 = u7
    BY <2>3
  <2>12. QED
    BY <2>4, <2>5, <2>6, <2>7, <2>8, <2>9, <2>10, <2>11 DEF u0, u1, u2, u3, u4, u5, u6, u7
<1> DEFINE k == (i - 1) % 8
<1>13. k \in 0 .. 7 /\ q + k + 1 = i /\ u(k) = values[i]
  BY <1>1
<1>14. (byte \div 2 ^ k) % 2 = u(k)
  <2> HIDE DEF u, byte, k
  <2>1. CASE k = 0
    <3>1. 2 ^ k = 1 /\ u(k) = u(0)
      BY <1>9, <2>1
    <3>2. QED
      BY <1>12, <3>1
  <2>2. CASE k = 1
    <3>1. 2 ^ k = 2 /\ u(k) = u(1)
      BY <1>9, <2>2
    <3>2. QED
      BY <1>12, <3>1
  <2>3. CASE k = 2
    <3>1. 2 ^ k = 4 /\ u(k) = u(2)
      BY <1>9, <2>3
    <3>2. QED
      BY <1>12, <3>1
  <2>4. CASE k = 3
    <3>1. 2 ^ k = 8 /\ u(k) = u(3)
      BY <1>9, <2>4
    <3>2. QED
      BY <1>12, <3>1
  <2>5. CASE k = 4
    <3>1. 2 ^ k = 16 /\ u(k) = u(4)
      BY <1>9, <2>5
    <3>2. QED
      BY <1>12, <3>1
  <2>6. CASE k = 5
    <3>1. 2 ^ k = 32 /\ u(k) = u(5)
      BY <1>9, <2>6
    <3>2. QED
      BY <1>12, <3>1
  <2>7. CASE k = 6
    <3>1. 2 ^ k = 64 /\ u(k) = u(6)
      BY <1>9, <2>7
    <3>2. QED
      BY <1>12, <3>1
  <2>8. CASE k = 7
    <3>1. 2 ^ k = 128 /\ u(k) = u(7)
      BY <1>9, <2>8
    <3>2. QED
      BY <1>12, <3>1
  <2>9. QED
    BY <1>13, <2>1, <2>2, <2>3, <2>4, <2>5, <2>6, <2>7, <2>8
<1>15. ReadAt(Pack(values, 1), 1, i - 1) = (byte \div 2 ^ k) % 2
  <2>1. ((i - 1) * 1) \div 8 + 1 = b /\ ((i - 1) * 1) % 8 = k
    OBVIOUS
  <2> HIDE DEF k, b
  <2>2. QED
    BY <1>9, <2>1 DEF ReadAt
<1>16. QED
  BY <1>13, <1>14, <1>15

-------------------------------------------------------------------------------
(* Scores: of packed codes and signs, in the current format and in the legacy one. *)

\* A product with a sum is the sum of the products.
LEMMA DotPlus ==
  ASSUME NEW d, NEW y, NEW a, NEW b, NEW c, Vec(y, d), Vec(a, d), Vec(b, d), Vec(c, d),
         \A i \in 1 .. d : c[i] = a[i] + b[i]
  PROVE  Dot(y, a) + Dot(y, b) = Dot(y, c)
<1> DEFINE D == 1 .. d
           ya == [i \in D |-> y[i] * a[i]]
           yb == [i \in D |-> y[i] * b[i]]
           yc == [i \in D |-> y[i] * c[i]]
<1>1. /\ Terms(ya, D) /\ Dot(y, a) = SumOver(ya, D)
      /\ Terms(yb, D) /\ Dot(y, b) = SumOver(yb, D)
      /\ Terms(yc, D) /\ Dot(y, c) = SumOver(yc, D)
  BY DotIs
<1>2. \A i \in D : y[i] \in Int /\ a[i] \in Int /\ b[i] \in Int
  BY DEF Vec
<1>3. \A p, q, r \in Int : p * (q + r) = p * q + p * r
  OBVIOUS
<1>4. \A i \in D : yc[i] = ya[i] + yb[i]
  <2>1. \A i \in D : yc[i] = y[i] * (a[i] + b[i]) /\ ya[i] = y[i] * a[i] /\ yb[i] = y[i] * b[i]
    OBVIOUS
  <2> HIDE DEF ya, yb, yc
  <2>2. QED
    BY <1>2, <1>3, <2>1
<1> HIDE DEF ya, yb, yc, D
<1>5. SumOver(yc, D) = SumOver(ya, D) + SumOver(yb, D)
  BY <1>1, <1>4, OverPlus
<1>6. QED
  BY <1>1, <1>5

\* The first of the nearest centroids is one of them.
LEMMA NearestIs ==
  ASSUME NEW c, IsCodebook(c), NEW x, x \in Int
  PROVE  NearestCentroid(c, x) \in 0 .. Len(c) - 1
<1> DEFINE I == 0 .. Len(c) - 1
           D(i) == Distance(x, Centroid(c, i))
           Ds == {D(i) : i \in I}
<1>1. Len(c) \in Nat /\ Len(c) >= 1 /\ \A i \in 1 .. Len(c) : c[i] \in Int
  BY CentroidsAscend
<1>2. \A i \in I : D(i) \in Nat
  <2>1. \A i \in I : Centroid(c, i) \in Int
    BY <1>1 DEF Centroid
  <2>2. QED
    BY <2>1 DEF Distance
<1>3. Ds \in SUBSET Nat /\ Ds # {}
  <2>1. 0 \in I
    BY <1>1
  <2>2. QED
    BY <1>2, <2>1
<1>4. PICK least \in Ds : \A k \in Ds : least <= k
  <2> HIDE DEF Ds
  <2>1. QED
    BY <1>3, LeastNatural
<1> DEFINE At == {i \in I : D(i) = least}
<1>5. At \in SUBSET Nat /\ At # {}
  <2>1. PICK i \in I : least = D(i)
    OBVIOUS
  <2>2. I \subseteq Nat
    BY <1>1
  <2>3. QED
    BY <2>1, <2>2
<1>6. PICK best \in At : \A k \in At : best <= k
  <2> HIDE DEF At
  <2>1. QED
    BY <1>5, LeastNatural
<1>7. best \in I /\ \A i \in I : D(best) < D(i) \/ (D(best) = D(i) /\ best <= i)
  <2>1. best \in I /\ D(best) = least
    OBVIOUS
  <2>2. \A i \in I : least <= D(i) /\ (D(i) = least => best <= i)
    BY <1>4, <1>6
  <2> HIDE DEF D, At, Ds
  <2>3. QED
    BY <1>2, <2>1, <2>2
<1>8. \E b \in I : \A i \in I : D(b) < D(i) \/ (D(b) = D(i) /\ b <= i)
  BY <1>7
<1>9. NearestCentroid(c, x) = CHOOSE b \in I : \A i \in I : D(b) < D(i) \/ (D(b) = D(i) /\ b <= i)
  BY DEF NearestCentroid
<1> HIDE DEF I, D
<1>10. (CHOOSE b \in I : \A i \in I : D(b) < D(i) \/ (D(b) = D(i) /\ b <= i)) \in I
  BY <1>8, Zenon
<1>11. QED
  BY <1>9, <1>10 DEF I

\* A codec of the runs, and vectors of its size.
Codes(codec, d) ==
  /\ d \in Nat /\ IsRotation(codec.rotation, d)
  /\ IsCodebook(codec.codebook) /\ Len(codec.codebook) = 4
  /\ codec.qjl \in Seq([1 .. d -> Int])

\* The bits of the signs are read as they were written.
LEMMA SignsReadBack ==
  ASSUME NEW n, n \in Nat, NEW m, DOMAIN m = 1 .. n, NEW r, NEW j, j \in 1 .. n
  PROVE  LET bytes == Pack(SignBits(Rotate(m, r)), 1)
         IN  /\ (bytes[(j - 1) \div 8 + 1] \div 2 ^ ((j - 1) % 8)) % 2 = 1 <=> Dot(m[j], r) >= 0
             /\ ReadAt(bytes, 1, j - 1) = 1 <=> Dot(m[j], r) >= 0
<1> DEFINE values == SignBits(Rotate(m, r))
<1>1. DOMAIN Rotate(m, r) = 1 .. n /\ Rotate(m, r)[j] = Dot(m[j], r)
  BY DEF Rotate
<1>2. values \in [1 .. n -> 0 .. 1] /\ values[j] = IF Dot(m[j], r) >= 0 THEN 1 ELSE 0
  BY <1>1 DEF SignBits
<1> HIDE DEF values
<1>3. /\ (Pack(values, 1)[(j - 1) \div 8 + 1] \div 2 ^ ((j - 1) % 8)) % 2 = values[j]
      /\ ReadAt(Pack(values, 1), 1, j - 1) = values[j]
  BY <1>2, PackedOne
<1>4. QED
  BY <1>2, <1>3 DEF values

\* What is left of a vector beside its centroids.
Centroids(codec, d, x) == [i \in 1 .. d |-> Centroid(codec.codebook, Quantize(codec.codebook, x[i]))]
Rest(codec, d, x) == [i \in 1 .. d |-> x[i] - Centroid(codec.codebook, Quantize(codec.codebook, x[i]))]

\* The two make up the vector, and a code takes two bits.
LEMMA CentroidsAre ==
  ASSUME NEW codec, NEW d, Codes(codec, d), NEW x, Vec(x, d)
  PROVE  /\ Vec(Centroids(codec, d, x), d) /\ Vec(Rest(codec, d, x), d)
         /\ \A i \in 1 .. d : x[i] = Centroids(codec, d, x)[i] + Rest(codec, d, x)[i]
         /\ \A i \in 1 .. d : Quantize(codec.codebook, x[i]) \in 0 .. 3
<1> DEFINE cb == codec.codebook
<1>1. d \in Nat /\ IsCodebook(cb) /\ Len(cb) = 4 /\ \A i \in 1 .. d : x[i] \in Int
  BY DEF Codes, Vec
<1>2. \A i \in 1 .. 4 : cb[i] \in Int
  BY <1>1, CentroidsAscend
<1> HIDE DEF cb
<1>3. \A i \in 1 .. d : Quantize(cb, x[i]) \in 0 .. 3
  <2> SUFFICES ASSUME NEW i \in 1 .. d PROVE Quantize(cb, x[i]) \in 0 .. 3
    OBVIOUS
  <2>1. x[i] \in Int
    BY <1>1
  <2>2. Quantize(cb, x[i]) \in 0 .. Len(cb) - 1
    BY <1>1, <2>1, QuantizeIs
  <2>3. QED
    BY <1>1, <2>2
<1>4. \A i \in 1 .. d : Centroid(cb, Quantize(cb, x[i])) \in Int
  BY <1>2, <1>3 DEF Centroid
<1>5. \A p, q \in Int : p - q \in Int /\ p = q + (p - q)
  OBVIOUS
<1>6. QED
  BY <1>1, <1>3, <1>4, <1>5 DEF Centroids, Rest, Vec, cb

\* turbo_prod.rs: the sum over the table is the product with the centroids.
LEMMA TableSumIs ==
  ASSUME NEW codec, NEW d, Codes(codec, d), NEW x, Vec(x, d), NEW y, Vec(y, d),
         NEW table, table = [i \in 1 .. d |-> [k \in DOMAIN codec.codebook |-> y[i] * codec.codebook[k]]]
  PROVE  TableSum(table, Pack([i \in 1 .. d |-> Quantize(codec.codebook, x[i])], 2)) =
           Dot(y, Centroids(codec, d, x))
<1> DEFINE values == [i \in 1 .. d |-> Quantize(codec.codebook, x[i])]
           bytes == Pack(values, 2)
<1>1. values \in [1 .. d -> 0 .. 3] /\ d \in Nat /\ DOMAIN y = 1 .. d
  <2>1. \A i \in 1 .. d : Quantize(codec.codebook, x[i]) \in 0 .. 3
    BY CentroidsAre
  <2>2. QED
    BY <2>1 DEF Vec
<1>2. DOMAIN codec.codebook = 1 .. 4
  BY CentroidsAscend DEF Codes, IsCodebook
<1>3. ASSUME NEW i \in 1 .. d
      PROVE  table[i][((bytes[(i - 1) \div 4 + 1] \div 4 ^ ((i - 1) % 4)) % 4) + 1] =
               y[i] * Centroids(codec, d, x)[i]
  <2> HIDE DEF values
  <2>1. (bytes[(i - 1) \div 4 + 1] \div 4 ^ ((i - 1) % 4)) % 4 = values[i]
    BY <1>1, PackedTwo
  <2> HIDE DEF bytes
  <2>2. values[i] \in 0 .. 3
    BY <1>1
  <2>3. values[i] + 1 \in DOMAIN codec.codebook
    BY <1>2, <2>2
  <2>4. table[i][values[i] + 1] = y[i] * codec.codebook[values[i] + 1]
    BY <2>3
  <2>5. Centroids(codec, d, x)[i] = codec.codebook[values[i] + 1]
    BY DEF Centroids, Centroid, values
  <2>6. QED
    BY <2>1, <2>4, <2>5
<1>4. TableSum(table, bytes) = SumFunction([i \in 1 .. d |-> y[i] * Centroids(codec, d, x)[i]])
  <2>1. DOMAIN table = 1 .. d
    OBVIOUS
  <2> HIDE DEF bytes
  <2>2. QED
    BY <1>3, <2>1 DEF TableSum
<1>5. Dot(y, Centroids(codec, d, x)) = SumFunction([i \in 1 .. d |-> y[i] * Centroids(codec, d, x)[i]])
  BY <1>1 DEF Dot
<1>6. QED
  BY <1>4, <1>5

\* turbo_prod.rs: what the packed bytes score is of the vector they were made of.
LEMMA ScoreIs ==
  ASSUME NEW codec, NEW d, Codes(codec, d), NEW v, Vec(v.unit, d), NEW q, Vec(q, d)
  PROVE  LET s == Score(PrepareQuery(codec, q), Encode(codec, v))
             x == Rotate(codec.rotation, v.unit)
             y == Rotate(codec.rotation, q)
             r == [i \in DOMAIN x |-> x[i] - Centroid(codec.codebook, Quantize(codec.codebook, x[i]))]
         IN  /\ s.mse + Dot(y, r) = Dot(q, v.unit)
             /\ s.signed = SumFunction([j \in DOMAIN codec.qjl |-> IF Dot(codec.qjl[j], r) >= 0
                                                                   THEN Dot(codec.qjl[j], y)
                                                                   ELSE -Dot(codec.qjl[j], y)])
             /\ s.gamma2 = Dot(r, r) /\ s.norm = v.norm
<1> DEFINE s == Score(PrepareQuery(codec, q), Encode(codec, v))
           x == Rotate(codec.rotation, v.unit)
           y == Rotate(codec.rotation, q)
           r == [i \in DOMAIN x |-> x[i] - Centroid(codec.codebook, Quantize(codec.codebook, x[i]))]
           query == PrepareQuery(codec, q)
           record == Encode(codec, v)
<1>1. Square(codec.rotation, d)
  BY DEF Codes, IsRotation, Square
<1>2. Vec(x, d) /\ Vec(y, d)
  BY <1>1, RotateIs
<1>3. DOMAIN x = 1 .. d /\ DOMAIN y = 1 .. d /\ r = Rest(codec, d, x)
  BY <1>2 DEF Vec, Rest
<1>4. /\ record.idx = Pack([i \in 1 .. d |-> Quantize(codec.codebook, x[i])], 2)
      /\ record.signs = Pack(SignBits(Rotate(codec.qjl, r)), 1)
      /\ record.gamma2 = Dot(r, r) /\ record.norm = v.norm
  BY <1>3 DEF Encode, Residual
<1>5. /\ query.table = [i \in 1 .. d |-> [k \in DOMAIN codec.codebook |-> y[i] * codec.codebook[k]]]
      /\ query.projected = [j \in DOMAIN codec.qjl |-> Dot(codec.qjl[j], y)]
  BY <1>3 DEF PrepareQuery
<1>6. /\ s.mse = TableSum(query.table, record.idx) /\ s.signed = SignedSum(query.projected, record.signs)
      /\ s.gamma2 = record.gamma2 /\ s.norm = record.norm
  BY DEF Score
<1> HIDE DEF s, query, record, x, y, r
<1>7. s.mse + Dot(y, r) = Dot(q, v.unit)
  <2>1. s.mse = Dot(y, Centroids(codec, d, x))
    <3> DEFINE table == query.table
    <3>1. table = [i \in 1 .. d |-> [k \in DOMAIN codec.codebook |-> y[i] * codec.codebook[k]]]
      BY <1>5
    <3> HIDE DEF table
    <3>2. TableSum(table, Pack([i \in 1 .. d |-> Quantize(codec.codebook, x[i])], 2)) =
            Dot(y, Centroids(codec, d, x))
      BY <1>2, <3>1, TableSumIs
    <3>3. QED
      BY <1>4, <1>6, <3>2 DEF table
  <2>2. /\ Vec(Centroids(codec, d, x), d) /\ Vec(Rest(codec, d, x), d)
        /\ \A i \in 1 .. d : x[i] = Centroids(codec, d, x)[i] + Rest(codec, d, x)[i]
    BY <1>2, CentroidsAre
  <2>3. Dot(y, Centroids(codec, d, x)) + Dot(y, Rest(codec, d, x)) = Dot(y, x)
    BY <1>2, <2>2, DotPlus
  <2>4. Dot(y, x) = Dot(q, v.unit)
    <3>1. IsRotation(codec.rotation, d)
      BY DEF Codes
    <3> DEFINE u == v.unit
               m == codec.rotation
    <3>2. Vec(u, d) /\ IsRotation(m, d)
      BY <3>1
    <3> HIDE DEF u, m
    <3>3. Dot(Rotate(m, q), Rotate(m, u)) = Dot(q, u)
      BY <3>2, RotationKeepsProducts
    <3>4. QED
      BY <3>3 DEF u, m, x, y
  <2>5. QED
    BY <1>3, <2>1, <2>3, <2>4
<1>8. s.signed = SumFunction([j \in DOMAIN codec.qjl |-> IF Dot(codec.qjl[j], r) >= 0
                                                         THEN Dot(codec.qjl[j], y)
                                                         ELSE -Dot(codec.qjl[j], y)])
  <2> DEFINE qjl == codec.qjl
             n == Len(qjl)
             bytes == Pack(SignBits(Rotate(qjl, r)), 1)
             p == [j \in DOMAIN qjl |-> Dot(qjl[j], y)]
  <2>1. n \in Nat /\ DOMAIN qjl = 1 .. n
    BY DEF Codes
  <2>2. s.signed = SignedSum(p, bytes)
    BY <1>4, <1>5, <1>6
  <2> HIDE DEF qjl
  <2>3. ASSUME NEW j \in DOMAIN qjl
        PROVE  (IF (bytes[(j - 1) \div 8 + 1] \div 2 ^ ((j - 1) % 8)) % 2 = 1 THEN p[j] ELSE -p[j]) =
                 IF Dot(qjl[j], r) >= 0 THEN Dot(qjl[j], y) ELSE -Dot(qjl[j], y)
    <3>1. p[j] = Dot(qjl[j], y)
      OBVIOUS
    <3> HIDE DEF n
    <3>2. (bytes[(j - 1) \div 8 + 1] \div 2 ^ ((j - 1) % 8)) % 2 = 1 <=> Dot(qjl[j], r) >= 0
      BY <2>1, SignsReadBack
    <3> HIDE DEF bytes, p
    <3>3. QED
      BY <3>1, <3>2
  <2>4. SignedSum(p, bytes) = SumFunction([j \in DOMAIN qjl |-> IF Dot(qjl[j], r) >= 0
                                                         THEN Dot(qjl[j], y)
                                                         ELSE -Dot(qjl[j], y)])
    <3>1. DOMAIN p = DOMAIN qjl
      OBVIOUS
    <3> HIDE DEF bytes, p
    <3>2. QED
      BY <2>3, <3>1 DEF SignedSum
  <2>5. QED
    BY <2>2, <2>4 DEF qjl
<1>9. s.gamma2 = Dot(r, r) /\ s.norm = v.norm
  BY <1>4, <1>6
<1>10. QED
  BY <1>7, <1>8, <1>9 DEF s, x, y, r

\* turbo_codec.rs: so do those of the legacy codec, up to the signs it reads.
LEMMA LegacyScoreIs ==
  ASSUME NEW codec, NEW d, Codes(codec, d), NEW u, Vec(u, d), NEW q, Vec(q, d)
  PROVE  LET centroids == [i \in 1 .. d |-> codec.codebook]
             record == LegacyEncode(centroids, codec.rotation, u)
             r == [i \in 1 .. d |-> u[i] - Centroid(centroids[i], NearestCentroid(centroids[i], u[i]))]
             s == LegacyScore(centroids, codec.rotation, q, record)
         IN  /\ s.mse + Dot(q, r) = Dot(q, u)
             /\ \A j \in 1 .. d : (ReadAt(record.signs, 1, j - 1) = 1) = (Dot(codec.rotation[j], r) >= 0)
<1> DEFINE cb == codec.codebook
           m == codec.rotation
           centroids == [i \in 1 .. d |-> cb]
           record == LegacyEncode(centroids, m, u)
           idx == [i \in 1 .. d |-> NearestCentroid(cb, u[i])]
           c == [i \in 1 .. d |-> Centroid(cb, idx[i])]
           r == [i \in 1 .. d |-> u[i] - Centroid(cb, NearestCentroid(cb, u[i]))]
           s == LegacyScore(centroids, m, q, record)
<1>1. /\ d \in Nat /\ IsCodebook(cb) /\ Len(cb) = 4 /\ DOMAIN m = 1 .. d
      /\ DOMAIN u = 1 .. d /\ DOMAIN q = 1 .. d /\ \A i \in 1 .. d : u[i] \in Int
  BY DEF Codes, Vec, IsRotation
<1>2. \A i \in 1 .. 4 : cb[i] \in Int
  BY <1>1, CentroidsAscend
<1>3. \A i \in 1 .. d : NearestCentroid(cb, u[i]) \in 0 .. 3
  <2> HIDE DEF cb
  <2> SUFFICES ASSUME NEW i \in 1 .. d PROVE NearestCentroid(cb, u[i]) \in 0 .. 3
    OBVIOUS
  <2>1. u[i] \in Int
    BY <1>1
  <2>2. NearestCentroid(cb, u[i]) \in 0 .. Len(cb) - 1
    BY <1>1, <2>1, NearestIs
  <2>3. QED
    BY <1>1, <2>2
<1>4. idx \in [1 .. d -> 0 .. 3] /\ \A i \in 1 .. d : idx[i] = NearestCentroid(cb, u[i])
  BY <1>3
<1>5. record.idx = Pack(idx, 2) /\ record.signs = Pack(SignBits(Rotate(m, r)), 1)
  <2>1. \A i \in 1 .. d : centroids[i] = cb
    OBVIOUS
  <2>2. idx = [i \in DOMAIN u |-> NearestCentroid(centroids[i], u[i])]
    BY <1>1
  <2>3. r = [i \in DOMAIN u |-> u[i] - Centroid(centroids[i], idx[i])]
    BY <1>1
  <2> HIDE DEF idx, r, centroids, m
  <2>4. QED
    BY <2>2, <2>3 DEF LegacyEncode
<1>6. s.mse = SumFunction([i \in 1 .. d |-> q[i] * Centroid(cb, ReadAt(record.idx, 2, i - 1))])
  <2>1. s.mse = SumFunction([i \in DOMAIN q |-> q[i] * Centroid(centroids[i], ReadAt(record.idx, 2, i - 1))])
    BY DEF LegacyScore
  <2> HIDE DEF record
  <2>2. [i \in DOMAIN q |-> q[i] * Centroid(centroids[i], ReadAt(record.idx, 2, i - 1))] =
          [i \in 1 .. d |-> q[i] * Centroid(cb, ReadAt(record.idx, 2, i - 1))]
    BY <1>1
  <2> HIDE DEF s
  <2>3. QED
    BY <2>1, <2>2
<1>7. \A i \in 1 .. d : ReadAt(record.idx, 2, i - 1) = idx[i]
  <2> HIDE DEF record, idx
  <2>1. ASSUME NEW i \in 1 .. d PROVE ReadAt(Pack(idx, 2), 2, i - 1) = idx[i]
    <3> HIDE DEF cb, m
    <3>1. idx \in [1 .. d -> 0 .. 3] /\ d \in Nat
      BY <1>1, <1>4
    <3>2. /\ (Pack(idx, 2)[(i - 1) \div 4 + 1] \div 4 ^ ((i - 1) % 4)) % 4 = idx[i]
          /\ ReadAt(Pack(idx, 2), 2, i - 1) = idx[i]
      BY <3>1, PackedTwo
    <3>3. QED
      BY <3>2
  <2>2. QED
    BY <1>5, <2>1
<1>8. Vec(c, d) /\ Vec(r, d) /\ \A i \in 1 .. d : u[i] = c[i] + r[i]
  <2> HIDE DEF idx
  <2>1. \A i \in 1 .. d : Centroid(cb, idx[i]) \in Int
    <3> HIDE DEF cb
    <3>1. QED
      BY <1>2, <1>3, <1>4 DEF Centroid
  <2>2. \A i \in 1 .. d : c[i] = Centroid(cb, idx[i]) /\ r[i] = u[i] - Centroid(cb, idx[i])
    BY <1>4
  <2>3. c = [i \in 1 .. d |-> c[i]] /\ r = [i \in 1 .. d |-> r[i]]
    OBVIOUS
  <2> HIDE DEF c, r, cb
  <2>4. \A i \in 1 .. d : c[i] \in Int /\ r[i] \in Int /\ u[i] = c[i] + r[i]
    BY <1>1, <2>1, <2>2
  <2>5. QED
    BY <1>1, <2>3, <2>4 DEF Vec
<1>9. s.mse = Dot(q, c)
  <2>1. [i \in 1 .. d |-> q[i] * Centroid(cb, ReadAt(record.idx, 2, i - 1))] = [i \in 1 .. d |-> q[i] * c[i]]
    <3> HIDE DEF idx, record
    <3>1. QED
      BY <1>7
  <2> HIDE DEF s, record, c
  <2>2. Dot(q, c) = SumFunction([i \in 1 .. d |-> q[i] * c[i]])
    BY <1>1 DEF Dot
  <2>3. QED
    BY <1>6, <2>1, <2>2
<1>10. s.mse + Dot(q, r) = Dot(q, u)
  <2> HIDE DEF s, c, r
  <2>1. Dot(q, c) + Dot(q, r) = Dot(q, u)
    BY <1>8, DotPlus
  <2>2. QED
    BY <1>9, <2>1
<1>11. ASSUME NEW j \in 1 .. d PROVE (ReadAt(record.signs, 1, j - 1) = 1) = (Dot(m[j], r) >= 0)
  <2> HIDE DEF m, r, record
  <2>1. ReadAt(Pack(SignBits(Rotate(m, r)), 1), 1, j - 1) = 1 <=> Dot(m[j], r) >= 0
    BY <1>1, SignsReadBack
  <2>2. QED
    BY <1>5, <2>1
<1>12. r = [i \in 1 .. d |-> u[i] - Centroid(centroids[i], NearestCentroid(centroids[i], u[i]))]
  OBVIOUS
<1>13. QED
  <2> HIDE DEF s, record, r
  <2>1. QED
    BY <1>10, <1>11, <1>12 DEF s, record

-------------------------------------------------------------------------------
(* The sampler: a stream goes on over rows as over single values. *)

\* Two functions that start alike and stay alike end alike.
LEMMA AlikeToTheEnd ==
  ASSUME NEW n, n \in Nat, NEW f, NEW g, f[0] = g[0],
         \A i \in 1 .. n : f[i - 1] = g[i - 1] => f[i] = g[i]
  PROVE  f[n] = g[n]
<1> DEFINE Bad == {i \in 0 .. n : f[i] # g[i]}
<1>1. SUFFICES ASSUME Bad # {} PROVE FALSE
  BY <1>1
<1>2. Bad \in SUBSET Nat
  OBVIOUS
<1>3. PICK i \in Bad : \A j \in Bad : i <= j
  <2> HIDE DEF Bad
  <2>1. QED
    BY <1>1, <1>2, LeastNatural
<1>4. i \in 1 .. n /\ i - 1 \in 0 .. n /\ f[i] # g[i]
  OBVIOUS
<1>5. i - 1 \notin Bad
  <2> HIDE DEF Bad
  <2>1. QED
    BY <1>3, <1>4
<1>6. QED
  BY <1>4, <1>5

\* The first k values of the stream, and the stream that has drawn them.
Values(k) ==
  [i \in 1 .. k |-> [word |-> 2 * ((i - 1) \div 2), half |-> IF i % 2 = 1 THEN "cos" ELSE "sin"]]
Drawn(k) ==
  [word |-> 2 * ((k + 1) \div 2),
   pending |-> IF k % 2 = 1 THEN [word |-> k - 1, half |-> "sin"] ELSE NoPending,
   out |-> Values(k)]

\* A value more.
LEMMA NextIsDrawn ==
  ASSUME NEW k, k \in Nat
  PROVE  NextValue(Drawn(k)) = Drawn(k + 1)
<1> DEFINE s == Drawn(k)
<1>1. s.word = 2 * ((k + 1) \div 2) /\ s.out = Values(k)
  BY DEF Drawn
<1>2. \A e : e = [word |-> 2 * (k \div 2), half |-> IF (k + 1) % 2 = 1 THEN "cos" ELSE "sin"]
             => Append(Values(k), e) = Values(k + 1)
  <2> SUFFICES ASSUME NEW e, e = [word |-> 2 * (k \div 2), half |-> IF (k + 1) % 2 = 1 THEN "cos" ELSE "sin"]
               PROVE  Append(Values(k), e) = Values(k + 1)
    OBVIOUS
  <2> DEFINE E(i) == [word |-> 2 * ((i - 1) \div 2), half |-> IF i % 2 = 1 THEN "cos" ELSE "sin"]
  <2>1. Values(k) = [i \in 1 .. k |-> E(i)] /\ Values(k + 1) = [i \in 1 .. k + 1 |-> E(i)]
    BY DEF Values
  <2>2. E(k + 1) = e
    <3>1. k + 1 - 1 = k
      OBVIOUS
    <3>2. QED
      BY <3>1
  <2> HIDE DEF E
  <2>3. Append([i \in 1 .. k |-> E(i)], E(k + 1)) = [i \in 1 .. k + 1 |-> E(i)]
    <3>1. Len([i \in 1 .. k |-> E(i)]) = k
      OBVIOUS
    <3>2. QED
      BY <3>1
  <2>4. QED
    BY <2>1, <2>2, <2>3
<1>3. CASE k % 2 = 1
  <2>1. s.pending = [word |-> k - 1, half |-> "sin"]
    BY <1>3 DEF Drawn
  <2>2. s.pending # NoPending
    BY <2>1 DEF NoPending
  <2>3. NextValue(s) = [s EXCEPT !.pending = NoPending, !.out = Append(@, s.pending)]
    BY <2>2 DEF NextValue
  <2>4. NextValue(s) = [word |-> s.word, pending |-> NoPending, out |-> Append(s.out, s.pending)]
    BY <2>3 DEF Drawn
  <2>5. k - 1 = 2 * (k \div 2) /\ (k + 1) % 2 = 0 /\ (k + 1 + 1) \div 2 = (k + 1) \div 2
    BY <1>3
  <2>6. Append(s.out, s.pending) = Values(k + 1)
    BY <1>1, <1>2, <2>1, <2>5
  <2>7. Drawn(k + 1) = [word |-> 2 * ((k + 1 + 1) \div 2), pending |-> NoPending, out |-> Values(k + 1)]
    <3>1. (k + 1) % 2 # 1
      BY <2>5
    <3>2. QED
      BY <3>1, Zenon DEF Drawn
  <2> HIDE DEF s
  <2>8. NextValue(s) = Drawn(k + 1)
    BY <1>1, <2>4, <2>5, <2>6, <2>7, Zenon
  <2>9. QED
    BY <2>8 DEF s
<1>4. CASE k % 2 # 1
  <2>1. s.pending = NoPending
    BY <1>4 DEF Drawn
  <2>2. NextValue(s) = [word |-> s.word + 2, pending |-> [word |-> s.word, half |-> "sin"],
                        out |-> Append(s.out, [word |-> s.word, half |-> "cos"])]
    BY <2>1 DEF NextValue
  <2>3. /\ s.word = k /\ k = 2 * (k \div 2) /\ (k + 1) % 2 = 1
        /\ k + 2 = 2 * ((k + 1 + 1) \div 2) /\ k + 1 - 1 = k
    BY <1>1, <1>4
  <2>4. Append(s.out, [word |-> s.word, half |-> "cos"]) = Values(k + 1)
    BY <1>1, <1>2, <2>3
  <2>5. Drawn(k + 1) = [word |-> 2 * ((k + 1 + 1) \div 2), pending |-> [word |-> k + 1 - 1, half |-> "sin"],
                        out |-> Values(k + 1)]
    <3>1. (k + 1) % 2 = 1
      BY <2>3
    <3>2. QED
      BY <3>1 DEF Drawn
  <2> HIDE DEF s
  <2>6. s.word + 2 = 2 * ((k + 1 + 1) \div 2) /\ k + 1 - 1 = s.word
    BY <2>3
  <2>7. NextValue(s) = Drawn(k + 1)
    BY <2>2, <2>4, <2>5, <2>6, Zenon
  <2>8. QED
    BY <2>7 DEF s
<1>5. QED
  BY <1>3, <1>4

\* gaussian.rs: filling through the stream goes on where the last fill ended.
LEMMA FillIsDrawn ==
  ASSUME NEW k, k \in Nat, NEW n, n \in Nat
  PROVE  Fill(Drawn(k), n) = Drawn(k + n)
<1> DEFINE s == Drawn(k)
           Step(g) == [i \in 0 .. n |-> IF i = 0 THEN s ELSE NextValue(g[i - 1])]
           f == [i \in 0 .. n |-> Drawn(k + i)]
           c == CHOOSE g : g = Step(g)
<1>1. f = Step(f)
  <2>1. ASSUME NEW i \in 0 .. n, i # 0 PROVE f[i] = NextValue(f[i - 1])
    <3>1. i - 1 \in 0 .. n /\ k + (i - 1) \in Nat /\ k + (i - 1) + 1 = k + i
      BY <2>1
    <3>2. f[i - 1] = Drawn(k + (i - 1)) /\ f[i] = Drawn(k + i)
      BY <3>1
    <3>3. NextValue(Drawn(k + (i - 1))) = Drawn(k + (i - 1) + 1)
      BY <3>1, NextIsDrawn
    <3>4. QED
      BY <3>1, <3>2, <3>3
  <2>2. f[0] = s
    <3>1. k + 0 = k /\ 0 \in 0 .. n
      OBVIOUS
    <3>2. QED
      BY <3>1
  <2>3. f = [i \in 0 .. n |-> f[i]]
    OBVIOUS
  <2> HIDE DEF f, s
  <2>4. QED
    BY <2>1, <2>2, <2>3
<1> HIDE DEF f
<1>2. c = Step(c)
  BY <1>1, Zenon
<1>3. Fill(s, n) = c[n]
  BY Zenon DEF Fill
<1> HIDE DEF c, s
<1>4. c[0] = f[0]
  BY <1>1, <1>2
<1>5. ASSUME NEW i \in 1 .. n, c[i - 1] = f[i - 1] PROVE c[i] = f[i]
  <2>1. i \in 0 .. n /\ i # 0
    OBVIOUS
  <2>2. c[i] = NextValue(c[i - 1]) /\ f[i] = NextValue(f[i - 1])
    BY <1>1, <1>2, <2>1
  <2>3. QED
    BY <1>5, <2>2
<1>6. c[n] = f[n]
  BY <1>4, <1>5, AlikeToTheEnd
<1>7. QED
  BY <1>3, <1>6 DEF f, s

\* qjl.rs: row by row, the rows of a sketch are the first values of its stream.
LEMMA RowsAreDrawn ==
  ASSUME NEW dim, dim \in Nat, NEW rows, rows \in Nat
  PROVE  DrawnRows(dim, rows) = Values(dim * rows)
<1> DEFINE Step(g) == [i \in 0 .. rows |-> IF i = 0 THEN NewStream ELSE Fill(g[i - 1], dim)]
           f == [i \in 0 .. rows |-> Drawn(dim * i)]
           c == CHOOSE g : g = Step(g)
<1>1. \A i \in 0 .. rows : dim * i \in Nat /\ (i # 0 => i - 1 \in 0 .. rows /\ dim * i = dim * (i - 1) + dim)
  OBVIOUS
<1>2. f = Step(f)
  <2>1. ASSUME NEW i \in 0 .. rows, i # 0 PROVE f[i] = Fill(f[i - 1], dim)
    <3>1. i - 1 \in 0 .. rows /\ dim * (i - 1) \in Nat /\ dim * i = dim * (i - 1) + dim
      BY <1>1, <2>1
    <3>2. f[i - 1] = Drawn(dim * (i - 1)) /\ f[i] = Drawn(dim * i)
      BY <3>1, Zenon
    <3>3. Fill(Drawn(dim * (i - 1)), dim) = Drawn(dim * (i - 1) + dim)
      <4> DEFINE k == dim * (i - 1)
      <4>1. k \in Nat
        BY <3>1
      <4> HIDE DEF k
      <4>2. Fill(Drawn(k), dim) = Drawn(k + dim)
        BY <4>1, FillIsDrawn
      <4>3. QED
        BY <4>2 DEF k
    <3>4. QED
      BY <3>1, <3>2, <3>3, Zenon
  <2>2. f[0] = NewStream
    <3>1. dim * 0 = 0 /\ 0 \in 0 .. rows
      OBVIOUS
    <3>2. Drawn(0) = NewStream
      <4>1. Values(0) = <<>>
        BY DEF Values
      <4>2. 2 * ((0 + 1) \div 2) = 0 /\ 0 % 2 # 1
        OBVIOUS
      <4>3. QED
        BY <4>1, <4>2 DEF Drawn, NewStream
    <3>3. QED
      BY <3>1, <3>2
  <2>3. f = [i \in 0 .. rows |-> f[i]]
    OBVIOUS
  <2> HIDE DEF f
  <2>4. QED
    BY <2>1, <2>2, <2>3
<1> HIDE DEF f
<1>3. c = Step(c)
  BY <1>2, Zenon
<1>4. DrawnRows(dim, rows) = c[rows].out
  BY Zenon DEF DrawnRows
<1> HIDE DEF c
<1>5. c[0] = f[0]
  BY <1>2, <1>3
<1>6. ASSUME NEW i \in 1 .. rows, c[i - 1] = f[i - 1] PROVE c[i] = f[i]
  <2>1. i \in 0 .. rows /\ i # 0
    OBVIOUS
  <2>2. c[i] = Fill(c[i - 1], dim) /\ f[i] = Fill(f[i - 1], dim)
    BY <1>2, <1>3, <2>1
  <2>3. QED
    BY <1>6, <2>2
<1>7. c[rows] = f[rows]
  BY <1>5, <1>6, AlikeToTheEnd
<1>8. f[rows].out = Values(dim * rows)
  <2>1. rows \in 0 .. rows
    OBVIOUS
  <2>2. f[rows] = Drawn(dim * rows)
    BY <2>1, Zenon DEF f
  <2> DEFINE k == dim * rows
  <2> HIDE DEF k
  <2>3. Drawn(k).out = Values(k)
    BY DEF Drawn
  <2>4. QED
    BY <2>2, <2>3 DEF k
<1>9. QED
  BY <1>4, <1>7, <1>8

-------------------------------------------------------------------------------
(* The codec, whatever it is given. *)

\* What a coordinate or a vector is given with.
CodecInv ==
  /\ given.what = "coordinate" => given.codebook \in Codebooks /\ given.x \in Coordinates
  /\ given.what = "rows" => given.dim \in Nat /\ given.rows \in Nat
  /\ given.what = "vector" =>
       /\ given.codec \in Codecs /\ given.query \in Queries
       /\ given.vector.unit \in [1 .. Len(given.codec.rotation) -> Coordinates]

\* A codec is given what the constants allow.
LEMMA CodecInvariant == CodecSpec => []CodecInv
<1>1. CodecInit => CodecInv
  BY DEF CodecInit, Nothing, CodecInv
<1>2. CodecInv /\ [CodecNext]_given => CodecInv'
  <2> SUFFICES ASSUME CodecInv, [CodecNext]_given PROVE CodecInv'
    OBVIOUS
  <2>1. CASE GivenCoordinate
    BY <2>1 DEF GivenCoordinate, CodecInv
  <2>2. CASE GivenMatrix
    BY <2>2 DEF GivenMatrix, CodecInv
  <2>3. CASE GivenRows
    BY <2>3, CodecConstants DEF GivenRows, CodecInv
  <2>4. CASE GivenVector
    <3>1. PICK codec \in Codecs, y \in Queries, finite \in BOOLEAN :
            \E x \in [1 .. Len(codec.rotation) -> (Coordinates \cap (-1 .. 1))] :
              given' = [what |-> "vector", codec |-> codec, query |-> y,
                        vector |-> [unit |-> x, norm |-> IF Dot(x, x) = 0 THEN 0 ELSE 2, finite |-> finite]]
      BY <2>4 DEF GivenVector
    <3>2. PICK x \in [1 .. Len(codec.rotation) -> (Coordinates \cap (-1 .. 1))] :
            given' = [what |-> "vector", codec |-> codec, query |-> y,
                      vector |-> [unit |-> x, norm |-> IF Dot(x, x) = 0 THEN 0 ELSE 2, finite |-> finite]]
      BY <3>1
    <3>3. /\ given'.what = "vector" /\ given'.codec = codec /\ given'.query = y /\ given'.vector.unit = x
      BY <3>2
    <3>4. x \in [1 .. Len(codec.rotation) -> Coordinates]
      OBVIOUS
    <3>5. QED
      BY <3>3, <3>4 DEF CodecInv
  <2>5. CASE UNCHANGED given
    BY <2>5 DEF CodecInv
  <2>6. QED
    BY <2>1, <2>2, <2>3, <2>4, <2>5 DEF CodecNext
<1>3. QED
  BY <1>1, <1>2, PTL DEF CodecSpec

\* codebook.rs: encode.
LEMMA InvEncodeIsNearest == CodecInv => EncodeIsNearest
<1> SUFFICES ASSUME CodecInv, given.what = "coordinate",
                    NEW i \in 0 .. Len(given.codebook) - 1
             PROVE  LET c == given.codebook
                        D(j) == Distance(given.x, Centroid(c, j))
                        index == Quantize(c, given.x)
                    IN  D(index) < D(i) \/ (D(index) = D(i) /\ i <= index)
  BY DEF EncodeIsNearest
<1> DEFINE c == given.codebook
           x == given.x
<1>1. IsCodebook(c) /\ x \in Int
  BY CodecConstants DEF CodecInv
<1> HIDE DEF c, x
<1>2. i \in 0 .. Len(c) - 1
  BY DEF c
<1>3. \/ Distance(x, Centroid(c, Quantize(c, x))) < Distance(x, Centroid(c, i))
      \/ /\ Distance(x, Centroid(c, Quantize(c, x))) = Distance(x, Centroid(c, i))
         /\ i <= Quantize(c, x)
  BY <1>1, <1>2, CodeIsNearest
<1>4. QED
  BY <1>3 DEF c, x

\* The vector and the query are of the size of their codec.
LEMMA GivenCodes ==
  ASSUME CodecInv, given.what = "vector", NEW d, d = Len(given.codec.rotation)
  PROVE  Codes(given.codec, d) /\ Vec(given.vector.unit, d) /\ Vec(given.query, d)
<1>1. /\ d \in Nat /\ IsRotation(given.codec.rotation, d)
      /\ IsCodebook(given.codec.codebook) /\ Len(given.codec.codebook) = 4
      /\ given.codec.qjl \in Seq([1 .. d -> Int])
      /\ Queries \subseteq [1 .. d -> Int]
  BY CodecConstants DEF CodecInv
<1>2. given.vector.unit \in [1 .. d -> Int]
  BY CodecConstants DEF CodecInv
<1>3. given.query \in [1 .. d -> Int]
  BY <1>1 DEF CodecInv
<1>4. QED
  BY <1>1, <1>2, <1>3 DEF Codes, Vec

\* turbo_prod.rs: encode, prepare_query and score_breakdown.
LEMMA InvScoreIsOfTheVector == CodecInv => ScoreIsOfTheVector
<1> SUFFICES ASSUME CodecInv, given.what = "vector" PROVE ScoreIsOfTheVector
  BY DEF ScoreIsOfTheVector
<1> DEFINE codec == given.codec
           v == given.vector
           q == given.query
           d == Len(codec.rotation)
<1>1. Codes(codec, d) /\ Vec(v.unit, d) /\ Vec(q, d)
  BY GivenCodes
<1> HIDE DEF codec, v, q, d
<1>2. LET s == Score(PrepareQuery(codec, q), Encode(codec, v))
          x == Rotate(codec.rotation, v.unit)
          y == Rotate(codec.rotation, q)
          r == [i \in DOMAIN x |-> x[i] - Centroid(codec.codebook, Quantize(codec.codebook, x[i]))]
      IN  /\ s.mse + Dot(y, r) = Dot(q, v.unit)
          /\ s.signed = SumFunction([j \in DOMAIN codec.qjl |-> IF Dot(codec.qjl[j], r) >= 0
                                                                THEN Dot(codec.qjl[j], y)
                                                                ELSE -Dot(codec.qjl[j], y)])
          /\ s.gamma2 = Dot(r, r) /\ s.norm = v.norm
  BY <1>1, ScoreIs
<1>3. QED
  BY <1>2, Zenon DEF ScoreIsOfTheVector, codec, v, q

\* turbo_codec.rs: encode and score.
LEMMA InvLegacyReadsBack == CodecInv => LegacyReadsBack
<1> SUFFICES ASSUME CodecInv, given.what = "vector" PROVE LegacyReadsBack
  BY DEF LegacyReadsBack
<1> DEFINE codec == given.codec
           u == given.vector.unit
           q == given.query
           d == Len(codec.rotation)
<1>1. Codes(codec, d) /\ Vec(u, d) /\ Vec(q, d)
  BY GivenCodes
<1>2. Len(u) = d
  <2> HIDE DEF u, d
  <2>1. QED
    BY <1>1 DEF Vec
<1> HIDE DEF codec, u, q, d
<1>3. LET centroids == [i \in 1 .. d |-> codec.codebook]
          record == LegacyEncode(centroids, codec.rotation, u)
          r == [i \in 1 .. d |-> u[i] - Centroid(centroids[i], NearestCentroid(centroids[i], u[i]))]
          s == LegacyScore(centroids, codec.rotation, q, record)
      IN  /\ s.mse + Dot(q, r) = Dot(q, u)
          /\ \A j \in 1 .. d : (ReadAt(record.signs, 1, j - 1) = 1) = (Dot(codec.rotation[j], r) >= 0)
  BY <1>1, LegacyScoreIs
<1>4. QED
  BY <1>2, <1>3, Zenon DEF LegacyReadsBack, codec, u, q

\* For any codebook, rotation, sketch, vector and query: the code of a coordinate names the
\* nearest centroid (codebook.rs), the score of a record, its residual added, is the product
\* with the vector it was made of (turbo_prod.rs), and the legacy scorer reads the indices
\* and signs that were written, in a last byte that is not full too (turbo_codec.rs).
THEOREM CodesAlwaysOfTheVector == CodecSpec => []CodesAreOfTheVector
<1>1. CodecInv => CodesAreOfTheVector
  BY InvEncodeIsNearest, InvScoreIsOfTheVector, InvLegacyReadsBack DEF CodesAreOfTheVector
<1>2. QED
  BY <1>1, CodecInvariant, PTL

\* gaussian.rs, qjl.rs: a sketch of any size is the first values of its stream, row by row,
\* so that one with fewer rows is a prefix of one with more, for rows of odd length too.
THEOREM RowsAlwaysPrefix == CodecSpec => []RowsArePrefix
<1>1. CodecInv => RowsArePrefix
  <2> SUFFICES ASSUME CodecInv, given.what = "rows"
               PROVE  DrawnRows(given.dim, given.rows) = Values(given.dim * given.rows)
    BY Zenon DEF RowsArePrefix, Values
  <2>1. given.dim \in Nat /\ given.rows \in Nat
    BY DEF CodecInv
  <2>2. QED
    BY <2>1, RowsAreDrawn
<1>2. QED
  BY <1>1, CodecInvariant, PTL
===============================================================================
