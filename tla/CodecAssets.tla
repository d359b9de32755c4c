---------------------------- MODULE CodecAssets ----------------------------
(***************************************************************************)
(* The codec of a static release and the asset files it is kept in         *)
(* (index/codec_config.rs, assets.rs, rotation.rs, codebook.rs, qjl.rs,    *)
(* turbo_prod.rs): which configurations are legal, how an asset is written *)
(* and parsed, and when three assets make up one codec.                    *)
(*                                                                         *)
(* A file is its header words, the number of 4-byte values behind them,    *)
(* the odd bytes after the last value, and what the values are.            *)
(***************************************************************************)
EXTENDS Naturals, Sequences

CONSTANTS
  Dim,               \* the one dimension the codecs support (512)
  GeneratorVersion   \* what this build's generators produce

ASSUME CodecAssetsAssumption == Dim \in Nat \ {0}

Refused == [refused |-> TRUE]  \* what a parser or a build that fails returns

-----------------------------------------------------------------------------
(* TurboQuantConfig *)

NormPolicyOf(codec) == IF codec = "legacy_3bit_v1" THEN "as_is" ELSE "normalize_and_store"

LegacyV1 ==
  [codec |-> "legacy_3bit_v1", dim |-> Dim, mse_bits |-> 2, qjl_dim |-> Dim, mse_seed |-> <<7, 0>>,
   qjl_seed |-> <<11, 0>>, generator |-> 0, norm |-> "as_is"]

ProdV1 ==
  [codec |-> "turbo_quant_prod_v1", dim |-> Dim, mse_bits |-> 2, qjl_dim |-> Dim, mse_seed |-> <<163, 0>>,
   qjl_seed |-> <<165, 0>>, generator |-> GeneratorVersion, norm |-> "normalize_and_store"]

Validated(config) ==
  /\ config.dim > 0 /\ config.mse_bits \in 1 .. 4 /\ config.qjl_dim > 0
  /\ config.dim = Dim
  /\ config.norm = NormPolicyOf(config.codec)
  /\ config.codec = "legacy_3bit_v1" => config.mse_bits = 2 /\ config.qjl_dim = config.dim

(* to_v3_codec_metadata: the v3 section has no codec_id, generator or policy. *)
V3Section(config) ==
  [version |-> 3, dim |-> config.dim, centroids_per_dim |-> 2 ^ config.mse_bits,
   centroids_seed |-> config.mse_seed, projection_seed |-> config.qjl_seed]

(* to_v4_codec_metadata and back. *)
V4Section(config) == [version |-> 4, config |-> config]
FromV4Section(section) ==
  IF section.config.codec = "turbo_quant_prod_v1" /\ Validated(section.config)
  THEN section.config ELSE Refused

-----------------------------------------------------------------------------
(* Asset files *)

(* The magics "TQRT", "TQCB" and "TQJL", as words that are no size of the runs. *)
Magic == [rotation |-> 1001, codebook |-> 1002, qjl |-> 1003]

(* A seed, a u64, is two words.  What the generators draw; to_bytes puts the header before it. *)
RotationFile(dim, seed) ==
  [words |-> <<Magic.rotation, dim, seed[1], seed[2], GeneratorVersion>>,
   count |-> dim * dim, extra |-> 0, data |-> <<"rotation", dim, seed>>]
CodebookFile(dim, bits) ==
  [words |-> <<Magic.codebook, dim, bits>>, count |-> 2 ^ bits, extra |-> 0,
   data |-> <<"codebook", dim, bits>>]
QjlFile(dim, qjl_dim, seed) ==
  [words |-> <<Magic.qjl, dim, qjl_dim, seed[1], seed[2], GeneratorVersion>>,
   count |-> qjl_dim * dim, extra |-> 0, data |-> <<"qjl", dim, qjl_dim, seed>>]
CentroidsFile(dim, per_dim, seed) ==
  [words |-> <<dim, per_dim>>, count |-> dim * per_dim, extra |-> 0,
   data |-> <<"centroids", dim, per_dim, seed>>]
ProjectionFile(input, output, seed) ==
  [words |-> <<input, output>>, count |-> output * input, extra |-> 0,
   data |-> <<"projection", input, output, seed>>]

(* Values behind a header of n words, the file's own words beyond it included. *)
CountBehind(file, n) == Len(file.words) - n + file.count

(* parse_values *)
ParsedValues(file, n, first, second) ==
  first # 0 /\ second # 0 /\ file.extra = 0 /\ CountBehind(file, n) = first * second

(* A header that is cut short is refused for its size; one of another kind, by
   its first word. *)
HasHeader(file, n, magic) == Len(file.words) >= n /\ file.words[1] = magic

ParsedRotation(file) ==
  IF HasHeader(file, 5, Magic.rotation) /\ ParsedValues(file, 5, file.words[2], file.words[2])
  THEN [dim |-> file.words[2], seed |-> <<file.words[3], file.words[4]>>, generator |-> file.words[5],
        data |-> file.data]
  ELSE Refused

Ascending(data) == data[1] # "unsorted"

ParsedCodebook(file) ==
  IF /\ HasHeader(file, 3, Magic.codebook) /\ file.words[2] # 0 /\ file.words[3] \in 1 .. 4
     /\ ParsedValues(file, 3, 2 ^ file.words[3], 1)
     /\ Ascending(file.data)
  THEN [dim |-> file.words[2], bits |-> file.words[3], data |-> file.data]
  ELSE Refused

ParsedQjl(file) ==
  IF HasHeader(file, 6, Magic.qjl) /\ ParsedValues(file, 6, file.words[3], file.words[2])
  THEN [dim |-> file.words[2], qjl_dim |-> file.words[3], seed |-> <<file.words[4], file.words[5]>>,
        generator |-> file.words[6], data |-> file.data]
  ELSE Refused

(* CentroidTable and ProjectionMatrix: no magic, and a file of a header alone is
   too short. *)
ParsedLegacy(file) ==
  IF /\ Len(file.words) >= 2 /\ CountBehind(file, 2) + file.extra > 0
     /\ ParsedValues(file, 2, file.words[1], file.words[2])
  THEN [first |-> file.words[1], second |-> file.words[2], data |-> file.data]
  ELSE Refused

-----------------------------------------------------------------------------
(* TurboQuantProdV1 *)

CheckedConfig(config) ==
  Validated(config) /\ config.codec = "turbo_quant_prod_v1" /\ config.mse_bits = 2

(* The codebook this build has committed for (dim, bits). *)
CommittedCodebook(config) == <<"codebook", config.dim, config.mse_bits>>

FromAssets(config, rotation, codebook, qjl) ==
  IF /\ CheckedConfig(config)
     /\ rotation.dim = config.dim /\ rotation.seed = config.mse_seed
     /\ rotation.generator = config.generator
     /\ codebook.dim = config.dim /\ codebook.bits = config.mse_bits
     /\ qjl.dim = config.dim /\ qjl.qjl_dim = config.qjl_dim
     /\ qjl.seed = config.qjl_seed /\ qjl.generator = config.generator
     /\ codebook.data = CommittedCodebook(config)
  THEN [config |-> config, data |-> <<rotation.data, codebook.data, qjl.data>>]
  ELSE Refused

(* TurboQuantProdV1::generate: only this build's generators can produce a codec. *)
Generated(config) ==
  IF CheckedConfig(config) /\ config.generator = GeneratorVersion
  THEN [rotation |-> RotationFile(config.dim, config.mse_seed),
        codebook |-> CodebookFile(config.dim, config.mse_bits),
        qjl      |-> QjlFile(config.dim, config.qjl_dim, config.qjl_seed)]
  ELSE Refused

(* fingerprint: the canonical bytes of the config and the digests of the files by
   name; a digest is modelled by what it digests. *)
\* Mutant of Fingerprint: the files are left out of it.
FingerprintOfConfig(config, files) == <<config>>
Fingerprint(config, files) == <<config, files>>

IdxLen(config) == (config.dim + 3) \div 4
SignsLen(config) == (config.qjl_dim + 7) \div 8

(* TurboProdRecord512::holds_codes_of *)
HoldsCodesOf(config) == IdxLen(config) = IdxLen(ProdV1) /\ SignsLen(config) = SignsLen(ProdV1)
=============================================================================
