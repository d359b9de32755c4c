------------------------------ MODULE DocIdHash ------------------------------
(* The hash a static image stores of a doc_id (index/static_builder.rs).     *)
EXTENDS Naturals, SequencesExt, Bitwise

CONSTANT HashWidth   \* low bits of the hash that are kept

(* stable_hash_doc_id: FNV-1a, of which the low bits depend on low bits only. *)
StableHash(id) == FoldLeft(LAMBDA h, b : ((h ^^ b) * 435) % 2 ^ HashWidth, 8997 % 2 ^ HashWidth, id)
=============================================================================
