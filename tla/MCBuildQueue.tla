---------------------------- MODULE MCBuildQueue ----------------------------
(* Small instances of BuildQueue for TLC. *)
EXTENDS BuildQueue

\* One nonce per worker that can hold a delivery of a batch, and one for its row.
MCNonces == 0 .. Cardinality(Workers)
=============================================================================
