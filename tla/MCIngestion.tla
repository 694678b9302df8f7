---------------------------- MODULE MCIngestion ----------------------------
(* Small instances of offline ingestion for TLC. *)
EXTENDS IngestionProperties, TLC

RunSymmetry == Permutations(Runs)
=============================================================================
