---------------------------- MODULE MCRevRegIndex ----------------------------
(* Small instances of RevRegIndex for TLC. *)
EXTENDS RevRegIndex

(* Batches with an issued index, an overlapping pair, and a batch with the *)
(* three rejected kinds: out of range (0, 5) and not yet issued (3).       *)
MCRequestSets == {{1}, {1, 2}, {2}, {0, 3, 5}}

(* Batches for the conflict-exhaustion scenario. *)
MCConflictRequestSets == {{1}}
=============================================================================
