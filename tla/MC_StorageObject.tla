--------------------------- MODULE MC_StorageObject ----------------------------
(* An object with three requests of its owner, enough for a completion that   *)
(* is repeated, an abortion and a deletion to overlap.                        *)
EXTENDS StorageObject
=============================================================================
