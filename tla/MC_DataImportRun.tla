-------------------------- MODULE MC_DataImportRun ---------------------------
(* Two runs of an import of two tables and its deletion; a pipeline or a      *)
(* clean-up may be overtaken by one other.                                    *)
EXTENDS DataImportRun
=============================================================================
