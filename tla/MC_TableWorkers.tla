--------------------------- MODULE MC_TableWorkers ---------------------------
(* Four tables for two slots: slots are contended, the queue drains, and two *)
(* writes are under way while others start.                                  *)
EXTENDS TableWorkers

MCNumTables == 4
MCRawConcurrency == 2
=============================================================================
