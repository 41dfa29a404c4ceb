------------------------- MODULE MC_SemanticModelRun -------------------------
(* Two streams race for the claim; one cancel and one delete may fall between *)
(* any two of their round trips.                                              *)
EXTENDS SemanticModelRun
=============================================================================
