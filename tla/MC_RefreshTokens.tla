--------------------------- MODULE MC_RefreshTokens ----------------------------
(* Two tabs of a browser and a client that keeps its own token, which make    *)
(* four requests between them.                                                *)
EXTENDS RefreshTokens, TLC

CONSTANTS a, b, tool, browser, client

TwoTabsAndATool == [tab \in Tabs |-> IF tab = tool THEN client ELSE browser]

TabSymmetry == Permutations({a, b})
=============================================================================
