--------------------------- MODULE MCBuildRunner ---------------------------
(* BuildRunner for TLC: three platforms, the host first, all three in the  *)
(* matrix, so that one target can fail between two that succeed.           *)
EXTENDS BuildRunner

CONSTANTS p1, p2, p3

MCPlatforms == {p1, p2, p3}
MCMatrix == <<p1, p2, p3>>
=============================================================================
