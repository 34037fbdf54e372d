----------------------- MODULE MCPinnedOrchestration -----------------------
(* Two commands on one bundle; three waves, of which the first and the last *)
(* share their controller, so that a stale view may happen to be right.     *)
EXTENDS PinnedOrchestration

CONSTANTS c1, c2

MCCli        == {c1, c2}
MCController == <<"p", "q", "p">>
=============================================================================
