--------------------------- MODULE MCSchemaBundle ---------------------------
(* Instances of SchemaBundle.  Each run names the phases it takes, which   *)
(* stand for a manifest version: any two of the five phases of a v7        *)
(* campaign behave alike here, and v6 is the exact-CPU and the debugger    *)
(* phase.                                                                  *)
EXTENDS SchemaBundle

\* Manifest v7: a campaign, plus the commands that resume one phase of it.
PhasesV7   == {"baseline", "exact"}
CampaignV7 == <<"baseline", "exact">>
TotalV7    == [p \in PhasesV7 |-> IF p = "baseline" THEN 2 ELSE 1]
JobsV7     == {CampaignV7, <<"exact">>}

\* Manifest v6: the debugger runner has no lease descriptor to pass on.
PhasesV6   == {"debugger", "exact"}
JobsV6     == {<<"debugger">>, <<"exact">>}
TotalV6    == [p \in PhasesV6 |-> IF p = "debugger" THEN 2 ELSE 1]
RetainingV6 == {"exact"}
NoCampaign == <<"none">>
=============================================================================
