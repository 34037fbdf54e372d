------------------------- MODULE MCDiagnoseBundle --------------------------
EXTENDS DiagnoseBundle
CONSTANTS s1, s2, quick
MCPhases == <<"groups", "individual", "gdb">>
MCParts == <<"rows", "meta">>
MCRestartable == {"individual"}
MCRedos == {{}, {"groups"}, {"individual"}, {"gdb"}}
MCSomeRedos == {{}, {"individual"}, {"gdb"}}
MCWideRedos == {{}, {"groups"}, {"gdb"}}
NoPreset == [m \in {} |-> s1]
QuickPreset == [m \in {quick} |-> s1]
=============================================================================
