---- MODULE MCDiscovery ----
EXTENDS Discovery
CONSTANTS c1, c2
TwoCpus == <<7, 4>>
====
