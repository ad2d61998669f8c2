------------------------- MODULE MCLatestProcess -------------------------
EXTENDS LatestProcess

CONSTANTS n1, n2, pid1

MCNamespaces == {n1, n2}
MCProcessIds == {pid1}
===========================================================================
