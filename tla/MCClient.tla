---- MODULE MCClient ----
EXTENDS Client

CONSTANTS s1, s2
====
