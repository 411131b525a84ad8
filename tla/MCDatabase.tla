---- MODULE MCDatabase ----
EXTENDS Database

CONSTANTS c1, c2, k1, k2, v1, v2

MCCallers == {c1, c2}
====
