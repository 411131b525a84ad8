---- MODULE MCBenchmark ----
EXTENDS Benchmark

CONSTANTS c1, c2

MCClients == {c1, c2}
====
