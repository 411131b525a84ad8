---- MODULE MCBatchWriter ----
(***************************************************************************)
(* A small instance of BatchWriter for TLC.  One caller is enough: what a  *)
(* second one adds, a call that blocks while the first goes on, changes    *)
(* nothing the workers see before the request enters the channel.          *)
(***************************************************************************)
EXTENDS BatchWriter

CONSTANTS k1, k2, k3, c1

\* k1 and k3 share worker 1, k2 belongs to worker 0 when there are two workers.
MCKeys == {k1, k2, k3}
MCFirstByte == [k \in MCKeys |-> CASE k = k1 -> 1 [] k = k2 -> 254 [] k = k3 -> 255]
====
