---- MODULE MCTransportWriters ----
(* One key, written through both transports; one event loop each. *)
EXTENDS TransportWriters

CONSTANTS k1, c1

MCFirstByte == [k \in {k1} |-> 255]
====
