---- MODULE MCQuicStreams ----
EXTENDS QuicStreams

CONSTANTS s1, s2

MCKeys == {<<0>>}

\* Two values and the empty one, which QUIC accepts.
MCPayloads == {<<>>, <<1>>}

Symmetry == {[s \in Streams |-> s], [s \in Streams |-> IF s = s1 THEN s2 ELSE s1]}
====
