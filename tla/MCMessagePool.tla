---- MODULE MCMessagePool ----
EXTENDS MessagePool

MCKeys == {<<0>>, <<5>>}

\* Empty, short, just below, at and above the size of the pooled buffer, and
\* long enough for the length field to wrap.
MCPayloads ==
    {<<>>, <<1>>, <<0, 5>>, <<3, 1, 2>>, <<1, 1, 0, 1>>, <<2, 2, 2, 2, 2>>, [i \in 1 .. 9 |-> 1]}
====
