---- MODULE MCGnetRequests ----
EXTENDS GnetRequests

MCKeys == {<<1>>, <<5>>}

\* Without data and with two bytes: a shorter frame replaces part of a longer one.
MCPayloads == {<<>>, <<4, 4>>}
====
