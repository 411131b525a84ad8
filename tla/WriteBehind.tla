---- MODULE WriteBehind ----
(***************************************************************************)
(* What a write-behind store promises its callers.  The writes of a key    *)
(* are numbered in the order in which they were accepted; accepted[k] of   *)
(* them have been acknowledged and the durable value of the key is the one *)
(* written by number durable[k] (0: the key was never made durable).       *)
(* A batch is made durable atomically and moves every key it contains      *)
(* forward, never back and never to a write nobody made.  Writes may be    *)
(* skipped: a later write of the same key supersedes them, and a failure   *)
(* may lose them.                                                          *)
(***************************************************************************)
EXTENDS Naturals

CONSTANT Keys

VARIABLES accepted, durable

vars == <<accepted, durable>>

Init ==
    /\ accepted = [k \in Keys |-> 0]
    /\ durable  = [k \in Keys |-> 0]

\* A write of k is acknowledged to its caller.
Accept(k) ==
    /\ accepted' = [accepted EXCEPT ![k] = @ + 1]
    /\ UNCHANGED durable

\* A batch over the keys B becomes durable, all of it in one step.
Persist(B) ==
    /\ durable' \in [Keys -> Nat]
    /\ \A k \in B : durable[k] < durable'[k] /\ durable'[k] <= accepted[k]
    /\ \A k \in Keys \ B : durable'[k] = durable[k]
    /\ UNCHANGED accepted

Next ==
    \/ \E k \in Keys : Accept(k)
    \/ \E B \in (SUBSET Keys) \ {{}} : Persist(B)

Spec == Init /\ [][Next]_vars
====
