---- MODULE Provider ----
(***************************************************************************)
(* What db.Provider promises of a key-value database: between the call and *)
(* the return of Set, Get, Exists and Delete there is one moment at which  *)
(* the operation takes effect as a whole, or fails and changes nothing.    *)
(***************************************************************************)
CONSTANTS
    Callers,   \* goroutines that use the database
    Keys, Values,
    NoValue    \* not a value: the key is absent

VARIABLES
    store,     \* the value of each key
    call       \* for each caller its call, with its result when it has one

vars == <<store, call>>

Ops == {"Set", "Get", "Exists", "Delete"}

\* "none": there is no result yet.
Results == {"none", "ok", "error", "ErrNotFound", "true", "false"} \cup Values

Idle == [op |-> "idle"]

Calls == {Idle} \cup [op : Ops, key : Keys, value : Values, result : Results]

Pending(c) == call[c] # Idle /\ call[c].result = "none"

Init == store = [k \in Keys |-> NoValue] /\ call = [c \in Callers |-> Idle]

Invoke(c) ==
    /\ call[c] = Idle
    /\ \E op \in Ops, k \in Keys, v \in Values :
        call' = [call EXCEPT ![c] = [op |-> op, key |-> k, value |-> v, result |-> "none"]]
    /\ UNCHANGED store

\* What an operation returns when the database is s, and the database after it.
Outcome(op, k, s) ==
    CASE op = "Set"    -> "ok"
      [] op = "Delete" -> IF s[k] = NoValue THEN "ErrNotFound" ELSE "ok"
      [] op = "Get"    -> IF s[k] = NoValue THEN "ErrNotFound" ELSE s[k]
      [] op = "Exists" -> IF s[k] = NoValue THEN "false" ELSE "true"

Effect(op, k, v, s) ==
    CASE op = "Set"    -> [s EXCEPT ![k] = v]
      [] op = "Delete" -> [s EXCEPT ![k] = NoValue]
      [] OTHER         -> s

Apply(c) ==
    /\ Pending(c)
    /\ store' = Effect(call[c].op, call[c].key, call[c].value, store)
    /\ call' = [call EXCEPT ![c].result = Outcome(call[c].op, call[c].key, store)]

Fail(c) ==
    /\ Pending(c)
    /\ call' = [call EXCEPT ![c].result = "error"]
    /\ UNCHANGED store

Return(c) ==
    /\ call[c] # Idle /\ call[c].result # "none"
    /\ call' = [call EXCEPT ![c] = Idle]
    /\ UNCHANGED store

\* Destroy removes everything there is.
Clear == store' = [k \in Keys |-> NoValue] /\ UNCHANGED call

Next == Clear \/ \E c \in Callers : Invoke(c) \/ Apply(c) \/ Fail(c) \/ Return(c)

Spec == Init /\ [][Next]_vars
====
