---- MODULE Database ----
(***************************************************************************)
(* Db of db/mdbx.go: Set, Get, Exists and Delete as the MDBX transactions  *)
(* they run.  env.View gives its function a snapshot of the database;      *)
(* env.Update gives it the one write transaction there is, which is        *)
(* committed when the function returns nil and aborted otherwise.          *)
(***************************************************************************)
CONSTANTS Callers, Keys, Values, NoValue

ASSUME DatabaseAssumption ==
    /\ NoValue \notin Values
    /\ Values \cap {"none", "ok", "error", "ErrNotFound", "true", "false"} = {}
    /\ "none" \notin Callers

VARIABLES
    env,    \* the environment: open, closed, or removed by Destroy
    store,  \* what is committed
    call,   \* for each caller its call
    txn,    \* for each caller its transaction and the database as it sees it
    writer  \* the caller whose write transaction is open, or "none"

vars == <<env, store, call, txn, writer>>

Abs == INSTANCE Provider

NoTxn == [kind |-> "none"]

Stores == [Keys -> Values \cup {NoValue}]

TypeOK ==
    /\ env \in {"open", "closed", "removed"}
    /\ store \in Stores
    /\ call \in [Callers -> Abs!Calls]
    /\ txn \in [Callers -> {NoTxn} \cup [kind : {"view", "begun", "changed"}, db : Stores]]
    /\ writer \in Callers \cup {"none"}

Init == Abs!Init /\ env = "open" /\ txn = [c \in Callers |-> NoTxn] /\ writer = "none"

Invoke(c) == Abs!Invoke(c) /\ UNCHANGED <<env, txn, writer>>

Return(c) == Abs!Return(c) /\ UNCHANGED <<env, txn, writer>>

Answer(c, r) == call' = [call EXCEPT ![c].result = r]

Waiting(c) == Abs!Pending(c) /\ txn[c].kind = "none"

\* A transaction that cannot begin: the environment is closed, or no reader
\* slot is free.
BeginFails(c) ==
    /\ Waiting(c)
    /\ Answer(c, "error")
    /\ UNCHANGED <<env, store, txn, writer>>

\* env.View of Get and Exists begins.
BeginView(c) ==
    /\ Waiting(c) /\ call[c].op \in {"Get", "Exists"} /\ env = "open"
    /\ txn' = [txn EXCEPT ![c] = [kind |-> "view", db |-> store]]
    /\ UNCHANGED <<env, store, call, writer>>

\* Mutant: Exists answers false whatever Get returned.
MutExistsFalse(c) ==
    /\ txn[c].kind = "view"
    /\ Answer(c, IF call[c].op = "Exists" THEN "false" ELSE Abs!Outcome("Get", call[c].key, txn[c].db))
    /\ txn' = [txn EXCEPT ![c] = NoTxn]
    /\ UNCHANGED <<env, store, writer>>

\* txn.Get on the snapshot, and the end of the view.
View(c) ==
    /\ txn[c].kind = "view"
    /\ LET got == Abs!Outcome("Get", call[c].key, txn[c].db)
       IN  Answer(c, IF call[c].op = "Get" THEN got
                     ELSE IF got = "ErrNotFound" THEN "false" ELSE "true")
    /\ txn' = [txn EXCEPT ![c] = NoTxn]
    /\ UNCHANGED <<env, store, writer>>

\* Mutant: write transactions do not exclude each other.
MutBeginUpdate(c) ==
    /\ Waiting(c) /\ call[c].op \in {"Set", "Delete"} /\ env = "open"
    /\ txn' = [txn EXCEPT ![c] = [kind |-> "begun", db |-> store]]
    /\ writer' = c
    /\ UNCHANGED <<env, store, call>>

\* env.Update of Set and Delete begins when no other write transaction is open.
BeginUpdate(c) ==
    /\ Waiting(c) /\ call[c].op \in {"Set", "Delete"} /\ env = "open"
    /\ writer = "none"
    /\ txn' = [txn EXCEPT ![c] = [kind |-> "begun", db |-> store]]
    /\ writer' = c
    /\ UNCHANGED <<env, store, call>>

\* The transaction of c is aborted and its error returned.
Abort(c, r) ==
    /\ Answer(c, r)
    /\ txn' = [txn EXCEPT ![c] = NoTxn] /\ writer' = "none"
    /\ UNCHANGED <<env, store>>

\* Mutant: the function of Delete runs an Update of its own, which waits for the
\* write transaction around it.
MutNestedUpdate(c) ==
    /\ txn[c].kind = "begun" /\ call[c].op # "Delete"
    /\ txn' = [txn EXCEPT ![c] = [kind |-> "changed",
                      db |-> Abs!Effect(call[c].op, call[c].key, call[c].value, @.db)]]
    /\ UNCHANGED <<env, store, call, writer>>

\* The function of Update: cursor.Put of Set, txn.Del of Delete.  Either may
\* fail, Delete also because the key is absent.
Change(c) ==
    /\ txn[c].kind = "begun"
    /\ \/ Abort(c, "error")
       \/ LET outcome == Abs!Outcome(call[c].op, call[c].key, txn[c].db)
          IN  IF outcome = "ErrNotFound" THEN Abort(c, outcome)
              ELSE /\ txn' = [txn EXCEPT ![c] = [kind |-> "changed",
                                db |-> Abs!Effect(call[c].op, call[c].key, call[c].value, @.db)]]
                   /\ UNCHANGED <<env, store, call, writer>>

\* The commit of Update.
Commit(c) ==
    /\ txn[c].kind = "changed"
    /\ \/ Abort(c, "error")
       \/ /\ store' = txn[c].db /\ Answer(c, "ok")
          /\ txn' = [txn EXCEPT ![c] = NoTxn] /\ writer' = "none"
          /\ UNCHANGED env

\* Close.  MDBX does not allow it while a transaction is open, and nothing in
\* Close waits for one: that no caller is in one is up to the owner.
CloseEnv ==
    /\ \A c \in Callers : txn[c].kind = "none"
    /\ env = "open" /\ env' = "closed"
    /\ UNCHANGED <<store, call, txn, writer>>

\* Destroy closes the environment and removes its files.
Destroy ==
    /\ \A c \in Callers : txn[c].kind = "none"
    /\ env' = "removed" /\ store' = [k \in Keys |-> NoValue]
    /\ UNCHANGED <<call, txn, writer>>

Operation(c) ==
    \/ BeginFails(c) \/ BeginView(c) \/ View(c)
    \/ BeginUpdate(c) \/ Change(c) \/ Commit(c)

Next == CloseEnv \/ Destroy \/ \E c \in Callers : Invoke(c) \/ Operation(c) \/ Return(c)

Spec == Init /\ [][Next]_vars

(* Callers run; a write transaction is granted to every caller that keeps   *)
(* waiting for it, as the lock of MDBX does.                                *)
FairSpec == Spec /\ \A c \in Callers :
    /\ WF_vars(View(c) \/ Change(c) \/ Commit(c))
    /\ WF_vars(BeginFails(c) /\ env # "open")
    /\ SF_vars(BeginView(c) \/ BeginUpdate(c))

-----------------------------------------------------------------------------

\* The write transaction that is open is the one of the caller that holds it:
\* none is forgotten after an error, which would block every later Set.
WriterHasTxn ==
    \A c \in Callers : writer = c <=> txn[c].kind \in {"begun", "changed"}

\* What is open stands for a call that waits for its result; a view is one of a
\* read, and a write transaction has seen all that is committed.
TxnMatches(c) ==
    txn[c].kind # "none" =>
        /\ Abs!Pending(c)
        /\ txn[c].kind = "view" <=> call[c].op \in {"Get", "Exists"}
        /\ txn[c].kind = "begun" => txn[c].db = store
        /\ txn[c].kind = "changed" =>
            /\ Abs!Outcome(call[c].op, call[c].key, store) = "ok"
            /\ txn[c].db = Abs!Effect(call[c].op, call[c].key, call[c].value, store)

\* Every transaction that is open belongs to its call: what it commits is the
\* effect of that call on all that was committed before.
TxnMatchesCall == \A c \in Callers : TxnMatches(c)

\* The state of Db in every step of Set, Get, Exists and Delete.  Inductive: the
\* two parts need each other, a write transaction has seen all that is committed
\* because it excludes the others.
DbInv == TypeOK /\ WriterHasTxn /\ TxnMatchesCall

\* A read has its result from the moment of its snapshot on.
callBar ==
    [c \in Callers |->
        IF txn[c].kind = "view"
        THEN [call[c] EXCEPT !.result = Abs!Outcome(call[c].op, call[c].key, txn[c].db)]
        ELSE call[c]]

Bar == INSTANCE Provider WITH call <- callBar

\* Db implements Provider: every Set and Delete takes effect at its commit and
\* every Get and Exists at its snapshot, whatever other callers do meanwhile.
ImplementsProvider == Bar!Spec

\* Every call gets its result: an aborted transaction of one caller never leaves
\* another one waiting.
CallsReturn == \A c \in Callers : Abs!Pending(c) ~> ~Abs!Pending(c)
====
