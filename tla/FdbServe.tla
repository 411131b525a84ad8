---- MODULE FdbServe ----
(***************************************************************************)
(* The serve command from its configuration file on: LoadConfig, New,      *)
(* Start and Stop of fdb.go, the registry of registry.go, the database and *)
(* the transport manager and cmd/serve.go.  The transports                 *)
(* are reduced to what their own modules show of Start and Stop: Start     *)
(* returns when the server is up or has failed (a TCP, UDS or UDP server   *)
(* that failed by timeout may come up later); Stop of a QUIC server that   *)
(* does not listen panics, Stop of a TCP server is an error without an     *)
(* engine and may be one when the context is done, Stop of a UDS server is *)
(* one when its socket file is gone.  The databases of db/manager.go are   *)
(* opened before the transports are made, and nothing closes them.         *)
(***************************************************************************)
EXTENDS Config

CONSTANTS
    Files,     \* configuration files
    ArgLists   \* lists given to --transports, without repetitions

ASSUME ServeAssumption ==
    /\ Files \subseteq ConfigFiles
    /\ ArgLists \subseteq Seq(STRING) /\ \A a \in ArgLists : IsInjective(a)

VARIABLES
    file,      \* the configuration file
    cfg,       \* what LoadConfig made of it
    dbs,       \* names the database manager has a database for
    args,      \* transports to serve, in order
    pprof,     \* the goroutine of the profiler
    tm,        \* transports registered with the manager
    pc,        \* where the command is
    next,      \* position in the list that a loop works on
    writers,   \* transports with handlers and a batch writer
    group,     \* goroutines of the errgroup, by transport
    err,       \* the errgroup has an error
    ctxDone,   \* the context of the command is done
    stopped,   \* transports whose Stop returned nil
    result     \* how the command ended

given   == <<file, args>>
loaded  == <<cfg, dbs>>
running == <<pprof, writers, group, err>>
vars    == <<given, loaded, tm, pc, next, running, ctxDone, stopped, result>>

\* The keys of tRegistry.
Registry == {"quic", "tcp", "uds", "udp"}

TypeOK ==
    /\ dbs \subseteq ToSet(file.mdbx.nodes)
    /\ pprof \in {"none", "serving", "failed"}
    /\ {tm, stopped, writers} \subseteq SUBSET TransportTypes
    /\ pc \in {"load", "logger", "open", "new", "parse", "start", "launch", "wait", "serve", "stop",
               "exit", "panic"}
    /\ next \in Nat
    /\ group \in [TransportTypes -> {"none", "ready", "up", "failed"}]
    /\ err \in BOOLEAN /\ ctxDone \in BOOLEAN
    /\ result \in {"none", "error", "ctx"}

Init ==
    /\ file \in Files /\ args \in ArgLists
    /\ cfg = Absent /\ dbs = {}
    /\ pprof = "none" /\ tm = {} /\ writers = {} /\ stopped = {}
    /\ pc = "load" /\ next = 1
    /\ group = [t \in TransportTypes |-> "none"]
    /\ err = FALSE /\ ctxDone = FALSE /\ result = "none"

Before(where) == pc = where /\ UNCHANGED <<given, running, ctxDone, stopped>>

\* The command ends with an error before there is anything to stop.
Fail == pc' = "exit" /\ result' = "error" /\ UNCHANGED <<tm, next>>

Goto(where) == pc' = where /\ next' = 1 /\ UNCHANGED <<tm, result>>

\* Start returns with r and the deferred Stop begins.
StartEnds(r) == result' = r /\ pc' = "stop" /\ next' = 1

-----------------------------------------------------------------------------
(* The command up to Start.                                                 *)

Load ==
    /\ Before("load") /\ UNCHANGED dbs
    /\ cfg' = LoadConfig(file)
    /\ IF cfg' = Bad THEN Fail ELSE Goto("logger")

\* New: Validate, which accepts everything, and the logger.
NewLogger ==
    /\ Before("logger") /\ UNCHANGED loaded
    /\ IF LoggerFails(cfg.logger) THEN Fail ELSE Goto("open")

Nodes == IF cfg.mdbx.enabled THEN cfg.mdbx.nodes ELSE <<>>

\* One node: NewDb opens it and the manager stores it under its name, or New
\* fails; the databases opened before stay open then.
OpenDb ==
    /\ Before("open") /\ UNCHANGED cfg
    /\ next <= Len(Nodes)
    /\ \/ dbs' = dbs \cup {Nodes[next]} /\ next' = next + 1 /\ UNCHANGED <<tm, pc, result>>
       \/ Fail /\ UNCHANGED dbs

OpenEnds ==
    /\ Before("open") /\ UNCHANGED loaded
    /\ next > Len(Nodes) /\ Goto("new")

\* RegisterTransport and GetTransport of the transport manager.
RegisterTransport(t) == t \notin tm /\ tm' = tm \cup {t}

GetTransport(t) == t \in tm

\* NewServer of QUIC needs the files of a TLS section, that of UDS may not be
\* able to remove the socket file of an earlier server; the others never fail.
NewServerMayFail(cnf) == cnf.Type \in {"quic", "uds"}
NewServerMayWork(cnf) == cnf.Type = "quic" => cnf.TLS # Absent

\* One section: its server is made and registered, whether it is enabled or
\* not.  A server that cannot be made, or the second one of a type, makes New
\* fail and with it the command.
NewTransport ==
    /\ Before("new") /\ UNCHANGED loaded
    /\ next <= Len(cfg.transports)
    /\ LET cnf == cfg.transports[next].Config
       IN  \/ /\ NewServerMayWork(cnf) /\ RegisterTransport(cnf.Type)
              /\ next' = next + 1 /\ UNCHANGED <<pc, result>>
           \/ (NewServerMayFail(cnf) \/ GetTransport(cnf.Type)) /\ Fail

New ==
    /\ Before("new") /\ UNCHANGED loaded
    /\ next > Len(cfg.transports) /\ Goto("parse")

\* The names of --transports are parsed when the servers have been made.
ParseArgs ==
    /\ Before("parse") /\ UNCHANGED loaded
    /\ IF \E i \in DOMAIN args : ParseTransportType(args[i]) = Bad THEN Fail ELSE Goto("start")

-----------------------------------------------------------------------------
(* Start.                                                                   *)

Fixed == UNCHANGED <<given, loaded>>

\* Start up to the loop: an error without a database called fdb or a section
\* for the profiler; an enabled profiler becomes a goroutine of the group.
StartBegins ==
    /\ pc = "start"
    /\ LET p == GetPprofByServiceTag(cfg, "fdb")
       IN  IF "fdb" \notin dbs \/ p = Absent
           THEN StartEnds("error") /\ UNCHANGED pprof
           ELSE /\ pc' = "launch" /\ next' = 1 /\ UNCHANGED result
                /\ pprof' = IF p.enabled THEN "serving" ELSE pprof
    /\ UNCHANGED <<tm, writers, group, err, ctxDone, stopped>> /\ Fixed

\* Mutant: the goroutine is started before the handlers are registered.
MutLaunchFirst ==
    /\ pc = "launch" /\ next <= Len(args)
    /\ group' = [group EXCEPT ![args[next]] = "ready"]
    /\ IF args[next] \in Registry /\ GetTransport(args[next])
       THEN next' = next + 1 /\ UNCHANGED <<pc, result>>
       ELSE StartEnds("error")
    /\ UNCHANGED <<pprof, tm, writers, err, ctxDone, stopped>> /\ Fixed

\* One turn of the loop: the registry's function gives the transport its
\* batch writer and its handlers, and its Start becomes a goroutine.
Launch ==
    /\ pc = "launch" /\ next <= Len(args)
    /\ IF args[next] \in Registry /\ GetTransport(args[next])
       THEN /\ writers' = writers \cup {args[next]}
            /\ group' = [group EXCEPT ![args[next]] = "ready"]
            /\ next' = next + 1 /\ UNCHANGED <<pc, result>>
       ELSE StartEnds("error") /\ UNCHANGED <<writers, group>>
    /\ UNCHANGED <<pprof, tm, err, ctxDone, stopped>> /\ Fixed

LaunchEnds ==
    /\ pc = "launch" /\ next > Len(args)
    /\ pc' = "wait"
    /\ UNCHANGED <<pprof, tm, next, writers, group, err, ctxDone, stopped, result>> /\ Fixed

\* iTransport.Start(gCtx) returns in its goroutine.
TransportStart(t) ==
    /\ pc \notin {"exit", "panic"} /\ group[t] = "ready"
    /\ \/ group' = [group EXCEPT ![t] = "up"] /\ UNCHANGED err
       \/ group' = [group EXCEPT ![t] = "failed"] /\ err' = TRUE
    /\ UNCHANGED <<pprof, tm, pc, next, writers, ctxDone, stopped, result>> /\ Fixed

\* http.ListenAndServe returns only with an error.
PprofFails ==
    /\ pc \notin {"exit", "panic"} /\ pprof = "serving"
    /\ pprof' = "failed" /\ err' = TRUE
    /\ UNCHANGED <<tm, pc, next, writers, group, ctxDone, stopped, result>> /\ Fixed

\* Mutant: the command waits until every transport is up.
MutWaitAllUp ==
    /\ pc = "wait" /\ pprof # "serving" /\ \A t \in TransportTypes : group[t] \in {"none", "up"}
    /\ IF err THEN StartEnds("error") ELSE pc' = "serve" /\ UNCHANGED <<next, result>>
    /\ UNCHANGED <<pprof, tm, writers, group, err, ctxDone, stopped>> /\ Fixed

\* Mutant: the group is not waited for when nothing has failed yet.
MutWaitEarly ==
    /\ pc = "wait" /\ pprof # "serving"
    /\ IF err THEN StartEnds("error") ELSE pc' = "serve" /\ UNCHANGED <<next, result>>
    /\ UNCHANGED <<pprof, tm, writers, group, err, ctxDone, stopped>> /\ Fixed

\* g.Wait() returns when every goroutine of the group has.
Wait ==
    /\ pc = "wait" /\ pprof # "serving" /\ \A t \in TransportTypes : group[t] # "ready"
    /\ IF err THEN StartEnds("error") ELSE pc' = "serve" /\ UNCHANGED <<next, result>>
    /\ UNCHANGED <<pprof, tm, writers, group, err, ctxDone, stopped>> /\ Fixed

CancelContext ==
    /\ ~ctxDone /\ pc \notin {"exit", "panic"}
    /\ ctxDone' = TRUE
    /\ UNCHANGED <<pprof, tm, pc, next, writers, group, err, stopped, result>> /\ Fixed

\* <-ctx.Done()
ServeEnds ==
    /\ pc = "serve" /\ ctxDone
    /\ StartEnds("ctx")
    /\ UNCHANGED <<pprof, tm, writers, group, err, ctxDone, stopped>> /\ Fixed

-----------------------------------------------------------------------------
(* Stop, deferred by the command: it ends at the first error.               *)

\* The ways Stop of a transport may end.
StopOutcomes(t) ==
    CASE t = "quic" -> IF group[t] = "up" THEN {"ok", "error"} ELSE {"panic"}
      [] t = "tcp"  -> IF group[t] = "none" THEN {"error"}
                       ELSE IF group[t] = "up" /\ ~ctxDone THEN {"ok"} ELSE {"ok", "error"}
      [] t = "uds"  -> IF group[t] = "none" THEN {"error"} ELSE {"ok", "error"}
      [] OTHER      -> {"ok"}

\* One transport of the list is stopped.
StopTransport ==
    /\ pc = "stop" /\ next <= Len(args) /\ GetTransport(args[next])
    /\ \E o \in StopOutcomes(args[next]) :
        /\ stopped' = IF o = "ok" THEN stopped \cup {args[next]} ELSE stopped
        /\ pc' = CASE o = "ok" -> "stop" [] o = "error" -> "exit" [] o = "panic" -> "panic"
    /\ next' = next + 1
    /\ UNCHANGED <<pprof, tm, writers, group, err, ctxDone, result>> /\ Fixed

\* The list is through, or GetTransport does not know the transport.
StopEnds ==
    /\ pc = "stop" /\ ~(next <= Len(args) /\ GetTransport(args[next]))
    /\ pc' = "exit"
    /\ UNCHANGED <<pprof, tm, next, writers, group, err, ctxDone, stopped, result>> /\ Fixed

Main ==
    \/ Load \/ NewLogger \/ OpenDb \/ OpenEnds \/ NewTransport \/ New \/ ParseArgs
    \/ StartBegins \/ Launch \/ LaunchEnds \/ Wait \/ ServeEnds \/ StopTransport \/ StopEnds

Next == Main \/ PprofFails \/ CancelContext \/ \E t \in TransportTypes : TransportStart(t)

Spec == Init /\ [][Next]_vars

(* The command and the goroutines of the group run; the Start of every      *)
(* transport returns (its own module shows it).                             *)
FairSpec == Spec /\ WF_vars(Main) /\ \A t \in TransportTypes : WF_vars(TransportStart(t))

-----------------------------------------------------------------------------

\* A server is started only with handlers and a batch writer of its own, over a
\* database that was opened before.
UpHasWriter == \A t \in TransportTypes : group[t] # "none" => t \in writers /\ "fdb" \in dbs

\* The transports that were stopped are the first ones of the list: an error
\* leaves every transport after it running.
StoppedIsPrefix ==
    pc = "exit" => \E n \in 0 .. Len(args) : stopped = ToSet(SubSeq(args, 1, n))

\* The state of the serve command at every step.
ServeInv == TypeOK /\ UpHasWriter /\ StoppedIsPrefix

\* The type a section of the file asks for: udp when it names none.
Asked(section) == IF section.type = Absent THEN "udp" ELSE section.type

\* Once New has returned, the manager has servers only of types that sections
\* of the file name (udp where one names none), whatever type their config
\* holds; no section that is enabled is without its server, and no two of them
\* name one type.  Of sections with enabled set to false it says nothing: the
\* code makes their servers too.
ServersMatchSections ==
    pc \in {"parse", "start", "launch", "wait", "serve", "stop"} =>
        /\ tm \subseteq {Asked(section) : section \in ToSet(file.transports)}
        /\ \A i \in DOMAIN file.transports : file.transports[i].enabled =>
              /\ Asked(file.transports[i]) \in tm
              /\ \A j \in DOMAIN file.transports :
                    file.transports[j].enabled /\ j # i =>
                        Asked(file.transports[j]) # Asked(file.transports[i])

\* Stopping panics only after a start that failed: a server that came up as
\* a whole and whose context ends is never brought down by its own Stop.
PanicNeedsFailedStart == pc = "panic" => result = "error"

\* A transport that fails to start, or the end of the context, ends the command,
\* unless the profiler's goroutine, which does not return, keeps the group
\* waiting.
CommandEnds ==
    /\ \A t \in TransportTypes :
          group[t] = "failed" ~> pprof = "serving" \/ pc \in {"exit", "panic"}
    /\ ctxDone ~> pprof = "serving" \/ pc \in {"exit", "panic"}
====
