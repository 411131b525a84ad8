---- MODULE MCFdbServe ----
EXTENDS FdbServe

Body == [good |-> TRUE, type |-> Absent, tls |-> "files"]

Section(t) == [type |-> t, enabled |-> TRUE, config |-> Body]

\* The shipped configuration file.
Shipped ==
    [readable |-> TRUE,
     logger |-> [enabled |-> TRUE, validLevel |-> TRUE, environment |-> "development"],
     mdbx |-> [enabled |-> TRUE, nodes |-> <<"fdb">>],
     pprof |-> <<[name |-> "fdb", enabled |-> TRUE]>>,
     transports |-> <<Section("dummy"), Section("quic"), Section("uds"), Section("tcp"), Section("udp")>>]

NoPprof == [Shipped EXCEPT !.pprof = <<[name |-> "fdb", enabled |-> FALSE]>>]

\* Variations: of the databases, of the profiler, of the logger, of sections.
MCFiles ==
    {Shipped, NoPprof}
    \cup {[NoPprof EXCEPT !.mdbx = [enabled |-> e, nodes |-> n]] :
              e \in BOOLEAN, n \in {<<"bench", "fdb">>, <<"bench">>}}
    \cup {[Shipped EXCEPT !.pprof = p] :
              p \in {<<>>, <<[name |-> "bench", enabled |-> TRUE], [name |-> "fdb", enabled |-> FALSE]>>}}
    \cup {[Shipped EXCEPT !.readable = FALSE],
          [NoPprof EXCEPT !.logger.validLevel = FALSE],
          [NoPprof EXCEPT !.logger.environment = "staging"]}
    \cup {[NoPprof EXCEPT !.transports = t] :
              t \in {<<Section("tcp"), Section("udp"), Section("tcp")>>,
                     <<Section("uds"), Section("quic")>>,
                     <<Section("tcp"), Section(Absent)>>,
                     <<Section("tcp"), Section("ebpf")>>,
                     <<[Section("quic") EXCEPT !.config = Absent], Section("udp")>>,
                     <<[Section("udp") EXCEPT !.config = Absent], Section("tcp")>>,
                     <<[Section("tcp") EXCEPT !.enabled = FALSE], Section("udp")>>,
                     <<Section("tcp"), [Section("udp") EXCEPT !.config.good = FALSE]>>,
                     <<Section("tcp"), [Section("udp") EXCEPT !.config.type = "quic"]>>,
                     <<Section("tcp"), [Section("udp") EXCEPT !.config.type = "ebpf"]>>}}

\* The default of --transports, other orders, a type the registry lacks, and a
\* name that is no type.
MCArgLists ==
    {<<"quic", "uds", "tcp", "udp">>, <<"tcp", "udp">>, <<"uds", "quic">>, <<"udp", "dummy">>,
     <<"tcp", "http">>}
====
