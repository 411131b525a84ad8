---- MODULE Config ----
(***************************************************************************)
(* The configuration file of config/*.go, as YAML and as the structs hold  *)
(* it.  A section of the transports list is a record of its fields; type   *)
(* and config may be Absent.  The config below it is a record as well:     *)
(* good says that its address, port and socket have the types the struct   *)
(* wants, and tls stands for the paths in its tls section.                 *)
(***************************************************************************)
EXTENDS Integers, Sequences, SequencesExt

CONSTANTS
    Absent,  \* a field that is not there, and nil
    Bad      \* what an operation returns with an error

\* The shape of a file: what the structs of config/*.go can take in.
Bodies   == [good : BOOLEAN, type : STRING \cup {Absent}, tls : STRING \cup {Absent}]
Sections == [type : STRING \cup {Absent}, enabled : BOOLEAN, config : Bodies \cup {Absent}]

ConfigFiles ==
    [readable : BOOLEAN,
     logger : [enabled : BOOLEAN, validLevel : BOOLEAN, environment : STRING],
     mdbx : [enabled : BOOLEAN, nodes : Seq(STRING)],
     pprof : Seq([name : STRING, enabled : BOOLEAN]),
     transports : Seq(Sections)]

TransportTypes == {"udp", "dummy", "quic", "uds", "tcp"}

\* The transport type that is 0.
UDPTransportType == "udp"

\* ParseTransportType knows the five names and nothing else.
ParseTransportType(s) == IF s \in TransportTypes THEN s ELSE Bad

\* A field of type TransportType: without it the zero value stays, and nobody
\* calls ParseTransportType.
DecodeType(s) == IF s = Absent THEN UDPTransportType ELSE ParseTransportType(s)

\* Mutant: the config keeps the type it was decoded with.
MutInnerType(t, body, tls) ==
    IF body.good /\ DecodeType(body.type) # Bad THEN [Type |-> DecodeType(body.type), TLS |-> tls]
    ELSE Bad

\* A config with the fields of body that its struct has; a type inside must be
\* a known one, and is then overwritten with t.
Filled(t, body, tls) ==
    IF body.good /\ DecodeType(body.type) # Bad THEN [Type |-> t, TLS |-> tls] ELSE Bad

\* UnmarshalYAML of the five structs.  TCP and UDP keep a nil pointer where
\* there is no tls or dtls section, and a UDS socket has none.
UdpTransport(body)   == Filled("udp", body, body.tls)
TcpTransport(body)   == Filled("tcp", body, body.tls)
QuicTransport(body)  == Filled("quic", body, body.tls)
DummyTransport(body) == Filled("dummy", body, body.tls)
UdsTransport(body)   == Filled("uds", body, Absent)

\* The struct stays zero when a section has no config.
DecodeConfig(t, body) ==
    CASE body = Absent -> [Type |-> t, TLS |-> Absent]
      [] t = "dummy"   -> DummyTransport(body)
      [] t = "uds"     -> UdsTransport(body)
      [] t = "quic"    -> QuicTransport(body)
      [] t = "tcp"     -> TcpTransport(body)
      [] t = "udp"     -> UdpTransport(body)

\* Transport.UnmarshalYAML: the common fields, then the config of that type.
UnmarshalYAML(section) ==
    LET t   == DecodeType(section.type)
        cnf == IF t = Bad THEN Bad ELSE DecodeConfig(t, section.config)
    IN  IF cnf = Bad THEN Bad ELSE [Type |-> t, Enabled |-> section.enabled, Config |-> cnf]

\* LoadConfig fails if the file cannot be read or one section does not decode;
\* Validate accepts every configuration.
LoadConfig(file) ==
    LET decoded == [i \in DOMAIN file.transports |-> UnmarshalYAML(file.transports[i])]
    IN  IF ~file.readable \/ Bad \in ToSet(decoded) THEN Bad
        ELSE [file EXCEPT !.transports = decoded]

\* The first section of the profiler for a service, or Absent.
GetPprofByServiceTag(cfg, tag) ==
    LET same == SelectSeq(cfg.pprof, LAMBDA p : p.name = tag)
    IN  IF same = <<>> THEN Absent ELSE same[1]

\* GetLogger wants a level that zap can parse and one of two environments.
LoggerFails(logger) ==
    logger.enabled /\ (~logger.validLevel \/ logger.environment \notin {"development", "production"})
====
