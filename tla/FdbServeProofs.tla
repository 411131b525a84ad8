---- MODULE FdbServeProofs ----
(***************************************************************************)
(* Proofs about the serve command, for any configuration file and any list *)
(* of transports: which servers New makes, what Start has behind it when   *)
(* it returns, and which of them Stop reaches.                             *)
(***************************************************************************)
EXTENDS FdbServe, TLAPS

(* LoadConfig.                                                              *)

\* A section that decodes has the type it asks for, in its config too.
LEMMA SectionDecoded ==
    ASSUME NEW section \in Sections, UnmarshalYAML(section) # Bad
    PROVE  /\ UnmarshalYAML(section).Config.Type = Asked(section)
           /\ Asked(section) \in TransportTypes
<1> DEFINE t == DecodeType(section.type)
           cnf == DecodeConfig(t, section.config)
<1>1. t # Bad /\ cnf # Bad
  BY DEF UnmarshalYAML
<1>2. t \in TransportTypes /\ t = Asked(section)
  BY <1>1 DEF DecodeType, ParseTransportType, UDPTransportType, TransportTypes, Asked
<1>3. cnf.Type = t
  BY <1>1, <1>2 DEF DecodeConfig, TransportTypes, Filled, UdpTransport, TcpTransport, QuicTransport,
         DummyTransport, UdsTransport
<1>4. UnmarshalYAML(section).Config = cnf
  BY <1>1 DEF UnmarshalYAML
<1> QED BY <1>2, <1>3, <1>4

\* A file that loads keeps its databases, and its sections one by one.
LEMMA FileLoaded ==
    ASSUME NEW f \in ConfigFiles, LoadConfig(f) # Bad
    PROVE  /\ LoadConfig(f).mdbx = f.mdbx
           /\ Len(LoadConfig(f).transports) = Len(f.transports)
           /\ \A i \in 1 .. Len(f.transports) :
                /\ LoadConfig(f).transports[i].Config.Type = Asked(f.transports[i])
                /\ Asked(f.transports[i]) \in TransportTypes
<1> DEFINE decoded == [i \in DOMAIN f.transports |-> UnmarshalYAML(f.transports[i])]
<1>1. f.transports \in Seq(Sections) /\ DOMAIN f.transports = 1 .. Len(f.transports)
  BY DEF ConfigFiles
<1>2. LoadConfig(f) = [f EXCEPT !.transports = decoded] /\ Bad \notin ToSet(decoded)
  BY DEF LoadConfig
<1>3. LoadConfig(f).mdbx = f.mdbx /\ LoadConfig(f).transports = decoded
  BY <1>2 DEF ConfigFiles
<1>4. Len(decoded) = Len(f.transports)
  BY <1>1
<1>5. ASSUME NEW i \in 1 .. Len(f.transports)
      PROVE  /\ decoded[i].Config.Type = Asked(f.transports[i])
             /\ Asked(f.transports[i]) \in TransportTypes
  <2>1. f.transports[i] \in Sections /\ decoded[i] = UnmarshalYAML(f.transports[i])
    BY <1>1
  <2>2. decoded[i] # Bad
    BY <1>1, <1>2 DEF ToSet
  <2> QED BY <2>1, <2>2, SectionDecoded
<1> QED BY <1>3, <1>4, <1>5

-----------------------------------------------------------------------------
(* The inductive invariant.                                                 *)

\* The first n transports of the command line, and the types of the first n
\* sections of the file.
First(n) == {args[i] : i \in 1 .. n}
Made(n)  == {Asked(file.transports[i]) : i \in 1 .. n}

\* No two of them ask for the same type.
Distinct(n) ==
    \A i, j \in 1 .. n : i # j => Asked(file.transports[i]) # Asked(file.transports[j])

Given == file \in Files /\ args \in ArgLists /\ (pc # "exit" => next >= 1)

\* The command goes on with what LoadConfig made of the file.
Loaded ==
    pc \notin {"load", "exit", "panic"} => cfg = LoadConfig(file) /\ cfg # Bad

\* The manager has one server for every section New has been through.
Registered ==
    /\ pc \in {"load", "logger", "open"} => tm = {}
    /\ pc = "new" => /\ next <= Len(file.transports) + 1
                     /\ tm = Made(next - 1) /\ Distinct(next - 1)

\* Once New has returned, one server per section.
Served ==
    pc \in {"parse", "start", "launch", "wait", "serve", "stop"} =>
        tm = Made(Len(file.transports)) /\ Distinct(Len(file.transports))

HasDb == pc \in {"launch", "wait", "serve"} => "fdb" \in dbs

\* The goroutines that were launched, and the servers that are up when Start
\* has returned nil.
Launched ==
    /\ \A t \in TransportTypes : group[t] = "failed" => err
    /\ \A i \in DOMAIN args :
        /\ (pc = "launch" /\ i < next) \/ pc = "wait" =>
              args[i] \in TransportTypes /\ group[args[i]] # "none"
        /\ pc = "serve" \/ (pc = "stop" /\ result # "error") =>
              args[i] \in TransportTypes /\ group[args[i]] = "up"

\* How far Stop has come.
Stopping ==
    /\ pc \notin {"stop", "exit", "panic"} => stopped = {}
    /\ pc = "stop" => next <= Len(args) + 1 /\ stopped = First(next - 1)
    /\ pc = "exit" => \E n \in 0 .. Len(args) : stopped = First(n)

ServeIInv ==
    /\ TypeOK /\ Given /\ Loaded /\ Registered /\ HasDb /\ Launched /\ Stopping
    /\ UpHasWriter /\ Served /\ PanicNeedsFailedStart

LEMMA ServeInit == Init => ServeIInv
<1> SUFFICES ASSUME Init PROVE ServeIInv
  OBVIOUS
<1>1. err \in BOOLEAN /\ ctxDone \in BOOLEAN
  BY Zenon DEF Init
<1>2. TypeOK
  BY <1>1 DEF Init, TypeOK
<1>3. Given /\ Loaded /\ Registered /\ HasDb /\ Launched /\ Stopping
  BY DEF Init, Given, Loaded, Registered, HasDb, Launched, Stopping
<1>4. UpHasWriter /\ Served /\ PanicNeedsFailedStart
  BY DEF Init, UpHasWriter, Served, PanicNeedsFailedStart
<1> QED BY <1>2, <1>3, <1>4 DEF ServeIInv

\* What the prefixes are made of.
LEMMA FirstGrows ==
    /\ First(0) = {} /\ Made(0) = {}
    /\ \A n \in Nat \ {0} : First(n) = First(n - 1) \cup {args[n]}
    /\ \A n \in Nat \ {0} : Made(n) = Made(n - 1) \cup {Asked(file.transports[n])}
<1>1. First(0) = {} /\ Made(0) = {}
  BY DEF First, Made
<1>2. ASSUME NEW n \in Nat \ {0} PROVE 1 .. n = (1 .. (n - 1)) \cup {n}
  OBVIOUS
<1>3. ASSUME NEW n \in Nat \ {0} PROVE First(n) = First(n - 1) \cup {args[n]}
  BY <1>2 DEF First
<1>4. ASSUME NEW n \in Nat \ {0} PROVE Made(n) = Made(n - 1) \cup {Asked(file.transports[n])}
  BY <1>2 DEF Made
<1> QED BY <1>1, <1>3, <1>4

LEMMA FirstIsPrefix ==
    ASSUME args \in Seq(STRING), NEW n \in 0 .. Len(args)
    PROVE  First(n) = ToSet(SubSeq(args, 1, n))
<1>1. DOMAIN SubSeq(args, 1, n) = 1 .. n
  OBVIOUS
<1>2. \A i \in 1 .. n : SubSeq(args, 1, n)[i] = args[i]
  OBVIOUS
<1> QED BY <1>1, <1>2 DEF First, ToSet

-----------------------------------------------------------------------------
(* The steps of the command.                                                *)

LEMMA Facts ==
    ServeIInv =>
        /\ file \in ConfigFiles /\ Len(file.transports) \in Nat
        /\ args \in Seq(STRING) /\ Len(args) \in Nat /\ DOMAIN args = 1 .. Len(args)
<1> SUFFICES ASSUME ServeIInv
             PROVE  /\ file \in ConfigFiles /\ Len(file.transports) \in Nat
                    /\ args \in Seq(STRING) /\ Len(args) \in Nat /\ DOMAIN args = 1 .. Len(args)
  OBVIOUS
<1>1. file \in ConfigFiles /\ args \in Seq(STRING)
  BY ServeAssumption DEF ServeIInv, Given
<1>2. file.transports \in Seq(Sections)
  BY <1>1 DEF ConfigFiles
<1> QED BY <1>1, <1>2

\* LoadConfig and New.
LEMMA NewStep ==
    ASSUME ServeIInv,
           Load \/ NewLogger \/ OpenDb \/ OpenEnds \/ NewTransport \/ New \/ ParseArgs
    PROVE  ServeIInv'
<1> USE Facts DEF ServeIInv, TypeOK, Given, Loaded, Registered, HasDb, Launched, Stopping, UpHasWriter,
        PanicNeedsFailedStart, Served, First, Before, given, running, loaded
<1>1. CASE Load
  BY <1>1, FirstGrows DEF Load, Fail, Goto
<1>2. CASE NewLogger
  BY <1>2, FirstGrows DEF NewLogger, Fail, Goto
<1>3. CASE OpenDb
  <2>1. CASE Fail /\ UNCHANGED dbs
    BY <1>3, <2>1, FirstGrows DEF OpenDb, Fail
  <2>2. CASE dbs' = dbs \cup {Nodes[next]} /\ next' = next + 1 /\ UNCHANGED <<tm, pc, result>>
    <3>1. Nodes = <<>> \/ Nodes = file.mdbx.nodes
      BY <1>3, FileLoaded DEF OpenDb, Nodes
    <3>2. file.mdbx.nodes \in Seq(STRING)
      BY DEF ConfigFiles
    <3>3. Nodes[next] \in ToSet(file.mdbx.nodes)
      BY <1>3, <3>1, <3>2 DEF OpenDb, ToSet
    <3>4. dbs' \subseteq ToSet(file.mdbx.nodes)
      BY <2>2, <3>3
    <3>5. /\ pc = "open" /\ UNCHANGED <<file, args, cfg, pprof, writers, group, err, ctxDone, stopped>>
          /\ "fdb" \in dbs => "fdb" \in dbs'
      BY <1>3, <2>2 DEF OpenDb
    <3> QED BY <2>2, <3>4, <3>5
  <2> QED BY <1>3, <2>1, <2>2 DEF OpenDb
<1>4. CASE OpenEnds
  <2>1. /\ pc = "open" /\ pc' = "new" /\ next' = 1
        /\ UNCHANGED <<file, args, cfg, dbs, tm, pprof, writers, group, err, ctxDone, stopped, result>>
    BY <1>4 DEF OpenEnds, Goto
  <2>2. tm' = {}
    BY <2>1
  <2>3. Registered'
    BY <2>1, <2>2 DEF Made, Distinct
  <2> QED BY <2>1, <2>3
<1>5. CASE NewTransport
  <2> DEFINE t == Asked(file.transports[next])
  <2>1. /\ cfg = LoadConfig(file) /\ cfg # Bad /\ pc = "new" /\ next \in 1 .. Len(file.transports)
        /\ UNCHANGED <<file, args, cfg, dbs, pprof, writers, group, err, ctxDone, stopped>>
    BY <1>5, FileLoaded DEF NewTransport
  <2>2. cfg.transports[next].Config.Type = t /\ t \in TransportTypes
    BY <2>1, FileLoaded
  <2>3. CASE Fail
    BY <2>1, <2>3, FirstGrows DEF Fail
  <2>4. CASE RegisterTransport(t) /\ next' = next + 1 /\ UNCHANGED <<pc, result>>
    <3>1. t \notin tm /\ tm' = tm \cup {t} /\ tm' \subseteq TransportTypes
      BY <2>2, <2>4 DEF RegisterTransport
    <3>2. tm' = Made(next)
      BY <2>1, <3>1, FirstGrows
    <3>3. next' - 1 = next
      BY <2>1, <2>4
    <3>4. \A i \in 1 .. (next - 1) : Asked(file.transports[i]) # t
      BY <2>1, <3>1 DEF Made
    <3>5. \A i \in 1 .. next : i = next \/ i \in 1 .. (next - 1)
      BY <2>1
    <3>6. Distinct(next)
      BY <2>1, <3>4, <3>5 DEF Distinct
    <3>7. Registered'
      BY <2>1, <2>4, <3>2, <3>3, <3>6 DEF Made, Distinct
    <3> QED BY <2>1, <2>4, <3>1, <3>7
  <2> QED BY <1>5, <2>2, <2>3, <2>4 DEF NewTransport
<1>6. CASE New
  <2>1. /\ cfg = LoadConfig(file) /\ cfg # Bad /\ pc = "new" /\ next = Len(file.transports) + 1
        /\ UNCHANGED <<file, args, cfg, dbs, tm, pprof, writers, group, err, ctxDone, stopped, result>>
        /\ pc' = "parse" /\ next' = 1
    BY <1>6, FileLoaded DEF New, Goto
  <2>2. next - 1 = Len(file.transports)
    BY <2>1
  <2>3. Served'
    BY <2>1, <2>2 DEF Made, Distinct
  <2> QED BY <2>1, <2>3
<1>7. CASE ParseArgs
  BY <1>7, FirstGrows DEF ParseArgs, Fail, Goto, Made, Distinct
<1> QED BY <1>1, <1>2, <1>3, <1>4, <1>5, <1>6, <1>7

\* Start, and the goroutines of its group.
LEMMA StartStep ==
    ASSUME ServeIInv,
           \/ StartBegins \/ Launch \/ LaunchEnds \/ Wait \/ ServeEnds \/ PprofFails \/ CancelContext
           \/ \E t \in TransportTypes : TransportStart(t)
    PROVE  ServeIInv'
<1> USE Facts DEF ServeIInv, TypeOK, Given, Loaded, Registered, HasDb, Launched, Stopping, UpHasWriter,
        PanicNeedsFailedStart, Served, First, Made, Distinct, Fixed, given, loaded,
        StartEnds
<1>1. CASE StartBegins
  BY <1>1, FirstGrows DEF StartBegins
<1>2. CASE Launch
  BY <1>2, FirstGrows DEF Launch, Registry, TransportTypes
<1>3. CASE LaunchEnds
  BY <1>3 DEF LaunchEnds
<1>4. CASE Wait
  BY <1>4, FirstGrows DEF Wait
<1>5. CASE ServeEnds
  BY <1>5, FirstGrows DEF ServeEnds
<1>6. CASE PprofFails
  BY <1>6 DEF PprofFails
<1>7. CASE CancelContext
  BY <1>7 DEF CancelContext
<1>8. ASSUME NEW t \in TransportTypes, TransportStart(t) PROVE ServeIInv'
  <2>1. /\ group[t] = "ready" /\ pc \notin {"exit", "panic"}
        /\ UNCHANGED <<file, args, cfg, dbs, pprof, tm, pc, next, writers, ctxDone, stopped, result>>
    BY <1>8 DEF TransportStart
  <2>2. CASE group' = [group EXCEPT ![t] = "up"] /\ UNCHANGED err
    BY <2>1, <2>2
  <2>3. CASE group' = [group EXCEPT ![t] = "failed"] /\ err'
    BY <2>1, <2>3
  <2> QED BY <1>8, <2>2, <2>3 DEF TransportStart
<1> QED BY <1>1, <1>2, <1>3, <1>4, <1>5, <1>6, <1>7, <1>8

\* The command ends with what Stop has come to.
LEMMA StoppedHere ==
    ASSUME NEW n \in 0 .. Len(args), stopped' = First(n), pc' = "exit", args' = args
    PROVE  Stopping'
<1>1. stopped' = {args'[i] : i \in 1 .. n} /\ n \in 0 .. Len(args')
  BY DEF First
<1> QED BY <1>1 DEF Stopping, First

\* Stop.
LEMMA StopStep ==
    ASSUME ServeIInv, StopTransport \/ StopEnds
    PROVE  ServeIInv'
<1> USE Facts DEF ServeIInv, TypeOK, Given, Loaded, Registered, HasDb, Launched, Stopping, UpHasWriter,
        PanicNeedsFailedStart, Served, Made, Distinct, Fixed, given, loaded
<1>1. CASE StopTransport
  <2>1. PICK o \in StopOutcomes(args[next]) :
            /\ stopped' = IF o = "ok" THEN stopped \cup {args[next]} ELSE stopped
            /\ pc' = CASE o = "ok" -> "stop" [] o = "error" -> "exit" [] o = "panic" -> "panic"
    BY <1>1 DEF StopTransport
  <2>2. /\ pc = "stop" /\ next \in 1 .. Len(args) /\ args[next] \in tm /\ next' = next + 1
        /\ UNCHANGED <<file, args, cfg, dbs, pprof, tm, writers, group, err, ctxDone, result>>
    BY <1>1 DEF StopTransport, GetTransport
  <2>3. /\ o \in {"ok", "error", "panic"}
        /\ o = "panic" => args[next] = "quic" /\ group[args[next]] # "up"
    BY <2>1 DEF StopOutcomes
  <2>4. First(next) = First(next - 1) \cup {args[next]}
    BY <2>2, FirstGrows
  <2>5. CASE o = "ok"
    <3>1. pc' = "stop" /\ stopped' = First(next) /\ next' - 1 = next /\ next' <= Len(args) + 1
      BY <2>1, <2>2, <2>4, <2>5
    <3>2. Stopping'
      BY <2>2, <3>1 DEF First
    <3>3. stopped' \subseteq TransportTypes
      BY <2>1, <2>2, <2>5
    <3> QED BY <2>2, <3>1, <3>2, <3>3
  <2>6. CASE o = "error"
    <3>1. pc' = "exit" /\ stopped' = First(next - 1) /\ next - 1 \in 0 .. Len(args)
      BY <2>1, <2>2, <2>6
    <3>2. Stopping'
      BY <2>2, <3>1, StoppedHere
    <3> QED BY <2>2, <3>1, <3>2
  <2>7. CASE o = "panic"
    <3>1. pc' = "panic" /\ stopped' = stopped
      BY <2>1, <2>7
    <3>2. result = "error"
      BY <2>2, <2>3, <2>7
    <3> QED BY <2>2, <3>1, <3>2
  <2> QED BY <2>3, <2>5, <2>6, <2>7
<1>2. CASE StopEnds
  <2>1. /\ pc = "stop" /\ pc' = "exit" /\ next - 1 \in 0 .. Len(args)
        /\ UNCHANGED <<file, args, cfg, dbs, pprof, tm, next, writers, group, err, ctxDone, stopped, result>>
    BY <1>2 DEF StopEnds
  <2>2. Stopping'
    BY <2>1, StoppedHere
  <2> QED BY <2>1, <2>2
<1> QED BY <1>1, <1>2

LEMMA ServeStep == ServeIInv /\ [Next]_vars => ServeIInv'
<1> SUFFICES ASSUME ServeIInv, [Next]_vars PROVE ServeIInv'
  OBVIOUS
<1>1. CASE Next
  BY <1>1, NewStep, StartStep, StopStep DEF Next, Main
<1>2. CASE UNCHANGED vars
  BY <1>2 DEF vars, given, loaded, running, ServeIInv, TypeOK, Given, Loaded, Registered, HasDb, Launched,
              Stopping, First, Made, Distinct, UpHasWriter, PanicNeedsFailedStart, Served
<1> QED BY <1>1, <1>2

LEMMA InductiveHolds == Spec => []ServeIInv
BY ServeInit, ServeStep, PTL DEF Spec

\* In every state of the command (ServeInv) a server that was started has its
\* handlers and its batch writer over an open database, and the transports Stop
\* has stopped when the command exits are the first ones of the list.
THEOREM ServeCorrect == Spec => []ServeInv
<1>1. ServeIInv => ServeInv
  <2> SUFFICES ASSUME ServeIInv PROVE StoppedIsPrefix
    BY DEF ServeIInv, ServeInv
  <2>1. SUFFICES ASSUME pc = "exit" PROVE \E n \in 0 .. Len(args) : stopped = ToSet(SubSeq(args, 1, n))
    BY DEF StoppedIsPrefix
  <2>2. PICK n \in 0 .. Len(args) : stopped = First(n)
    BY <2>1 DEF ServeIInv, Stopping
  <2>3. stopped = ToSet(SubSeq(args, 1, n))
    BY <2>2, FirstIsPrefix, Facts
  <2> QED BY <2>3
<1> QED BY <1>1, InductiveHolds, PTL

\* Once New has returned, the servers are of the types the sections ask for, every
\* enabled section has one and no two of them ask for the same type
\* (ServersMatchSections), whatever the file holds: sections that do not decode or
\* repeat a type never get there.
THEOREM SectionsBecomeServers == Spec => []ServersMatchSections
<1>1. ServeIInv => ServersMatchSections
  <2> SUFFICES ASSUME ServeIInv, pc \in {"parse", "start", "launch", "wait", "serve", "stop"}
               PROVE  /\ tm \subseteq {Asked(section) : section \in ToSet(file.transports)}
                      /\ \A i \in DOMAIN file.transports : file.transports[i].enabled =>
                            /\ Asked(file.transports[i]) \in tm
                            /\ \A j \in DOMAIN file.transports :
                                  file.transports[j].enabled /\ j # i =>
                                      Asked(file.transports[j]) # Asked(file.transports[i])
    BY DEF ServersMatchSections
  <2>1. tm = Made(Len(file.transports)) /\ Distinct(Len(file.transports))
    BY DEF ServeIInv, Served
  <2>2. DOMAIN file.transports = 1 .. Len(file.transports)
    BY Facts DEF ConfigFiles
  <2>3. tm \subseteq {Asked(section) : section \in ToSet(file.transports)}
    BY <2>1, <2>2 DEF Made, ToSet
  <2>4. \A i \in DOMAIN file.transports : Asked(file.transports[i]) \in tm
    BY <2>1, <2>2 DEF Made
  <2>5. \A i, j \in DOMAIN file.transports :
            j # i => Asked(file.transports[j]) # Asked(file.transports[i])
    BY <2>1, <2>2 DEF Distinct
  <2> QED BY <2>3, <2>4, <2>5
<1> QED BY <1>1, InductiveHolds, PTL

\* Stop of a QUIC server that does not listen panics only after a Start that
\* returned an error (PanicNeedsFailedStart).
THEOREM StopPanicsAfterFailedStart == Spec => []PanicNeedsFailedStart
<1>1. ServeIInv => PanicNeedsFailedStart
  BY DEF ServeIInv
<1> QED BY <1>1, InductiveHolds, PTL
====
