---- MODULE QuicTransport ----
(***************************************************************************)
(* The QUIC transport from NewServer on: the server of QuicServer exists   *)
(* only when GetTLSConfig of Certificates has loaded its pair, while the   *)
(* command certs local may write the files at any time.                    *)
(***************************************************************************)
EXTENDS QuicServer

CONSTANT MaxRuns  \* bound: runs of certs local

ASSUME RunsAssumption == MaxRuns \in Nat

VARIABLES certFile, keyFile, runs, certsPc, rootCA, load, cert, key, steady

C == INSTANCE Certificates

certVars == <<certFile, keyFile, runs, certsPc, rootCA, load, cert, key, steady>>
allVars  == <<vars, certVars>>

TransportInit == Init /\ C!Init

\* NewServer returns when GetTLSConfig does, and the lifecycle begins.
TransportNext ==
    \/ C!Next /\ UNCHANGED vars
    \/ load = "loaded" /\ Next /\ UNCHANGED certVars

TransportSpec == TransportInit /\ [][TransportNext]_allVars /\ Fairness

\* A QUIC server never gets parts of two pairs, whenever certs local writes its
\* files and wherever it is interrupted; and when GetTLSConfig could read both
\* files it fails only for a bad root CA or when the files were not one complete
\* pair all the time.
TlsSound == C!TypeOK /\ C!TlsSound
====
