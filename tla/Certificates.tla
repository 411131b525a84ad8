---- MODULE Certificates ----
(***************************************************************************)
(* The certificate and the key on disk: the command `certs local` of       *)
(* cmd/certs.go writes the one and then the other, and GetTLSConfig of     *)
(* config/quic.go, called by NewServer of the QUIC transport, reads them.  *)
(* The two are different processes, and any call of either may fail.  A    *)
(* file holds what run number n generated, or is Missing or Torn: created  *)
(* or truncated and not written yet.                                       *)
(***************************************************************************)
EXTENDS Integers

CONSTANT MaxRuns  \* bound: runs of certs local

VARIABLES
    certFile,  \* the file at the configured path of the certificate
    keyFile,   \* the file at the configured path of the key
    runs,      \* runs of certs local so far
    certsPc,   \* where certs local is
    rootCA,    \* the configured root CA: none, good, or unreadable or no PEM
    load,      \* where GetTLSConfig is
    cert,      \* what it has read of the certificate
    key,       \* what it has read of the key
    steady     \* history: the files were one complete pair since it began

files == <<certFile, keyFile>>

Missing == 0
Torn    == -1

\* A certificate and the key that was made with it.
Matching(c, k) == c > 0 /\ c = k

TypeOK ==
    /\ {certFile, keyFile, cert, key} \subseteq {Missing, Torn} \cup 1 .. MaxRuns
    /\ runs \in 0 .. MaxRuns
    /\ certsPc \in {"idle", "openCert", "writeCert", "openKey", "writeKey"}
    /\ rootCA \in {"none", "good", "bad"}
    /\ load \in {"statCert", "statKey", "readCert", "readKey", "compare", "rootCA",
                 "loaded", "failed", "unreadable"}
    /\ steady \in BOOLEAN

Init ==
    /\ certFile = Missing /\ keyFile = Missing
    /\ runs = 0 /\ certsPc = "idle"
    /\ rootCA \in {"none", "good", "bad"}
    /\ load = "statCert" /\ cert = Missing /\ key = Missing /\ steady = FALSE

-----------------------------------------------------------------------------
(* certs local.                                                             *)

\* GenerateSelfSignedCert and ExportPEM make a new pair, in memory.
Generate ==
    /\ certsPc = "idle" /\ runs < MaxRuns
    /\ runs' = runs + 1 /\ certsPc' = "openCert"
    /\ UNCHANGED <<files, rootCA, load, cert, key, steady>>

\* os.WriteFile creates or truncates the file first.
Open ==
    /\ \/ certsPc = "openCert" /\ certFile' = Torn /\ certsPc' = "writeCert" /\ UNCHANGED keyFile
       \/ certsPc = "openKey" /\ keyFile' = Torn /\ certsPc' = "writeKey" /\ UNCHANGED certFile
    /\ steady' = FALSE
    /\ UNCHANGED <<runs, rootCA, load, cert, key>>

Write ==
    /\ \/ certsPc = "writeCert" /\ certFile' = runs /\ certsPc' = "openKey" /\ UNCHANGED keyFile
       \/ certsPc = "writeKey" /\ keyFile' = runs /\ certsPc' = "idle" /\ UNCHANGED certFile
    /\ UNCHANGED <<runs, rootCA, load, cert, key, steady>>

\* A call fails or the command is killed: the files stay as they are.
CertsFails ==
    /\ certsPc # "idle" /\ certsPc' = "idle"
    /\ UNCHANGED <<files, runs, rootCA, load, cert, key, steady>>

CertsLocal == Generate \/ Open \/ Write \/ CertsFails

-----------------------------------------------------------------------------
(* GetTLSConfig.                                                            *)

Disk == UNCHANGED <<files, runs, certsPc, rootCA>>

\* os.Stat: only a file that does not exist is an error here.
Stat ==
    /\ \/ /\ load = "statCert"
          /\ load' = IF certFile = Missing THEN "failed" ELSE "statKey"
          /\ steady' = Matching(certFile, keyFile)
       \/ /\ load = "statKey"
          /\ load' = IF keyFile = Missing THEN "failed" ELSE "readCert"
          /\ UNCHANGED steady
    /\ UNCHANGED <<cert, key>> /\ Disk

\* tls.LoadX509KeyPair reads one file after the other; either may not be
\* readable, a complete one neither (permissions, an I/O error).
Read ==
    /\ \/ load = "readCert" /\ cert' = certFile /\ load' = "readKey" /\ UNCHANGED key
       \/ load = "readKey" /\ key' = keyFile /\ load' = "compare" /\ UNCHANGED cert
       \/ load \in {"readCert", "readKey"} /\ load' = "unreadable" /\ UNCHANGED <<cert, key>>
    /\ UNCHANGED steady /\ Disk

\* Mutant: what was read is taken for a pair when both parts are complete.
MutNoCompare ==
    /\ load = "compare"
    /\ load' = IF cert > 0 /\ key > 0 THEN "rootCA" ELSE "failed"
    /\ UNCHANGED <<cert, key, steady>> /\ Disk

\* It parses both and compares the public keys.
Compare ==
    /\ load = "compare"
    /\ load' = IF Matching(cert, key) THEN "rootCA" ELSE "failed"
    /\ UNCHANGED <<cert, key, steady>> /\ Disk

ReadRootCA ==
    /\ load = "rootCA"
    /\ load' = IF rootCA = "bad" THEN "failed" ELSE "loaded"
    /\ UNCHANGED <<cert, key, steady>> /\ Disk

GetTLSConfig == Stat \/ Read \/ Compare \/ ReadRootCA

Next == CertsLocal \/ GetTLSConfig

-----------------------------------------------------------------------------

\* A QUIC server never gets parts of two pairs, whenever certs local writes its
\* files and wherever it is interrupted; and when GetTLSConfig could read both
\* files it fails only for a bad root CA or when the files were not one complete
\* pair all the time.
TlsSound ==
    /\ load = "loaded" => Matching(cert, key)
    /\ load = "failed" => rootCA = "bad" \/ ~steady
====
