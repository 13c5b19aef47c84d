----------------------------- MODULE TLSReload -----------------------------
(***************************************************************************)
(* The certificate of gateway/tlsconfig: read from two files, which an     *)
(* operator replaces one after the other while a timer makes the server    *)
(* read them again.  Pair n of certificate and key is the number n; a      *)
(* certificate file with another pair has another size or mtime.           *)
(***************************************************************************)
EXTENDS Integers

VARIABLES
    latest,             \* the newest pair issued
    certFile, keyFile,  \* the pairs the two files belong to
    cert,               \* Config.cert: <<certificate, key>>
    lastLoaded,         \* Config.lastLoaded: the pair of the file that was stat'ed
    pc, read,           \* Reload: where it is, and what it has read
    raced               \* history: the file changed between the load and the stat

vars == <<latest, certFile, keyFile, cert, lastLoaded, pc, read, raced>>

\* After a Load during which nobody replaced the files.
Init ==
    /\ latest = 1 /\ certFile = 1 /\ keyFile = 1
    /\ cert = <<1, 1>> /\ lastLoaded = 1
    /\ pc = "idle" /\ read = <<1, 1>> /\ raced = FALSE

\* The operator issues a pair and installs its halves, in either order.
rotate ==
    /\ \/ latest' = latest + 1 /\ UNCHANGED <<certFile, keyFile>>
       \/ certFile' = latest /\ UNCHANGED <<latest, keyFile>>
       \/ keyFile' = latest /\ UNCHANGED <<latest, certFile>>
    /\ UNCHANGED <<cert, lastLoaded, pc, read, raced>>

\* LoadX509KeyPair reads the certificate, then the key.
readCert ==
    /\ pc = "idle" /\ pc' = "key"
    /\ read' = [read EXCEPT ![1] = certFile]
    /\ UNCHANGED <<latest, certFile, keyFile, cert, lastLoaded, raced>>

\* A key of another pair, or an unreadable file, is an error: Reload returns and
\* the loaded certificate stays.
readKey ==
    /\ pc = "key"
    /\ \/ keyFile = read[1] /\ pc' = "stat" /\ read' = [read EXCEPT ![2] = keyFile]
       \/ pc' = "idle" /\ UNCHANGED read
    /\ UNCHANGED <<latest, certFile, keyFile, cert, lastLoaded, raced>>

\* certFingerprint, and the stores unless it is the one of the last load.
statAndStore ==
    /\ pc = "stat" /\ pc' = "idle"
    /\ \/ lastLoaded = certFile /\ UNCHANGED <<cert, lastLoaded, raced>>
       \/ /\ lastLoaded # certFile
          /\ cert' = read /\ lastLoaded' = certFile
          /\ raced' = (raced \/ certFile # read[1])
       \/ UNCHANGED <<cert, lastLoaded, raced>>     \* stat failed
    /\ UNCHANGED <<latest, certFile, keyFile, read>>

Next == rotate \/ readCert \/ readKey \/ statAndStore

Spec == Init /\ [][Next]_vars

-----------------------------------------------------------------------------

\* A handshake is never given a certificate with the key of another, although
\* the files are replaced one by one.
ServedIsPair == cert[1] = cert[2]

\* A reload never goes back to an older certificate.
NeverOlder == cert'[1] >= cert[1]

\* The certificate served is the one whose fingerprint is remembered, hence the
\* next change of the file is noticed, unless the file was replaced between
\* the load and the stat.
StaleOnlyByRace == raced \/ cert[1] = lastLoaded
=============================================================================
