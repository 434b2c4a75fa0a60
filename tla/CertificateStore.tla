-------------------------- MODULE CertificateStore --------------------------
(***************************************************************************)
(* CertificatesManager (node/internal/engine/certificates.go): certificate *)
(* declarations of the last deployed configuration, by name, and the files *)
(* that custom (inline PEM) certificates have been written to.  Sync runs  *)
(* once per deployment; engines resolve names while they build their own   *)
(* configuration.  Both run under the store's mutex.                       *)
(*                                                                         *)
(* A file is identified with the PEM it holds: files are never rewritten.  *)
(***************************************************************************)
EXTENDS Naturals

CONSTANTS
    Name,     \* certificate names, as trimmed
    Pem,      \* certificate and key contents
    NoPem,    \* a custom certificate with a blank PEM
    NoCert,   \* the name is not declared
    NoFile    \* nothing has been written for the name

Custom(pem) == [kind |-> "custom", pem |-> pem]
Acme == [kind |-> "acme", pem |-> NoPem]
Cert == {Custom(pem) : pem \in Pem \cup {NoPem}} \cup {Acme}

VARIABLES
    byName,   \* m.byName
    paths,    \* m.paths, each path standing for the content of its file
    handed,   \* observer: the file last handed out for a name since Sync
    since     \* observer: contents declared since the name was last missing

vars == <<byName, paths, handed, since>>

TypeOK ==
    /\ byName \in [Name -> Cert \cup {NoCert}]
    /\ paths \in [Name -> Pem \cup {NoFile}]
    /\ handed \in [Name -> Pem \cup {NoFile}]
    /\ since \in [Name -> SUBSET (Pem \cup {NoPem})]

Init ==  \* NewCertificatesManager
    /\ byName = [n \in Name |-> NoCert]
    /\ paths = [n \in Name |-> NoFile]
    /\ handed = [n \in Name |-> NoFile]
    /\ since = [n \in Name |-> {}]

-----------------------------------------------------------------------------
(***************************************************************************)
(* Slips, used by no definition below.                                     *)
(***************************************************************************)
KeepsAllPaths(certs) == paths

-----------------------------------------------------------------------------
\* m.paths after Sync: carried over by name, whatever the declaration says.
PathsAfterSync(certs) ==
    [n \in Name |-> IF certs[n] # NoCert THEN paths[n] ELSE NoFile]

\* m.paths[n] after a successful materializeInlineCertificate, or as it was
\* when there is nothing to write or a cached file to reuse.
PathAfterResolve(n) ==
    IF byName[n] \in {Custom(pem) : pem \in Pem} /\ paths[n] = NoFile
    THEN byName[n].pem
    ELSE paths[n]

\* Sync with the declarations certs (NoCert where a name has none).
Sync(certs) ==
    /\ byName' = certs
    /\ paths' = PathsAfterSync(certs)
    /\ handed' = [n \in Name |-> NoFile]
    /\ since' = [n \in Name |-> IF certs[n] = NoCert THEN {}
                                ELSE since[n] \cup {certs[n].pem}]

\* Sync refusing a certificate without a name: nothing is swapped in.
SyncRefused == UNCHANGED vars

\* GetCertificatePaths for a declared name that resolves.  An ACME name
\* resolves to certmagic's file for its domain, whatever is cached.
Resolve(n) ==
    /\ byName[n] # NoCert
    /\ byName[n] # Custom(NoPem)
    /\ paths' = [paths EXCEPT ![n] = PathAfterResolve(n)]
    /\ handed' = [handed EXCEPT ![n] =
                     IF byName[n] = Acme THEN NoFile ELSE PathAfterResolve(n)]
    /\ UNCHANGED <<byName, since>>

\* GetCertificatePaths with an error: an undeclared name, a blank PEM, or a
\* file that cannot be written.
ResolveFails(n) ==
    /\ byName[n] = NoCert \/ byName[n] = Custom(NoPem)
         \/ (byName[n] # Acme /\ paths[n] = NoFile)
    /\ UNCHANGED vars

Next ==
    \/ \E certs \in [Name -> Cert \cup {NoCert}] : Sync(certs)
    \/ SyncRefused
    \/ \E n \in Name : Resolve(n) \/ ResolveFails(n)

Spec == Init /\ [][Next]_vars

-----------------------------------------------------------------------------
\* A custom certificate handed to an engine was declared for that very name
\* since the name was last missing from a deployment.  So a deployment without
\* the name is enough to retire its old content -- and, the cache going by
\* name alone, it is the only way short of restarting the node.
HandedWasDeclared ==
    \A n \in Name : handed[n] # NoFile => handed[n] \in since[n]

\* The custom certificate handed to an engine is the one the deployed
\* configuration declares ("applies it exactly as declared", README.md:43-45).
HandedIsDeclared ==
    \A n \in Name : handed[n] # NoFile => Custom(handed[n]) = byName[n]
=============================================================================
