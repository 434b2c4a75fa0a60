-------------------------- MODULE XrayCertificates --------------------------
(***************************************************************************)
(* A deployment as the xray engine and the certificate store see it        *)
(* (Manager.Update, node/internal/engine/engine.go): the store takes the   *)
(* declarations first; some engines may be visited before xray's, and end  *)
(* the update; xray's edits its users without a look at the certificates,  *)
(* or closes its core, resolves every name that its inbounds refer to, and *)
(* starts a new core with the files it was given.                          *)
(***************************************************************************)
EXTENDS XrayEngine

CONSTANTS
    Name, Pem, NoPem, NoCert, NoFile,  \* as in CertificateStore
    Refers,                            \* the names that an inbound's settings refer to
    Declarations                       \* the declarations that may be deployed

VARIABLES
    byName, paths, handed, since,      \* the store's
    stage,   \* of the update: "idle", "sent" to the engines, "building" a core
    sent,    \* the configuration it is about; NoConfig has no inbounds for xray
    left,    \* names that convertToConfig has yet to resolve
    built    \* observer: by name, what the last core was started with

Store == INSTANCE CertificateStore

ASSUME CertificatesAssumption ==
    /\ NoPem \notin Pem /\ NoFile \notin Pem \cup {NoPem}
    /\ NoCert \notin Store!Cert
    /\ Refers \in [Settings -> SUBSET Name]
    /\ Declarations \subseteq [Name -> Store!Cert \cup {NoCert}]

engine == vars
store == <<byName, paths, handed, since>>
update == <<stage, sent, left, built>>
nodeVars == <<engine, store, update>>

NotBuilt == [file |-> NoFile, since |-> {}]

\* The names resolveInboundTLSCertificate meets in a configuration.
Uses(cfg) == UNION {Refers[cfg.inbounds[t].settings] : t \in DOMAIN cfg.inbounds}

NodeInit ==
    /\ Init /\ Store!Init
    /\ stage = "idle" /\ sent = NoConfig /\ left = {}
    /\ built = [n \in Name |-> NotBuilt]

-----------------------------------------------------------------------------
\* Update, to where the engines are visited; or the store refuses.
Deploy(cfg, certs) ==
    /\ stage = "idle"
    /\ Store!Sync(certs)
    /\ stage' = "sent" /\ sent' = cfg
    /\ UNCHANGED <<engine, left, built>>

Refused ==
    /\ stage = "idle"
    /\ Store!SyncRefused
    /\ UNCHANGED <<engine, update>>

\* The update goes on without xray: it ended, with or without an error.
Ended == stage' = "idle" /\ sent' = NoConfig /\ left' = {}

\* The TrustTunnel outbounds or an engine visited earlier fail.
Abandon ==
    /\ stage = "sent"
    /\ Ended
    /\ UNCHANGED <<engine, store, built>>

\* sing-box and TrustTunnel resolve names while they are updated.
OthersResolve(n) ==
    /\ stage # "building"
    /\ Store!Resolve(n) \/ Store!ResolveFails(n)
    /\ UNCHANGED <<engine, update>>

\* UpdateConfig without a rebuild asks the store for nothing.
EditUsers ==
    /\ stage = "sent" /\ sent # NoConfig
    /\ Sync(sent)
    /\ Ended
    /\ UNCHANGED <<store, built>>

\* restart: the old core is closed before anything else.
CloseOld ==
    /\ stage = "sent" /\ sent # NoConfig
    /\ RebuildFails(sent)
    /\ stage' = "building"
    /\ left' = Uses(sent)
    /\ UNCHANGED <<store, sent, built>>

ResolveOne(n) ==
    /\ stage = "building" /\ n \in left
    /\ Store!Resolve(n)
    /\ left' = left \ {n}
    /\ UNCHANGED <<engine, stage, sent, built>>

StartNew ==
    /\ stage = "building" /\ left = {}
    /\ Rebuild(sent)
    /\ built' = [n \in Name |->
                    IF n \in Uses(sent) THEN [file |-> handed[n], since |-> since[n]] ELSE NotBuilt]
    /\ Ended
    /\ UNCHANGED store

\* A name does not resolve, or the conversion, core.New or Start fail.
StartFails ==
    /\ stage = "building"
    /\ Ended
    /\ UNCHANGED <<engine, store, built>>

\* There is nothing for xray in the configuration: the engine is stopped and dropped.
DropEngine ==
    /\ stage = "sent" /\ sent = NoConfig
    /\ Fresh
    /\ Ended
    /\ UNCHANGED <<store, built>>

\* The node starts anew: the store's records are gone, its files are not looked for.
NodeRestarts ==
    /\ Fresh
    /\ byName' = [n \in Name |-> NoCert] /\ paths' = [n \in Name |-> NoFile]
    /\ handed' = [n \in Name |-> NoFile] /\ since' = [n \in Name |-> {}]
    /\ Ended /\ built' = [n \in Name |-> NotBuilt]

NodeNext ==
    \/ \E cfg \in Config \cup {NoConfig}, certs \in Declarations : Deploy(cfg, certs)
    \/ Refused \/ Abandon
    \/ \E n \in Name : OthersResolve(n) \/ ResolveOne(n)
    \/ EditUsers \/ CloseOld \/ StartNew \/ StartFails
    \/ DropEngine \/ NodeRestarts

NodeSpec == NodeInit /\ [][NodeNext]_nodeVars

-----------------------------------------------------------------------------
(***************************************************************************)
(* Properties.                                                             *)
(***************************************************************************)
\* Every certificate that the running core was started with had been declared for the
\* very name its inbounds give, in that deployment or in one before it with no deployment
\* without the name in between; and so had every file that an engine is handed. (It need
\* not be the one that is declared: the store goes by the name, and an update that edits
\* users or leaves the core alone does not look at certificates.)
WereDeclared(file, contents) == IF file = NoFile THEN NoPem \in contents ELSE file \in contents
CertificatesWereDeclared ==
    /\ Store!HandedWasDeclared
    /\ instance = "running" =>
           \A n \in Uses(live) : WereDeclared(built[n].file, built[n].since)
=============================================================================
