------------------------ MODULE TrustTunnelOutbounds ------------------------
(***************************************************************************)
(* trustTunnelOutboundManager                                              *)
(* (node/internal/engine/trusttunnel_outbound.go): one TrustTunnel client  *)
(* process for each TrustTunnel outbound of the deployed configuration,    *)
(* each listening on a local socks port computed from the outbound's tag.  *)
(* sync starts the new client of an edited outbound before it stops the    *)
(* old one, and both are given the same port.                              *)
(*                                                                         *)
(* sync holds the mutex throughout; the clients run beside it.  That a     *)
(* client whose port is taken exits, and that a killed one keeps its port  *)
(* until it is gone, is how the external program and the operating system  *)
(* behave.                                                                 *)
(***************************************************************************)
EXTENDS Naturals

CONSTANTS
    Tag,       \* outbound tags, numbered in their sorting order
    Sig,       \* signatures: everything in an outbound's client configuration
    Port,      \* local socks ports
    PortOf,    \* trustTunnelOutboundSocksPort
    Client,    \* identities of client processes, reused when free
    NoClient   \* the tag has no process

ASSUME TagAssumption == Tag \subseteq Nat
ASSUME PortAssumption == PortOf \in [Tag -> Port]
ASSUME NoClientAssumption == NoClient \notin Client

VARIABLES
    processes,  \* m.processes
    client,     \* what each client process is doing, and was started for
    stage,      \* where sync is
    desired,    \* its desired map
    todo,       \* the tags it has yet to visit
    pending,    \* the client it has started and not yet recorded
    result,     \* how the last sync ended
    crashed,    \* observer: a client has died by itself
    collided    \* observer: a client has found its port taken

outboundVars == <<processes, client, stage, desired, todo, pending, result, crashed, collided>>

Desired == UNION {[S -> Sig] : S \in SUBSET Tag}

\* A "dying" client has been killed and still holds its port.
Phase == {"free", "starting", "serving", "dying"}

ClientRecord == [phase : Phase, tag : Tag, sig : Sig]

OutboundsTypeOK ==
    /\ processes \in [Tag -> Client \cup {NoClient}]
    /\ client \in [Client -> ClientRecord]
    /\ stage \in {"idle", "visit", "replace"}
    /\ desired \in Desired
    /\ todo \subseteq Tag
    /\ pending \in Client \cup {NoClient}
    /\ result \in {"none", "ok", "error"}
    /\ crashed \in BOOLEAN
    /\ collided \in BOOLEAN

OutboundsInit ==  \* newTrustTunnelOutboundManager
    /\ processes = [t \in Tag |-> NoClient]
    /\ \E t \in Tag, s \in Sig :  \* whatever a free client was last used for
          client = [c \in Client |-> [phase |-> "free", tag |-> t, sig |-> s]]
    /\ stage = "idle"
    /\ desired = <<>>
    /\ todo = {}
    /\ pending = NoClient
    /\ result = "none"
    /\ crashed = FALSE
    /\ collided = FALSE

-----------------------------------------------------------------------------
(***************************************************************************)
(* Slips: plausible mistakes in the definitions below, used by none.       *)
(***************************************************************************)
AlwaysRestarts(t) == FALSE
ComparesTagsOnly(t) == processes[t] # NoClient
StopsNobody(cs) == client
KillsByTag(cs) ==
    [c \in Client |->
        IF \E d \in cs \cap Client : client[d].tag = client[c].tag
        THEN [client[c] EXCEPT !.phase =
                  IF client[c].phase \in {"serving", "dying"} THEN "dying" ELSE "free"]
        ELSE client[c]]

-----------------------------------------------------------------------------
First(tags) == CHOOSE t \in tags : \A u \in tags : t <= u

\* The client recorded for t was started from the same configuration.  It
\* is not asked whether it still runs.
Unchanged(t) ==
    /\ processes[t] # NoClient
    /\ client[processes[t]].sig = desired[t]

\* The clients after those in cs have been killed.
AfterKill(cs) ==
    [c \in Client |->
        IF c \notin cs THEN client[c]
        ELSE [client[c] EXCEPT !.phase =
                  IF client[c].phase \in {"serving", "dying"} THEN "dying" ELSE "free"]]

\* m.processes without the tags that are no longer desired.
Pruned == [t \in Tag |-> IF t \in DOMAIN desired THEN processes[t] ELSE NoClient]

Recorded == {processes[t] : t \in Tag} \ {NoClient}

Return(outcome) ==
    /\ stage' = "idle"
    /\ todo' = {}
    /\ result' = outcome

-----------------------------------------------------------------------------
\* sync begins.
Sync(outbounds) ==
    /\ stage = "idle"
    /\ stage' = "visit"
    /\ desired' = outbounds
    /\ todo' = DOMAIN outbounds
    /\ UNCHANGED <<processes, client, pending, result, crashed, collided>>

\* A tag whose signature is the recorded one is left alone.
Skip ==
    /\ stage = "visit" /\ todo # {}
    /\ Unchanged(First(todo))
    /\ todo' = todo \ {First(todo)}
    /\ UNCHANGED <<processes, client, stage, desired, pending, result, crashed, collided>>

\* startTrustTunnelOutboundProcess: an error -- the configuration is
\* incomplete, a file cannot be written, exec fails -- ends sync there.
StartClient ==
    /\ stage = "visit" /\ todo # {}
    /\ ~Unchanged(First(todo))
    /\ \/ \E c \in Client \ Recorded :
             /\ client[c].phase = "free"
             /\ client' = [client EXCEPT ![c] =
                   [phase |-> "starting", tag |-> First(todo), sig |-> desired[First(todo)]]]
             /\ pending' = c
             /\ stage' = "replace"
             /\ UNCHANGED <<todo, result>>
       \/ /\ Return("error")
          /\ UNCHANGED <<client, pending>>
    /\ UNCHANGED <<processes, desired, crashed, collided>>

\* The old client, if any, is killed and the new one recorded.
Replace ==
    /\ stage = "replace"
    /\ client' = AfterKill({processes[First(todo)]})
    /\ processes' = [processes EXCEPT ![First(todo)] = pending]
    /\ todo' = todo \ {First(todo)}
    /\ pending' = NoClient
    /\ stage' = "visit"
    /\ UNCHANGED <<desired, result, crashed, collided>>

\* Clients of tags nobody wants any more are killed and dropped.
Prune ==
    /\ stage = "visit" /\ todo = {}
    /\ client' = AfterKill({processes[t] : t \in Tag \ DOMAIN desired})
    /\ processes' = Pruned
    /\ Return("ok")
    /\ UNCHANGED <<desired, pending, crashed, collided>>

-----------------------------------------------------------------------------
HoldsPort(c, port) ==
    client[c].phase \in {"serving", "dying"} /\ PortOf[client[c].tag] = port

Taken(c) == \E d \in Client \ {c} : HoldsPort(d, PortOf[client[c].tag])

\* A started client binds its port, or exits because it is taken.
Bind(c) ==
    /\ client[c].phase = "starting"
    /\ client' = [client EXCEPT ![c].phase = IF Taken(c) THEN "free" ELSE "serving"]
    /\ collided' = (collided \/ Taken(c))
    /\ UNCHANGED <<processes, stage, desired, todo, pending, result, crashed>>

\* A client dies by itself.  Its supervisor does not restart it.
Dies(c) ==
    /\ client[c].phase \in {"starting", "serving"}
    /\ client' = [client EXCEPT ![c].phase = "free"]
    /\ crashed' = TRUE
    /\ UNCHANGED <<processes, stage, desired, todo, pending, result, collided>>

\* A killed client is gone.
Gone(c) ==
    /\ client[c].phase = "dying"
    /\ client' = [client EXCEPT ![c].phase = "free"]
    /\ UNCHANGED <<processes, stage, desired, todo, pending, result, crashed, collided>>

OutboundsNext ==
    \/ \E outbounds \in Desired : Sync(outbounds)
    \/ Skip
    \/ StartClient
    \/ Replace
    \/ Prune
    \/ \E c \in Client : Bind(c) \/ Dies(c) \/ Gone(c)

OutboundsSpec == OutboundsInit /\ [][OutboundsNext]_outboundVars

-----------------------------------------------------------------------------
Alive(c) == client[c].phase \in {"starting", "serving"}

\* Every client that has not been killed is recorded for its tag, or about
\* to be: no edit, failure or removal leaks a process that holds a port.
NoLeak ==
    \A c \in Client : Alive(c) => c = pending \/ processes[client[c].tag] = c

\* After a successful sync the clients recorded are exactly those desired,
\* whatever failed syncs went before.
SyncedIsDesired ==
    stage = "idle" /\ result = "ok" =>
        \A t \in Tag :
            IF t \in DOMAIN desired
            THEN processes[t] # NoClient /\ client[processes[t]].sig = desired[t]
            ELSE processes[t] = NoClient

\* No client escapes the record, and after a success the record is what was asked for.
SyncLeavesDesired == NoLeak /\ SyncedIsDesired

\* A living client is killed only when its tag is no longer desired, or when
\* its outbound was edited and the replacement has been started: an outbound
\* that fails to start leaves its old client, and an unchanged one is left in
\* peace.
KillsOnlyReplaced ==
    [][\A c \in Client :
          (client[c].phase = "serving" /\ client'[c].phase = "dying") =>
              \/ client[c].tag \notin DOMAIN desired
              \/ /\ client[c].sig # desired[client[c].tag]
                 /\ pending # NoClient /\ client[pending].tag = client[c].tag]_outboundVars

\* Nothing is on its way up or down.
Quiet == stage = "idle" /\ \A c \in Client : client[c].phase \in {"free", "serving"}

DesiredServe ==
    \A t \in DOMAIN desired :
        processes[t] # NoClient /\ client[processes[t]].phase = "serving"

\* After a successful sync every desired outbound is served once its client
\* is up, if no client has ever died or found its port taken.  (A dead one
\* stays dead: Skip passes over an unchanged outbound without asking.)
ServedUnlessRaced ==
    Quiet /\ result = "ok" /\ ~crashed /\ ~collided => DesiredServe

\* A node "applies it exactly as declared" (README.md:43-45): the same,
\* without assuming that clients never meet on a port.
EditedServes == Quiet /\ result = "ok" /\ ~crashed => DesiredServe
=============================================================================
