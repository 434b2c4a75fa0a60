----------------------------- MODULE NodeManager -----------------------------
(***************************************************************************)
(* The node's Manager (node/internal/engine/engine.go): it applies a       *)
(* deployed FullConfig to the engines, drops the engines nothing declares  *)
(* any more, writes the configuration to a file, and applies that file     *)
(* again when the node restarts.                                           *)
(*                                                                         *)
(* Update holds the manager's mutex from its first statement to its last,  *)
(* so two updates never interleave.  What can happen in between its steps  *)
(* is a crash of the node and the death of an engine's child process; so   *)
(* Update is a walk through stages.  The shared xray engine is XrayEngine; *)
(* an engine made of a supervised child is a slot: what the child that     *)
(* lives was started with.                                                 *)
(***************************************************************************)
EXTENDS Naturals

CONSTANTS
    SKey,        \* keys of engines that supervise a child: "singbox:...", "trusttunnel:..."
    Group,       \* what such an engine is started with
    FullConfig,  \* the configurations the manager may deploy
    NoGroup, NoFull, NoFile, Torn

\* The constants of XrayEngine.
CONSTANTS Tag, Settings, Id, Token, NoToken, Routing, Config, NoConfig

VARIABLES
    up,       \* the node process runs
    stage,    \* where Update is; "idle" when it is not running
    req,      \* the configuration Update is working on
    todo,     \* keys of groupedInbounds the engine loop has not visited
    engines,  \* keys of m.engines
    slot,     \* slot[k]: what the living child of engine k was started with
    disk,     \* what deployed_config.json decodes to
    current,  \* m.currentConfig
    result    \* how the last Update of this run of the node ended

VARIABLES
    sent,     \* observer: configurations sent since, and with, the last success
    settled   \* observer: configurations every engine has accepted

VARIABLES instance, live, last, lastAccounts, declared, accepted, drifted

xvars == <<instance, live, last, lastAccounts, declared, accepted, drifted>>
nvars == <<up, stage, req, todo, engines, slot, disk, current, result, sent, settled>>
vars == <<nvars, xvars>>

Xray == INSTANCE XrayEngine

XKey == "xray"  \* sharedXrayEngineKey
Key == SKey \cup {XKey}

(***************************************************************************)
(* groupedInbounds of a configuration: the xray group, if there is one,    *)
(* and what every other engine gets.                                       *)
(***************************************************************************)
FullConfigs ==
    [xray : Config \cup {NoConfig}, slots : UNION {[S -> Group] : S \in SUBSET SKey}]

ASSUME FullConfigAssumption == FullConfig \subseteq FullConfigs
ASSUME KeyAssumption == XKey \notin SKey
ASSUME NoGroupAssumption == NoGroup \notin Group
ASSUME NoFullAssumption == NoFull \notin FullConfig
ASSUME NoFileAssumption == NoFile \notin FullConfig
ASSUME TornAssumption == Torn \notin FullConfig /\ Torn # NoFile
ASSUME XrayAssumption ==  \* the assumptions of XrayEngine
    /\ Config \subseteq Xray!XrayConfig
    /\ NoConfig \notin Xray!XrayConfig
    /\ NoToken \notin Token

\* newEngineKeys
Keys(full) ==
    DOMAIN full.slots \cup (IF full.xray = NoConfig THEN {} ELSE {XKey})

Stage == {"idle", "sync", "engines", "prune", "save", "write", "adopt"}

TypeOK ==
    /\ up \in BOOLEAN
    /\ stage \in Stage
    /\ req \in FullConfig \cup {NoFull}
    /\ todo \subseteq Key
    /\ engines \subseteq Key
    /\ slot \in [SKey -> Group \cup {NoGroup}]
    /\ disk \in FullConfig \cup {NoFile, Torn}
    /\ current \in FullConfig \cup {NoFull}
    /\ result \in {"none", "ok", "error"}
    /\ sent \subseteq FullConfig
    /\ settled \subseteq FullConfig

\* A node that starts for the first time: NewManager, and nothing to restore.
Init ==
    /\ up = TRUE
    /\ stage = "idle"
    /\ req = NoFull
    /\ todo = {}
    /\ engines = {}
    /\ slot = [k \in SKey |-> NoGroup]
    /\ disk = NoFile
    /\ current = NoFull
    /\ result = "none"
    /\ sent = {}
    /\ settled = {}
    /\ Xray!Init

-----------------------------------------------------------------------------
(***************************************************************************)
(* Slips: plausible mistakes in the definitions below, used by none.       *)
(***************************************************************************)
SavesFirst(s) ==
    CASE s = "sync" -> "save" [] s = "save" -> "write" [] s = "write" -> "engines"
      [] s = "engines" -> "prune" [] s = "prune" -> "adopt"
PrunesNever(s) ==
    CASE s = "sync" -> "engines" [] s = "engines" -> "save"
      [] s = "prune" -> "save" [] s = "save" -> "write" [] s = "write" -> "adopt"
KeepsVisiting(k) == todo
LeavesChildren(full) == slot
SparesTheLiving(k) == IF slot[k] # NoGroup THEN slot[k] ELSE req.slots[k]
LosesXray ==
    /\ instance' = "none"
    /\ UNCHANGED <<live, last, lastAccounts, declared, accepted, drifted>>

-----------------------------------------------------------------------------
(***************************************************************************)
(* The steps of Update.                                                    *)
(***************************************************************************)

\* The order of Update's statements.
Following(s) ==
    CASE s = "sync" -> "engines"
      [] s = "engines" -> "prune"
      [] s = "prune" -> "save"
      [] s = "save" -> "write"
      [] s = "write" -> "adopt"

\* m.currentConfig while a configuration is being applied.
CurrentDuring(full) == current

\* What is left to visit of groupedInbounds after the group of k.
Remaining(k) == todo \ {k}

\* The children that are left when engines nothing declares are stopped.
SlotsKept(full) ==
    [k \in SKey |-> IF k \in Keys(full) THEN slot[k] ELSE NoGroup]

\* The xray engine is stopped and dropped; a later one starts from nothing.
DropXray == Xray!Fresh

Refuse ==  \* Update returns an error, m.mu is released
    /\ stage' = "idle"
    /\ req' = NoFull
    /\ todo' = {}
    /\ result' = "error"

Start(full) ==
    /\ stage' = "sync"
    /\ req' = full
    /\ todo' = Keys(full)
    /\ sent' = sent \cup {full}
    /\ current' = CurrentDuring(full)

\* The manager's RPC gets the mutex, filters accounts and groups inbounds.
Deploy(full) ==
    /\ up /\ stage = "idle"
    /\ Start(full)
    /\ UNCHANGED <<up, engines, slot, disk, result, settled, xvars>>

\* certificates.Sync, then ttOutbounds.sync; either may return an error.
SyncStores ==
    /\ stage = "sync"
    /\ \/ /\ stage' = Following("sync")
          /\ UNCHANGED <<req, todo, result>>
       \/ Refuse
    /\ UNCHANGED <<up, engines, slot, disk, current, sent, settled, xvars>>

\* The engine loop visits the xray group.
UpdateXray ==
    /\ stage = "engines" /\ XKey \in todo
    /\ engines' = engines \cup {XKey}
    /\ \/ /\ Xray!Sync(req.xray) \/ Xray!Rebuild(req.xray)
          /\ todo' = Remaining(XKey)
          /\ UNCHANGED <<stage, req, result>>
       \/ /\ Xray!RebuildFails(req.xray)
          /\ Refuse
    /\ UNCHANGED <<up, slot, disk, current, sent, settled>>

\* What UpdateConfig of a supervised engine may leave in its slot: an error
\* before the restart leaves the old child alone, one in the restart leaves
\* none.
SlotAfterUpdate(k) == req.slots[k]

UpdateSlot(k) ==
    /\ stage = "engines" /\ k \in todo \ {XKey}
    /\ engines' = engines \cup {k}
    /\ \/ /\ slot' = [slot EXCEPT ![k] = SlotAfterUpdate(k)]
          /\ todo' = Remaining(k)
          /\ UNCHANGED <<stage, req, result>>
       \/ /\ slot' \in {slot, [slot EXCEPT ![k] = NoGroup]}
          /\ Refuse
    /\ UNCHANGED <<up, disk, current, sent, settled, xvars>>

\* The loop is through.
EnginesSettled ==
    /\ stage = "engines" /\ todo = {}
    /\ stage' = Following("engines")
    /\ settled' = settled \cup {req}
    /\ UNCHANGED <<up, req, todo, engines, slot, disk, current, result, sent, xvars>>

\* Engines whose key is not in newEngineKeys are stopped and forgotten.
Prune ==
    /\ stage = "prune"
    /\ stage' = Following("prune")
    /\ engines' = engines \cap Keys(req)
    /\ slot' = SlotsKept(req)
    /\ IF XKey \in engines \ Keys(req) THEN DropXray ELSE UNCHANGED xvars
    /\ UNCHANGED <<up, req, todo, disk, current, result, sent, settled>>

\* savePersistedConfig up to the open in os.WriteFile, which truncates.
OpenFile ==
    /\ stage = "save"
    /\ \/ /\ stage' = Following("save")
          /\ disk' = Torn
          /\ UNCHANGED <<req, todo, result>>
       \/ /\ Refuse
          /\ UNCHANGED disk
    /\ UNCHANGED <<up, engines, slot, current, sent, settled, xvars>>

\* The write and close of os.WriteFile; an error leaves a torn file.
WriteFile ==
    /\ stage = "write"
    /\ \/ /\ stage' = Following("write")
          /\ disk' = req
          /\ UNCHANGED <<req, todo, result>>
       \/ /\ Refuse
          /\ UNCHANGED disk
    /\ UNCHANGED <<up, engines, slot, current, sent, settled, xvars>>

Adopt ==  \* m.currentConfig = config; return nil
    /\ stage = "adopt"
    /\ stage' = "idle"
    /\ current' = req
    /\ sent' = {req}
    /\ req' = NoFull
    /\ result' = "ok"
    /\ UNCHANGED <<up, todo, engines, slot, disk, settled, xvars>>

-----------------------------------------------------------------------------
(***************************************************************************)
(* The environment.                                                        *)
(***************************************************************************)

\* The child of an engine dies; nothing restarts it (see Supervisor).
ChildDies(k) ==
    /\ slot[k] # NoGroup
    /\ slot' = [slot EXCEPT ![k] = NoGroup]
    /\ UNCHANGED <<up, stage, req, todo, engines, disk, current, result, sent, settled, xvars>>

\* The node's container dies at any point; only the file survives.
Crash ==
    /\ up
    /\ up' = FALSE
    /\ stage' = "idle"
    /\ req' = NoFull
    /\ todo' = {}
    /\ engines' = {}
    /\ slot' = [k \in SKey |-> NoGroup]
    /\ current' = NoFull
    /\ result' = "none"
    /\ sent' = {}
    /\ Xray!Fresh
    /\ UNCHANGED <<disk, settled>>

\* main: NewManager, then RestoreLastConfig, before any RPC is served.  No
\* file means nothing to do, a torn one is a logged error; otherwise Update.
Restart ==
    /\ ~up
    /\ up' = TRUE
    /\ IF disk \in FullConfig
       THEN Start(disk)
       ELSE UNCHANGED <<stage, req, todo, sent, current>>
    /\ UNCHANGED <<engines, slot, disk, result, settled, xvars>>

-----------------------------------------------------------------------------
UpdateStep ==
    \/ SyncStores
    \/ UpdateXray
    \/ \E k \in SKey : UpdateSlot(k)
    \/ EnginesSettled
    \/ Prune
    \/ OpenFile
    \/ WriteFile
    \/ Adopt

Next ==
    \/ \E full \in FullConfig : Deploy(full)
    \/ UpdateStep
    \/ \E k \in SKey : ChildDies(k)
    \/ Crash
    \/ Restart

Spec == Init /\ [][Next]_vars

(***************************************************************************)
(* A running Update goes on: nothing in it waits for another goroutine.    *)
(* Deployments, deaths, crashes and restarts need not happen.              *)
(***************************************************************************)
FairSpec == Spec /\ WF_vars(UpdateStep)

-----------------------------------------------------------------------------
(***************************************************************************)
(* Properties.                                                             *)
(***************************************************************************)

\* After an Update that returned nil, until the next one: the file and
\* currentConfig are that configuration, the engines are those it needs, and
\* each serves its group of it -- or nothing, its child having died or its
\* core being closed -- whatever failed, half-applied updates came before.
AckedIsDeployed ==
    stage = "idle" /\ result = "ok" =>
        /\ current # NoFull /\ disk = current
        /\ engines = Keys(current)
        /\ \A k \in DOMAIN current.slots : slot[k] \in {current.slots[k], NoGroup}
        /\ XKey \in engines => declared = current.xray

\* End to end for the xray core: while it runs, it serves the inbounds,
\* outbounds, rules and DNS of the configuration acknowledged last, and, as
\* long as no user edit was lost, exactly its VLESS and Hysteria2 users.
AckedXrayIsServed ==
    stage = "idle" /\ result = "ok" /\ instance = "running" =>
        /\ Xray!Shape(live) = Xray!Shape(current.xray)
        /\ ~drifted =>
              \A t \in DOMAIN live.inbounds :
                  live.inbounds[t].kind = "edited" =>
                      live.inbounds[t].accounts = current.xray.inbounds[t].accounts

\* What an Update promised by returning nil, end to end: until the next one its
\* configuration is deployed, and is what the xray core serves if it runs.
AckedIsServed == AckedIsDeployed /\ AckedXrayIsServed

\* A readable file holds a configuration every engine has accepted once: a
\* restart never restores a configuration that was refused.
DiskWasSettled == disk \in FullConfig => disk \in settled

\* Between updates the file never gets ahead of currentConfig: it is the
\* same configuration or it cannot be read.
CurrentMatchesDisk ==
    stage = "idle" /\ current # NoFull => disk \in {current, Torn}

\* Whatever still serves is known to the manager, so that the next
\* configuration can replace or stop it.
ServingIsManaged ==
    /\ \A k \in SKey : slot[k] # NoGroup => k \in engines
    /\ instance = "running" => XKey \in engines

\* Nothing older than the last success is served: a child or core found
\* running was started for a configuration sent since then, or by it.
ServedWasSent ==
    /\ \A k \in SKey : slot[k] # NoGroup =>
          \E full \in sent : k \in DOMAIN full.slots /\ full.slots[k] = slot[k]
    /\ instance = "running" => \E full \in sent : full.xray = declared

\* Whatever serves is known to the manager and no older than the last success,
\* however many half-applied updates came before.
ServedIsKnown == ServingIsManaged /\ ServedWasSent

\* An update that has begun ends: it visits every group and lets the mutex
\* go, which GetStatus and the metrics sampler wait for.
UpdateEnds == stage # "idle" ~> stage = "idle"

\* The manager drives the xray engine by the engine's own operations only, so
\* what XrayEngine says of it holds in a node.
DrivesXray == Xray!Spec
=============================================================================
