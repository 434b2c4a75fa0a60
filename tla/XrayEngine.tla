----------------------------- MODULE XrayEngine -----------------------------
(***************************************************************************)
(* XrayEngine (node/internal/engine/xray.go): the in-process xray core     *)
(* that serves every xray inbound of a node.  UpdateConfig either rebuilds *)
(* the core from the whole configuration, or -- when only accounts differ  *)
(* from the last one -- edits the users of the running core through its    *)
(* own gRPC API.  The engine decides which by comparing with what it       *)
(* remembers, so its correctness is about what it remembers.               *)
(*                                                                         *)
(* The engine's mutex makes UpdateConfig and Stop atomic.                  *)
(***************************************************************************)
EXTENDS Naturals

CONSTANTS
    Tag,       \* inbound names
    Settings,  \* an inbound's declaration without its accounts
    Id,        \* account ids
    Token,     \* account credentials
    NoToken,   \* the account is not there
    Routing,   \* values of <<outbounds, rules, dns>>
    Config,    \* the configurations the manager may send
    NoConfig   \* nothing

AccountMap == [Id -> Token \cup {NoToken}]
NoAccounts == [i \in Id |-> NoToken]

(***************************************************************************)
(* What the engine's code distinguishes of a protocol: VLESS and Hysteria2 *)
(* users are edited in place; SOCKS5 and Shadowsocks users exist only in   *)
(* the configuration built at start; WireGuard peers force a rebuild; and  *)
(* Trojan is refused by the conversion.                                    *)
(***************************************************************************)
Kind == {"edited", "built", "wireguard", "refused"}

Inbound == [kind : Kind, settings : Settings, accounts : AccountMap]

XrayConfig ==
    [inbounds : UNION {[S -> Inbound] : S \in (SUBSET Tag) \ {{}}},
     routing : Routing]

ASSUME ConfigAssumption == Config \subseteq XrayConfig
ASSUME NoConfigAssumption == NoConfig \notin XrayConfig
ASSUME NoTokenAssumption == NoToken \notin Token

VARIABLES
    instance,      \* e.instance: "none" (nil), "running", or "closed" but not nil
    live,          \* what the core serves; NoConfig unless running
    last,          \* lastConfigs, lastDnsConfig, lastRules, lastOutboundsSnapshot
    lastAccounts,  \* lastAccounts, by tag
    declared,      \* observer: the last configuration UpdateConfig accepted
    accepted,      \* observer: UpdateConfig returned nil the last time
    drifted        \* observer: a user edit was lost since the core was built

vars == <<instance, live, last, lastAccounts, declared, accepted, drifted>>

\* normalizeInboundsForRestart, with the parts that are compared unchanged.
Shape(cfg) ==
    [inbounds |-> [t \in DOMAIN cfg.inbounds |->
                     [kind |-> cfg.inbounds[t].kind,
                      settings |-> cfg.inbounds[t].settings]],
     routing |-> cfg.routing]

HasKind(cfg, k) == \E t \in DOMAIN cfg.inbounds : cfg.inbounds[t].kind = k

TypeOK ==
    /\ instance \in {"none", "running", "closed"}
    /\ live \in XrayConfig \cup {NoConfig}
    /\ last \in {Shape(c) : c \in Config} \cup {NoConfig}
    /\ lastAccounts \in [Tag -> AccountMap]
    /\ declared \in Config \cup {NoConfig}
    /\ accepted \in BOOLEAN
    /\ drifted \in BOOLEAN

Init ==  \* NewXrayEngine
    /\ instance = "none"
    /\ live = NoConfig
    /\ last = NoConfig
    /\ lastAccounts = [t \in Tag |-> NoAccounts]
    /\ declared = NoConfig
    /\ accepted = FALSE
    /\ drifted = FALSE

-----------------------------------------------------------------------------
(***************************************************************************)
(* Slips: plausible mistakes in the definitions below, used by none.       *)
(***************************************************************************)
ForgetsRouting(cfg) ==
    \/ HasKind(cfg, "wireguard")
    \/ IF last = NoConfig THEN TRUE ELSE last.inbounds # Shape(cfg).inbounds
RemembersNothing(cfg) == lastAccounts

-----------------------------------------------------------------------------
\* The users an inbound is built with; none where there is no such inbound.
AccountsAt(cfg, t) ==
    IF t \in DOMAIN cfg.inbounds THEN cfg.inbounds[t].accounts ELSE NoAccounts

\* needsRestart.  An empty lastConfigs only means that no core was built yet.
NeedsRestart(cfg) ==
    \/ HasKind(cfg, "wireguard")
    \/ last = NoConfig
    \/ last # Shape(cfg)

(***************************************************************************)
(* syncAccounts, for one user: which credential the core may hold after    *)
(* the AlterInbound calls, from what it held, what lastAccounts says it    *)
(* holds, and what the configuration declares.  The results of the calls   *)
(* are discarded, so each of them may be lost (the caller's context is     *)
(* cancelled, the API is gone); adding a user who is already there fails.  *)
(***************************************************************************)
UserAfter(before, known, new) ==
    IF new = known THEN {before}
    ELSE IF new = NoToken THEN {before, NoToken}
    ELSE IF known = NoToken THEN {before, new}
    ELSE {before, NoToken, new}

\* What the core may serve after syncInboundAccounts(cfg).
Synced(cfg) ==
    {served \in [DOMAIN live.inbounds -> AccountMap] :
        \A t \in DOMAIN live.inbounds, i \in Id :
            served[t][i] \in
                IF live.inbounds[t].kind = "edited"
                THEN UserAfter(live.inbounds[t].accounts[i], lastAccounts[t][i],
                               cfg.inbounds[t].accounts[i])
                ELSE {live.inbounds[t].accounts[i]}}

\* lastAccounts after syncInboundAccounts(cfg): overwritten for the tags it
\* handles, whatever became of the calls; dropped for tags it does not see.
AccountsRemembered(cfg) ==
    [t \in Tag |->
        IF t \notin DOMAIN cfg.inbounds THEN NoAccounts
        ELSE IF cfg.inbounds[t].kind = "edited" THEN cfg.inbounds[t].accounts
        ELSE lastAccounts[t]]

-----------------------------------------------------------------------------
\* UpdateConfig without a rebuild.  (grpc.Dial does not connect, so its error
\* return is not a failure mode of the running system.)  The core may be a closed one: every call
\* then fails, which is as good as success to the code.
Sync(cfg) ==
    /\ instance # "none"
    /\ ~NeedsRestart(cfg)
    /\ IF instance = "running"
       THEN \E served \in Synced(cfg) :
              /\ live' = [live EXCEPT !.inbounds =
                            [t \in DOMAIN live.inbounds |->
                                [live.inbounds[t] EXCEPT !.accounts = served[t]]]]
              /\ drifted' = (drifted \/ \E t \in DOMAIN live.inbounds :
                               /\ live.inbounds[t].kind = "edited"
                               /\ \E i \in Id :
                                    LET new == cfg.inbounds[t].accounts[i]
                                    IN  new # lastAccounts[t][i] /\ served[t][i] # new)
       ELSE UNCHANGED <<live, drifted>>
    /\ last' = Shape(cfg)
    /\ lastAccounts' = AccountsRemembered(cfg)
    /\ declared' = cfg
    /\ accepted' = TRUE
    /\ UNCHANGED instance

\* restart, to the end.
Rebuild(cfg) ==
    /\ instance = "none" \/ NeedsRestart(cfg)
    /\ ~HasKind(cfg, "refused")
    /\ instance' = "running"
    /\ live' = cfg
    /\ last' = Shape(cfg)
    /\ lastAccounts' = [t \in Tag |-> AccountsAt(cfg, t)]
    /\ declared' = cfg
    /\ accepted' = TRUE
    /\ drifted' = FALSE

\* restart, failing after the old core has been closed: no free port, the
\* conversion or core.New refuse, custom outbounds cannot be registered, or
\* Start fails.  The closed core stays in e.instance and the last* fields
\* keep describing it.
RebuildFails(cfg) ==
    /\ instance = "none" \/ NeedsRestart(cfg)
    /\ instance' = IF instance = "none" THEN "none" ELSE "closed"
    /\ live' = NoConfig
    /\ accepted' = FALSE
    /\ UNCHANGED <<last, lastAccounts, declared, drifted>>

\* Stop
Stop ==
    /\ instance' = "none"
    /\ live' = NoConfig
    /\ UNCHANGED <<last, lastAccounts, declared, accepted, drifted>>

\* The manager drops the engine, or the node dies: what the core served is
\* gone, and the next engine comes from NewXrayEngine.
Fresh ==
    /\ instance' = "none"
    /\ live' = NoConfig
    /\ last' = NoConfig
    /\ lastAccounts' = [t \in Tag |-> NoAccounts]
    /\ declared' = NoConfig
    /\ accepted' = FALSE
    /\ drifted' = FALSE

Next ==
    \/ \E cfg \in Config : Sync(cfg) \/ Rebuild(cfg) \/ RebuildFails(cfg)
    \/ Stop
    \/ Fresh

Spec == Init /\ [][Next]_vars

-----------------------------------------------------------------------------
(***************************************************************************)
(* Properties.                                                             *)
(***************************************************************************)

\* A running core serves the inbounds, outbounds, rules and DNS of the last
\* accepted configuration: no sequence of rebuilds, in-place edits, failures
\* and stops lets needsRestart skip a rebuild that a change of settings needs.
ServesDeclaredShape ==
    instance = "running" => Shape(live) = Shape(declared)

\* What the engine remembers of editable users is what was declared last, as
\* long as a core runs: the next edit starts from the right base.
RemembersDeclaredUsers ==
    instance = "running" =>
        \A t \in DOMAIN declared.inbounds :
            declared.inbounds[t].kind = "edited" =>
                lastAccounts[t] = declared.inbounds[t].accounts

\* While no edit has been lost, the users of VLESS and Hysteria2 inbounds are
\* exactly the declared ones: a revoked account is gone, a new token is in.
\* (A lost edit is reported as applied and not tried again; SOCKS5 and
\* Shadowsocks users stay as they were built.)
ServesDeclaredUsers ==
    instance = "running" /\ ~drifted =>
        \A t \in DOMAIN live.inbounds :
            live.inbounds[t].kind = "edited" =>
                live.inbounds[t].accounts = declared.inbounds[t].accounts

\* WireGuard peers are those declared, whatever happened before: the code
\* rebuilds the core on every update rather than edit peers.
ServesDeclaredPeers ==
    instance = "running" =>
        \A t \in DOMAIN live.inbounds :
            HasKind(live, "wireguard") =>
                live.inbounds[t].accounts = declared.inbounds[t].accounts

\* The three together: whatever order of rebuilds, in-place edits, failures and
\* stops, a running core serves what was declared, so far as the code edits it.
ServesDeclared == ServesDeclaredShape /\ ServesDeclaredUsers /\ ServesDeclaredPeers

\* "Each node ... applies it exactly as declared" (README.md:43-45): once
\* UpdateConfig has returned nil a core runs, unless it was stopped since.
AcceptedIsServed == accepted /\ instance # "none" => instance = "running"
=============================================================================
