-------------------------- MODULE XrayEngineProofs ---------------------------
(***************************************************************************)
(* Proofs about XrayEngine, for every set of inbounds, accounts, tokens,   *)
(* settings and configurations.                                            *)
(***************************************************************************)
EXTENDS XrayEngine, TLAPS

\* The users of the inbounds that are edited in place.
EditedUsersAgree(c, d) ==
    \A t \in DOMAIN c.inbounds :
        c.inbounds[t].kind = "edited" => c.inbounds[t].accounts = d.inbounds[t].accounts

(***************************************************************************)
(* While a core runs, it serves and the engine remembers the shape of the  *)
(* last accepted configuration.  The three promises on users and peers     *)
(* need this, because an in-place edit trusts last to describe live.       *)
(***************************************************************************)
ShapesAgree ==
    instance = "running" =>
        /\ live \in XrayConfig
        /\ declared \in Config
        /\ last = Shape(declared)
        /\ Shape(live) = Shape(declared)

IInv ==
    /\ TypeOK
    /\ ShapesAgree
    /\ RemembersDeclaredUsers
    /\ ServesDeclaredUsers
    /\ ServesDeclaredPeers

-----------------------------------------------------------------------------
\* A configuration's inbounds, one by one.
LEMMA ConfigShape ==
    ASSUME NEW c \in XrayConfig
    PROVE  /\ c.routing \in Routing
           /\ DOMAIN c.inbounds \subseteq Tag
           /\ DOMAIN c.inbounds # {}
           /\ c.inbounds \in [DOMAIN c.inbounds -> Inbound]
           /\ \A t \in DOMAIN c.inbounds :
                 /\ c.inbounds[t].kind \in Kind
                 /\ c.inbounds[t].settings \in Settings
                 /\ c.inbounds[t].accounts \in AccountMap
                 /\ c.inbounds[t] \in Inbound
           /\ c = [inbounds |-> c.inbounds, routing |-> c.routing]
<1>1. PICK S \in (SUBSET Tag) \ {{}} : c.inbounds \in [S -> Inbound]
  BY DEF XrayConfig
<1>2. c.routing \in Routing /\ c = [inbounds |-> c.inbounds, routing |-> c.routing]
  BY DEF XrayConfig
<1> QED
  BY <1>1, <1>2 DEF Inbound

\* Two configurations of one shape have the same inbounds, up to accounts.
LEMMA SameShape ==
    ASSUME NEW c \in XrayConfig, NEW d \in XrayConfig, Shape(c) = Shape(d)
    PROVE  /\ DOMAIN c.inbounds = DOMAIN d.inbounds
           /\ \A t \in DOMAIN c.inbounds :
                 /\ c.inbounds[t].kind = d.inbounds[t].kind
                 /\ c.inbounds[t].settings = d.inbounds[t].settings
           /\ c.routing = d.routing
           /\ \A k : HasKind(c, k) <=> HasKind(d, k)
<1> DEFINE In(e) == [t \in DOMAIN e.inbounds |->
                        [kind |-> e.inbounds[t].kind, settings |-> e.inbounds[t].settings]]
<1>1. Shape(c).inbounds = In(c) /\ Shape(d).inbounds = In(d)
  BY DEF Shape
<1>2. In(c) = In(d)
  BY <1>1
<1>3. DOMAIN c.inbounds = DOMAIN In(c) /\ DOMAIN d.inbounds = DOMAIN In(d)
  OBVIOUS
<1>4. DOMAIN c.inbounds = DOMAIN d.inbounds
  BY <1>2, <1>3
<1>5. ASSUME NEW t \in DOMAIN c.inbounds
      PROVE  /\ c.inbounds[t].kind = d.inbounds[t].kind
             /\ c.inbounds[t].settings = d.inbounds[t].settings
  <2>1. In(c)[t] = [kind |-> c.inbounds[t].kind, settings |-> c.inbounds[t].settings]
    OBVIOUS
  <2>2. In(d)[t] = [kind |-> d.inbounds[t].kind, settings |-> d.inbounds[t].settings]
    BY <1>4
  <2> QED
    BY <1>2, <2>1, <2>2
<1>6. c.routing = d.routing
  BY DEF Shape
<1> QED
  BY <1>4, <1>5, <1>6 DEF HasKind

\* What an in-place edit of a running core leaves it serving.
Edited(served) ==
    [live EXCEPT !.inbounds =
        [t \in DOMAIN live.inbounds |->
            [live.inbounds[t] EXCEPT !.accounts = served[t]]]]

LEMMA EditedShape ==
    ASSUME live \in XrayConfig,
           NEW served \in [DOMAIN live.inbounds -> AccountMap]
    PROVE  /\ Edited(served) \in XrayConfig
           /\ Shape(Edited(served)) = Shape(live)
           /\ DOMAIN Edited(served).inbounds = DOMAIN live.inbounds
           /\ \A t \in DOMAIN live.inbounds :
                 /\ Edited(served).inbounds[t].kind = live.inbounds[t].kind
                 /\ Edited(served).inbounds[t].accounts = served[t]
<1> DEFINE in == [t \in DOMAIN live.inbounds |->
                    [live.inbounds[t] EXCEPT !.accounts = served[t]]]
<1>1. live = [inbounds |-> live.inbounds, routing |-> live.routing]
  BY ConfigShape
<1>2. Edited(served) = [inbounds |-> in, routing |-> live.routing]
  BY <1>1 DEF Edited
<1>3. ASSUME NEW t \in DOMAIN live.inbounds
      PROVE  /\ in[t].kind = live.inbounds[t].kind
             /\ in[t].settings = live.inbounds[t].settings
             /\ in[t].accounts = served[t]
             /\ in[t] \in Inbound
  <2>1. live.inbounds[t] \in Inbound
    BY ConfigShape
  <2> QED
    BY <2>1 DEF Inbound
<1>4. Edited(served) \in XrayConfig
  <2>1. in \in [DOMAIN live.inbounds -> Inbound]
    BY <1>3
  <2>2. DOMAIN live.inbounds \in (SUBSET Tag) \ {{}} /\ live.routing \in Routing
    BY ConfigShape
  <2>3. in \in UNION {[S -> Inbound] : S \in (SUBSET Tag) \ {{}}}
    BY <2>1, <2>2
  <2> HIDE DEF in
  <2> QED
    BY <1>2, <2>2, <2>3 DEF XrayConfig
<1>5. Shape(Edited(served)) = Shape(live)
  <2>1. Edited(served).inbounds = in /\ Edited(served).routing = live.routing
    BY <1>2
  <2>2. DOMAIN in = DOMAIN live.inbounds
    OBVIOUS
  <2>3. [t \in DOMAIN in |-> [kind |-> in[t].kind, settings |-> in[t].settings]]
        = [t \in DOMAIN live.inbounds |->
             [kind |-> live.inbounds[t].kind, settings |-> live.inbounds[t].settings]]
    BY <1>3, <2>2
  <2> HIDE DEF in
  <2> QED
    BY <2>1, <2>3 DEF Shape
<1> QED
  BY <1>2, <1>3, <1>4, <1>5

-----------------------------------------------------------------------------
LEMMA InitIInv == Init => IInv
  BY DEF Init, IInv, TypeOK, ShapesAgree, RemembersDeclaredUsers, ServesDeclaredUsers,
         ServesDeclaredPeers, NoAccounts, AccountMap

\* A rebuilt core is the configuration itself.
LEMMA RebuildStep ==
    ASSUME IInv, NEW cfg \in Config, Rebuild(cfg)
    PROVE  IInv'
<1> USE DEF Rebuild
<1>1. cfg \in XrayConfig
  BY ConfigAssumption
<1>2. \A t \in Tag : AccountsAt(cfg, t) \in AccountMap
  BY <1>1, ConfigShape DEF AccountsAt, NoAccounts, AccountMap
<1>3. TypeOK'
  BY <1>1, <1>2 DEF TypeOK
<1>4. ShapesAgree'
  BY <1>1 DEF ShapesAgree
<1>5. RemembersDeclaredUsers'
  BY <1>1, ConfigShape DEF RemembersDeclaredUsers, AccountsAt
<1>6. ServesDeclaredUsers' /\ ServesDeclaredPeers'
  BY DEF ServesDeclaredUsers, ServesDeclaredPeers
<1> QED
  BY <1>3, <1>4, <1>5, <1>6 DEF IInv

\* An edit in place of a running core.
LEMMA SyncRunningStep ==
    ASSUME IInv, NEW cfg \in Config, Sync(cfg), instance = "running"
    PROVE  IInv'
<1>1. /\ cfg \in XrayConfig /\ live \in XrayConfig /\ declared \in XrayConfig
      /\ declared \in Config
  BY ConfigAssumption DEF IInv, ShapesAgree
<1>2. /\ Shape(live) = Shape(cfg) /\ last = Shape(cfg) /\ last = Shape(declared)
      /\ ~HasKind(cfg, "wireguard")
  BY DEF Sync, NeedsRestart, IInv, ShapesAgree
<1>3. PICK served \in Synced(cfg) :
         /\ live' = Edited(served)
         /\ drifted' = (drifted \/ \E t \in DOMAIN live.inbounds :
                          /\ live.inbounds[t].kind = "edited"
                          /\ \E i \in Id :
                               LET new == cfg.inbounds[t].accounts[i]
                               IN  new # lastAccounts[t][i] /\ served[t][i] # new)
  BY DEF Sync, Edited
<1>4. served \in [DOMAIN live.inbounds -> AccountMap]
  BY <1>3 DEF Synced
<1>5. /\ live' \in XrayConfig /\ Shape(live') = Shape(cfg)
      /\ DOMAIN live'.inbounds = DOMAIN live.inbounds
      /\ \A t \in DOMAIN live.inbounds :
            /\ live'.inbounds[t].kind = live.inbounds[t].kind
            /\ live'.inbounds[t].accounts = served[t]
  BY <1>1, <1>2, <1>3, <1>4, EditedShape
<1>6. /\ last' = Shape(cfg) /\ declared' = cfg /\ instance' = "running"
      /\ lastAccounts' = AccountsRemembered(cfg) /\ accepted' = TRUE
  BY DEF Sync
<1>7. TypeOK'
  <2>1. AccountsRemembered(cfg) \in [Tag -> AccountMap]
    BY <1>1, ConfigShape DEF AccountsRemembered, IInv, TypeOK, NoAccounts, AccountMap
  <2>2. drifted' \in BOOLEAN
    BY <1>3 DEF IInv, TypeOK
  <2> QED
    BY <1>5, <1>6, <2>1, <2>2 DEF TypeOK
<1>8. ShapesAgree'
  BY <1>5, <1>6 DEF ShapesAgree
<1>9. RemembersDeclaredUsers'
  BY <1>1, <1>6, ConfigShape DEF RemembersDeclaredUsers, AccountsRemembered
<1>10. ServesDeclaredUsers'
  <2> SUFFICES ASSUME ~drifted', NEW t \in DOMAIN live'.inbounds,
                      live'.inbounds[t].kind = "edited"
               PROVE  live'.inbounds[t].accounts = cfg.inbounds[t].accounts
    BY <1>6 DEF ServesDeclaredUsers
  <2>1. ~drifted
    BY <1>3
  <2>2. t \in DOMAIN live.inbounds /\ live.inbounds[t].kind = "edited"
    BY <1>5
  <2>3. t \in DOMAIN declared.inbounds /\ declared.inbounds[t].kind = "edited"
    BY <1>1, <1>2, <2>2, SameShape
  <2>4. live.inbounds[t].accounts = declared.inbounds[t].accounts
    BY <2>1, <2>2 DEF IInv, ServesDeclaredUsers
  <2>5. lastAccounts[t] = declared.inbounds[t].accounts
    BY <2>3 DEF IInv, RemembersDeclaredUsers
  <2>6. served[t] \in AccountMap /\ cfg.inbounds[t].accounts \in AccountMap
    <3>1. t \in DOMAIN cfg.inbounds
      BY <1>1, <1>2, <2>2, SameShape
    <3> QED
      BY <1>1, <1>4, <2>2, <3>1, ConfigShape
  <2>7. ASSUME NEW i \in Id
        PROVE  served[t][i] = cfg.inbounds[t].accounts[i]
    <3>1. CASE cfg.inbounds[t].accounts[i] = lastAccounts[t][i]
      <4>1. served[t][i] \in UserAfter(live.inbounds[t].accounts[i], lastAccounts[t][i],
                                       cfg.inbounds[t].accounts[i])
        BY <1>3, <2>2 DEF Synced
      <4>2. served[t][i] = live.inbounds[t].accounts[i]
        BY <3>1, <4>1 DEF UserAfter
      <4> QED
        BY <2>4, <2>5, <3>1, <4>2
    <3>2. CASE cfg.inbounds[t].accounts[i] # lastAccounts[t][i]
      BY <1>3, <2>2, <3>2
    <3> QED
      BY <3>1, <3>2
  <2>8. served[t] = cfg.inbounds[t].accounts
    BY <2>6, <2>7 DEF AccountMap
  <2> QED
    BY <1>5, <2>2, <2>8
<1>11. ServesDeclaredPeers'
  <2>1. ~HasKind(live', "wireguard")
    BY <1>1, <1>2, <1>5, SameShape
  <2> QED
    BY <2>1 DEF ServesDeclaredPeers
<1> QED
  BY <1>7, <1>8, <1>9, <1>10, <1>11 DEF IInv

LEMMA StepIInv == IInv /\ [Next]_vars => IInv'
<1> SUFFICES ASSUME IInv, [Next]_vars
             PROVE  IInv'
  OBVIOUS
<1>1. ASSUME NEW cfg \in Config, Sync(cfg)
      PROVE  IInv'
  <2>1. CASE instance = "running"
    BY <1>1, <2>1, SyncRunningStep
  <2>2. CASE instance # "running"
    <3>1. AccountsRemembered(cfg) \in [Tag -> AccountMap]
      BY ConfigAssumption, ConfigShape
      DEF AccountsRemembered, IInv, TypeOK, NoAccounts, AccountMap
    <3>2. TypeOK'
      BY <1>1, <2>2, <3>1 DEF Sync, IInv, TypeOK
    <3> QED
      BY <1>1, <2>2, <3>2
      DEF Sync, IInv, ShapesAgree, RemembersDeclaredUsers, ServesDeclaredUsers,
          ServesDeclaredPeers
  <2> QED
    BY <2>1, <2>2
<1>2. ASSUME NEW cfg \in Config, Rebuild(cfg)
      PROVE  IInv'
  BY <1>2, RebuildStep
<1>3. CASE (\E cfg \in Config : RebuildFails(cfg)) \/ Stop \/ Fresh
  <2>1. TypeOK'
    BY <1>3 DEF RebuildFails, Stop, Fresh, IInv, TypeOK, NoAccounts, AccountMap
  <2>2. instance' # "running"
    BY <1>3 DEF RebuildFails, Stop, Fresh
  <2> QED
    BY <2>1, <2>2
    DEF IInv, ShapesAgree, RemembersDeclaredUsers, ServesDeclaredUsers, ServesDeclaredPeers
<1>4. CASE UNCHANGED vars
  BY <1>4 DEF vars, IInv, TypeOK, ShapesAgree, RemembersDeclaredUsers, ServesDeclaredUsers,
              ServesDeclaredPeers, HasKind
<1> QED
  BY <1>1, <1>2, <1>3, <1>4 DEF Next

LEMMA Invariance == Spec => []IInv
  BY InitIInv, StepIInv, PTL DEF Spec

-----------------------------------------------------------------------------
(***************************************************************************)
(* The theorems.                                                           *)
(***************************************************************************)

\* Every variable keeps its type.
THEOREM TypeCorrect == Spec => []TypeOK
  BY Invariance, PTL DEF IInv

\* needsRestart (xray.go:91-116) never skips a rebuild that the inbounds,
\* outbounds, rules or DNS need, whatever failed before.
THEOREM ShapeIsServed == Spec => []ServesDeclaredShape
<1>1. IInv => ServesDeclaredShape
  BY DEF IInv, ShapesAgree, ServesDeclaredShape
<1> QED
  BY <1>1, Invariance, PTL

\* The base of the next edit (e.lastAccounts, xray.go:238-353) is what was
\* declared last.
THEOREM UsersAreRemembered == Spec => []RemembersDeclaredUsers
  BY Invariance, PTL DEF IInv

\* As long as no edit was lost, the users a core serves on VLESS and
\* Hysteria2 inbounds are the declared ones.
THEOREM UsersAreServed == Spec => []ServesDeclaredUsers
  BY Invariance, PTL DEF IInv

\* WireGuard peers are the declared ones (xray.go:96-98).
THEOREM PeersAreServed == Spec => []ServesDeclaredPeers
  BY Invariance, PTL DEF IInv

\* A running core serves what was declared: its shape, its users unless an edit
\* was lost, and its peers (UpdateConfig, xray.go:60-116).
THEOREM DeclaredIsServed == Spec => []ServesDeclared
<1>1. ServesDeclaredShape /\ ServesDeclaredUsers /\ ServesDeclaredPeers => ServesDeclared
  BY DEF ServesDeclared
<1> QED
  BY <1>1, ShapeIsServed, UsersAreServed, PeersAreServed, PTL
=============================================================================
