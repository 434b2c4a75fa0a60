----------------------------- MODULE DraftEditor -----------------------------
(***************************************************************************)
(* The node configuration page as an editor of one draft: the tabs and the *)
(* popups of src/manager/src/pages/node_config. A popup is opened on a     *)
(* copy of an item, with the item's id or its index, and saving puts the   *)
(* copy back into a clone of the draft. One popup is open at a time and    *)
(* nothing behind it can be clicked, so the only thing that changes the    *)
(* draft under an open popup is the answer to an ACME request: the request *)
(* keeps the draft it was sent from and the answer puts that draft back.   *)
(*                                                                         *)
(* NodeDraft has the shape of a draft and sync_draft, which nearly every   *)
(* handler runs over the draft before and after its change.                *)
(***************************************************************************)
EXTENDS NodeDraft, FiniteSets

CONSTANTS Account,       \* account ids a rule may be limited to
          Typed,         \* the texts a user types into a name field
          Loaded,        \* the drafts the page may be opened with
          MaxEdits,      \* bound: how often the draft is changed
          MaxJobs        \* bound: ACME requests in flight

\* A draft and its items. A rule that is limited was saved with users.
ItemId       == Nat \ {0}
Certificate  == [id : ItemId, name : Text, acme : BOOLEAN, issued : BOOLEAN]
Inbound      == [id : ItemId, cert : Text]
Outbound     == [id : ItemId, name : Text, type : OutboundType, enabled : BOOLEAN, builtin : BOOLEAN]
ReverseProxy == [tag : Text, enabled : BOOLEAN]
Rule         == [tag : Text, users : SUBSET Account, enabled : BOOLEAN, limited : BOOLEAN]
Draft        == [certs : Seq(Certificate), inbounds : Seq(Inbound), outbounds : Seq(Outbound),
                 reverses : Seq(ReverseProxy), rules : Seq(Rule), dns : Seq(Text)]

\* Items of one kind have ids of their own, all below n.
Distinct(s)    == \A i, j \in DOMAIN s : s[i].id = s[j].id => i = j
Below(s, n)    == \A i \in DOMAIN s : s[i].id < n
Numbered(s, n) == Distinct(s) /\ Below(s, n)

FirstId == 10          \* above the ids of the items that the page is opened with

ASSUME EditorAssumption ==
    /\ Typed \subseteq Text
    /\ MaxEdits \in Nat /\ MaxJobs \in Nat
    /\ IsFiniteSet(Account)
    /\ Loaded \subseteq Draft
    /\ \A d \in Loaded :
           /\ Numbered(d.certs, FirstId)
           /\ Numbered(d.inbounds, FirstId)
           /\ Numbered(d.outbounds, FirstId)
           /\ \A r \in ToSet(d.rules) : r.limited => r.users # {}

VARIABLES draft,      \* the draft, as in memory
          popup,      \* the popup that is open
          jobs,       \* ACME requests: the certificate and the draft they were sent from
          accounts,   \* the accounts there are
          edits,      \* how often the draft was changed; new items are numbered by it
          stale       \* an ACME answer replaced the draft under the open popup

vars == <<draft, popup, jobs, accounts, edits, stale>>

Closed == [kind |-> "none"]
Popup(kind, at, item) == [kind |-> kind, at |-> at, item |-> item]
NewAt == 0             \* no item's index or id: usize::MAX

Current == Sync(draft)                     \* what the tabs show
At(s, id) == SelectInSeq(s, LAMBDA item : item.id = id)
ById(s, id) == s[At(s, id)]
Put(s, item) == IF At(s, item.id) # 0 THEN [s EXCEPT ![At(s, item.id)] = item] ELSE Append(s, item)
PutAt(s, i, item) == IF i \in DOMAIN s THEN [s EXCEPT ![i] = item] ELSE Append(s, item)

\* retain: the items with another id, in their order.
Without(s, id) ==
    LET left == {i \in DOMAIN s : s[i].id # id}
    IN  [n \in 1..Cardinality(left) |->
            s[CHOOSE i \in left : Cardinality({j \in left : j <= i}) = n]]

FreshId == FirstId + edits

Init ==
    /\ draft \in Loaded
    /\ popup = Closed
    /\ jobs = {}
    /\ accounts = Account
    /\ edits = 0
    /\ stale = FALSE

\* At the bound nothing could be saved, so nothing is opened either.
Open(p) ==
    /\ popup = Closed
    /\ edits < MaxEdits
    /\ popup' = p
    /\ UNCHANGED <<draft, jobs, accounts, edits, stale>>

\* Mutant: the popup stays open after its handler.
SlipChange(d) ==
    /\ edits < MaxEdits
    /\ draft' = d
    /\ edits' = edits + 1
    /\ UNCHANGED <<popup, jobs, accounts, stale>>

\* Every handler that changes the draft closes the popup it was in.
Change(d) ==
    /\ edits < MaxEdits
    /\ draft' = d
    /\ popup' = Closed
    /\ edits' = edits + 1
    /\ stale' = FALSE
    /\ UNCHANGED <<jobs, accounts>>

Cancel ==
    /\ popup # Closed
    /\ popup' = Closed
    /\ stale' = FALSE
    /\ UNCHANGED <<draft, jobs, accounts, edits>>

(***************************************************************************)
(* Certificates: the Settings tab and the certificate editor. None of      *)
(* their handlers syncs the draft after its change.                        *)
(***************************************************************************)
NewCertificate ==
    Open(Popup("certificate", NewAt, [id |-> FreshId, name |-> "default", acme |-> TRUE, issued |-> FALSE]))

EditCertificate ==
    \E c \in ToSet(Current.certs) : Open(Popup("certificate", c.id, c))

\* Mutant: the previous name is read after it was overwritten.
SlipWithCertificate(d, cert) ==
    LET at       == At(d.certs, cert.id)
        Follows(in) == IF at # 0 THEN in.cert = cert.name ELSE Blank(in.cert)
    IN  [d EXCEPT !.certs = Put(@, cert),
                  !.inbounds = Mapped(@, LAMBDA in : IF Follows(in)
                                                     THEN [in EXCEPT !.cert = cert.name] ELSE in)]

\* Saving a new certificate names it in the inbounds that name none; saving an
\* old one under another name renames it in the inbounds that name it.
WithCertificate(d, cert) ==
    LET at       == At(d.certs, cert.id)
        Follows(in) == IF at # 0 THEN in.cert = d.certs[at].name ELSE Blank(in.cert)
    IN  [d EXCEPT !.certs = Put(@, cert),
                  !.inbounds = Mapped(@, LAMBDA in : IF Follows(in)
                                                     THEN [in EXCEPT !.cert = cert.name] ELSE in)]

SaveCertificate ==
    /\ popup.kind = "certificate"
    /\ \E name \in Typed, acme \in BOOLEAN :
           Change(WithCertificate(Current, [popup.item EXCEPT !.name = name, !.acme = acme]))

WithoutCertificate(d, cert) ==
    LET left == Without(d.certs, cert.id)
        name == IF left = <<>> THEN NoText ELSE Head(left).name
    IN  [d EXCEPT !.certs = left,
                  !.inbounds = Mapped(@, LAMBDA in : IF in.cert = cert.name
                                                     THEN [in EXCEPT !.cert = name] ELSE in)]

DeleteCertificate ==
    /\ popup = Closed
    /\ \E cert \in ToSet(Current.certs) : Change(WithoutCertificate(Current, cert))

(***************************************************************************)
(* An ACME request for a certificate. The answer is applied to the draft   *)
(* the request was sent from, whatever the draft is by then; a request     *)
(* that fails only writes to the log.                                      *)
(***************************************************************************)
AskAcme == \E c \in ToSet(Current.certs) : c.acme /\ Open(Popup("acme", c.id, c))

ConfirmAcme ==
    /\ popup.kind = "acme"
    /\ Cardinality(jobs) < MaxJobs
    /\ jobs' = jobs \cup {[cert |-> popup.at, of |-> draft]}
    /\ popup' = Popup("acmeLogs", popup.at, popup.item)
    /\ stale' = FALSE
    /\ UNCHANGED <<draft, accounts, edits>>

\* Mutant: the answer marks its certificate alone and unmarks the others.
SlipIssued(d, id) ==
    [d EXCEPT !.certs = Mapped(@, LAMBDA c : [c EXCEPT !.issued = c.id = id])]

Issued(d, id) ==
    LET at == At(d.certs, id)
    IN  IF at = 0 THEN d ELSE [d EXCEPT !.certs[at].issued = TRUE]

AcmeAnswers ==
    \E job \in jobs :
        /\ jobs' = jobs \ {job}
        /\ draft' = Issued(Sync(job.of), job.cert)
        /\ stale' = (stale \/ (popup # Closed /\ Sync(draft') # Current))
        /\ UNCHANGED <<popup, accounts, edits>>

AcmeFails ==
    \E job \in jobs :
        /\ jobs' = jobs \ {job}
        /\ UNCHANGED <<draft, popup, accounts, edits, stale>>

(***************************************************************************)
(* Inbounds.                                                               *)
(***************************************************************************)
NewInbound == Open(Popup("inbound", NewAt, [id |-> FreshId, cert |-> NoText]))
EditInbound == \E in \in ToSet(Current.inbounds) : Open(Popup("inbound", in.id, in))
AskDeleteInbound == \E in \in ToSet(Current.inbounds) : Open(Popup("deleteInbound", in.id, in))
AskDuplicateInbound == \E in \in ToSet(Current.inbounds) : Open(Popup("duplicateInbound", NewAt, in))

\* The editor offers the names of the certificates there are.
SaveInbound ==
    /\ popup.kind = "inbound"
    /\ \E cert \in {popup.item.cert} \cup {c.name : c \in ToSet(draft.certs)} :
           Change(Sync([Current EXCEPT !.inbounds = Put(@, [popup.item EXCEPT !.cert = cert])]))

DeleteInbound ==
    /\ popup.kind = "deleteInbound"
    /\ Change(Sync([Current EXCEPT !.inbounds = Without(@, popup.at)]))

DuplicateInbound ==
    /\ popup.kind = "duplicateInbound"
    /\ Change(Sync([Current EXCEPT !.inbounds = Append(@, [popup.item EXCEPT !.id = FreshId])]))

\* Nothing refers to whether an inbound is enabled, and it is not kept.
ToggleInbound ==
    /\ popup = Closed
    /\ Current.inbounds # <<>>
    /\ Change(Current)

(***************************************************************************)
(* Outbounds. The builtin ones can be edited, but neither duplicated nor   *)
(* deleted; a BLOCK outbound has no switch.                                *)
(***************************************************************************)
\* Add Outbound, and the button that adds one of another type (MASQUE).
NewOutbound ==
    \E new \in {<<"VLESS", "VLESS">>, <<"MASQUE", "OTHER">>} :
        Open(Popup("outbound", NewAt, [id |-> FreshId, name |-> new[1], type |-> new[2],
                                       enabled |-> TRUE, builtin |-> FALSE]))
EditOutbound == \E o \in ToSet(Current.outbounds) : Open(Popup("outbound", o.id, o))
AskDeleteOutbound ==
    \E o \in ToSet(Current.outbounds) : ~o.builtin /\ Open(Popup("deleteOutbound", o.id, o))
AskDuplicateOutbound ==
    \E o \in ToSet(Current.outbounds) : ~o.builtin /\ Open(Popup("duplicateOutbound", NewAt, o))

\* What the wizard makes of an outbound: it is not left without a name, keeps
\* the type or takes one of those that are not builtin, and an imported link
\* makes it a VLESS outbound that is enabled and no longer builtin.
Reworked(o) ==
    LET names == {t \in Typed \cup {o.name} : ~Blank(t)}
    IN  [id : {o.id}, name : names, type : {o.type, "VLESS", "OTHER"},
         enabled : {o.enabled}, builtin : {o.builtin}]
        \cup [id : {o.id}, name : names, type : {"VLESS"}, enabled : {TRUE}, builtin : {FALSE}]

SaveOutbound ==
    /\ popup.kind = "outbound"
    /\ \E o \in Reworked(popup.item) : Change(Sync([Current EXCEPT !.outbounds = Put(@, o)]))

DeleteOutbound ==
    /\ popup.kind = "deleteOutbound"
    /\ Change(Sync([Current EXCEPT !.outbounds = Without(@, popup.at)]))

\* The name is prompted for, and trimmed by the prompt.
DuplicateOutbound ==
    /\ popup.kind = "duplicateOutbound"
    /\ \E name \in {t \in Typed : ~Blank(t)} :
           Change(Sync([Current EXCEPT !.outbounds =
                            Append(@, [popup.item EXCEPT !.id = FreshId, !.name = Trimmed[name]])]))

ToggleOutbound ==
    /\ popup = Closed
    /\ \E i \in DOMAIN Current.outbounds :
           /\ Current.outbounds[i].type # "BLOCK"
           /\ Change(Sync([Current EXCEPT !.outbounds[i].enabled = ~@]))

OpenWarp == Open(Popup("warp", NewAt, Closed))

CreateFromWarp ==
    /\ popup.kind = "warp"
    /\ Change(Sync([Current EXCEPT !.outbounds =
                        Append(@, [id |-> FreshId, name |-> "WARP", type |-> "OTHER",
                                   enabled |-> TRUE, builtin |-> FALSE])]))

(***************************************************************************)
(* Reverse proxies: saved and deleted by index.                            *)
(***************************************************************************)
NewReverse == Open(Popup("reverse", NewAt, [tag |-> "r-outbound", enabled |-> TRUE]))
EditReverse ==
    \E i \in DOMAIN Current.reverses : Open(Popup("reverse", i, Current.reverses[i]))
AskDeleteReverse ==
    \E i \in DOMAIN Current.reverses : Open(Popup("deleteReverse", i, Current.reverses[i]))
AskDuplicateReverse ==
    \E i \in DOMAIN Current.reverses : Open(Popup("duplicateReverse", NewAt, Current.reverses[i]))

\* The editor cannot be applied without a tag.
EditedReverse == [tag : {t \in Typed : ~Blank(t)}, enabled : BOOLEAN]

SaveReverse ==
    /\ popup.kind = "reverse"
    /\ \E r \in EditedReverse :
           Change(Sync([Current EXCEPT !.reverses = PutAt(@, popup.at, r)]))

DeleteReverse ==
    /\ popup.kind = "deleteReverse"
    /\ Change(Sync([Current EXCEPT !.reverses =
                        IF popup.at \in DOMAIN @ THEN RemoveAt(@, popup.at) ELSE @]))

DuplicateReverse ==
    /\ popup.kind = "duplicateReverse"
    /\ \E tag \in {t \in Typed : ~Blank(t)} :
           Change(Sync([Current EXCEPT !.reverses =
                            Append(@, [popup.item EXCEPT !.tag = Trimmed[tag]])]))

ToggleReverse ==
    /\ popup = Closed
    /\ \E i \in DOMAIN Current.reverses :
           Change(Sync([Current EXCEPT !.reverses[i].enabled = ~@]))

(***************************************************************************)
(* Routing rules: saved, moved and deleted by index.                       *)
(***************************************************************************)
\* routing_outbound_options, and the users that still are accounts.
TagOptions(d) ==
    {t \in {TagOf(o) : o \in ToSet(d.outbounds)} \cup {Trimmed[r.tag] : r \in ToSet(d.reverses)} :
        ~Blank(t)}

NewRule == Open(Popup("rule", Len(Current.rules) + 1, DefaultRule))
EditRule == \E i \in DOMAIN Current.rules : Open(Popup("rule", i, Current.rules[i]))
AskDeleteRule == \E i \in DOMAIN Current.rules : Open(Popup("deleteRule", i, Current.rules[i]))

\* Mutant: the chosen users are filtered by those the rule had.
SlipEditedRule(rule, tag, users, enabled) ==
    [rule EXCEPT !.tag = tag,
                 !.enabled = enabled,
                 !.users = users \cap rule.users,
                 !.limited = users # {}]

\* Saving keeps the chosen users that still are accounts, the ones the rule had
\* when the editor was opened among them.
EditedRule(rule, tag, users, enabled) ==
    [rule EXCEPT !.tag = tag,
                 !.enabled = enabled,
                 !.users = users \cap accounts,
                 !.limited = users # {}]

\* The chips and suggestions of the users field, and the outbounds offered.
UserChoices(rule) == SUBSET (rule.users \cup accounts)
TagChoices(rule)  == {rule.tag} \cup TagOptions(draft)

SaveRule ==
    /\ popup.kind = "rule"
    /\ \E tag \in TagChoices(popup.item), users \in UserChoices(popup.item), enabled \in BOOLEAN :
           Change(Sync([Current EXCEPT !.rules =
                            PutAt(@, popup.at, EditedRule(popup.item, tag, users, enabled))]))

DeleteRule ==
    /\ popup.kind = "deleteRule"
    /\ Change(Sync([Current EXCEPT !.rules =
                        IF popup.at \in DOMAIN @ THEN RemoveAt(@, popup.at) ELSE @]))

DuplicateRule ==
    /\ popup = Closed
    /\ \E i \in DOMAIN Current.rules :
           Change(Sync([Current EXCEPT !.rules = InsertAt(@, i + 1, Current.rules[i])]))

ToggleRule ==
    /\ popup = Closed
    /\ \E i \in DOMAIN Current.rules :
           Change(Sync([Current EXCEPT !.rules[i].enabled = ~@]))

Swapped(s, i, j) == [s EXCEPT ![i] = s[j], ![j] = s[i]]

MoveRuleUp ==
    /\ popup = Closed
    /\ \E i \in DOMAIN Current.rules \ {1} :
           Change(Sync([Current EXCEPT !.rules = Swapped(@, i - 1, i)]))

MoveRuleDown ==
    /\ popup = Closed
    /\ \E i \in DOMAIN Current.rules \ {Len(Current.rules)} :
           Change(Sync([Current EXCEPT !.rules = Swapped(@, i, i + 1)]))

(***************************************************************************)
(* DNS servers, and hosts, which are edited alike: a row stands for the    *)
(* first server equal to it, and neither handler syncs after its change.   *)
(***************************************************************************)
FirstAlike(s, item) == SelectInSeq(s, LAMBDA x : x = item)

NewDns == Open(Popup("dns", Len(Current.dns) + 1, NoText))
EditDns == \E server \in ToSet(Current.dns) : Open(Popup("dns", FirstAlike(Current.dns, server), server))

\* The editors of servers and of hosts let anything pass.
EditedDns(server) == Typed

SaveDns ==
    /\ popup.kind = "dns"
    /\ \E server \in EditedDns(popup.item) : Change([Current EXCEPT !.dns = PutAt(@, popup.at, server)])

DeleteDns ==
    /\ popup = Closed
    /\ \E server \in ToSet(Current.dns) :
           Change([Current EXCEPT !.dns = RemoveAt(@, FirstAlike(@, server))])

(***************************************************************************)
(* The page is left, an account is deleted on another page, and the page   *)
(* is opened again: it reads the draft it saved and has no request left.   *)
(***************************************************************************)
DeleteAccount ==
    /\ \E a \in accounts : accounts' = accounts \ {a}
    /\ draft' = Current
    /\ popup' = Closed
    /\ jobs' = {}
    /\ stale' = FALSE
    /\ edits < MaxEdits
    /\ edits' = edits + 1

CertificateTab == \/ NewCertificate \/ EditCertificate \/ SaveCertificate \/ DeleteCertificate
                  \/ AskAcme \/ ConfirmAcme \/ AcmeAnswers \/ AcmeFails
InboundTab == \/ NewInbound \/ EditInbound \/ AskDeleteInbound \/ AskDuplicateInbound
              \/ SaveInbound \/ DeleteInbound \/ DuplicateInbound \/ ToggleInbound
OutboundTab == \/ NewOutbound \/ EditOutbound \/ AskDeleteOutbound \/ AskDuplicateOutbound
               \/ SaveOutbound \/ DeleteOutbound \/ DuplicateOutbound \/ ToggleOutbound
               \/ OpenWarp \/ CreateFromWarp
ReverseTab == \/ NewReverse \/ EditReverse \/ AskDeleteReverse \/ AskDuplicateReverse
              \/ SaveReverse \/ DeleteReverse \/ DuplicateReverse \/ ToggleReverse
RuleTab == \/ NewRule \/ EditRule \/ AskDeleteRule \/ SaveRule \/ DeleteRule
           \/ DuplicateRule \/ ToggleRule \/ MoveRuleUp \/ MoveRuleDown

DnsTab == NewDns \/ EditDns \/ SaveDns \/ DeleteDns

Next == \/ CertificateTab \/ InboundTab \/ OutboundTab \/ ReverseTab \/ RuleTab \/ DnsTab
        \/ Cancel \/ DeleteAccount

Spec == Init /\ [][Next]_vars

(***************************************************************************)
(* Properties.                                                             *)
(***************************************************************************)
\* What a popup was opened on is still there, at the same index or under the
\* same id, when its handler runs: the handlers that take an index change no
\* other item. Only an ACME answer that puts an older draft back may break it.
PopupIsCurrent ==
    (popup # Closed /\ popup.at # NewAt /\ ~stale) =>
        CASE popup.kind \in {"certificate", "acme"} ->
                 At(Current.certs, popup.at) # 0 /\ ById(Current.certs, popup.at) = popup.item
          [] popup.kind \in {"inbound", "deleteInbound"} ->
                 At(Current.inbounds, popup.at) # 0 /\ ById(Current.inbounds, popup.at) = popup.item
          [] popup.kind \in {"outbound", "deleteOutbound"} ->
                 At(Current.outbounds, popup.at) # 0 /\ ById(Current.outbounds, popup.at) = popup.item
          [] popup.kind \in {"reverse", "deleteReverse"} ->
                 popup.at \in DOMAIN Current.reverses /\ Current.reverses[popup.at] = popup.item
          [] popup.kind = "rule" ->
                 IF popup.at \in DOMAIN Current.rules THEN Current.rules[popup.at] = popup.item
                 ELSE popup.at = Len(Current.rules) + 1
          [] popup.kind = "deleteRule" ->
                 popup.at \in DOMAIN Current.rules /\ Current.rules[popup.at] = popup.item
          [] popup.kind = "dns" ->
                 IF popup.at \in DOMAIN Current.dns THEN Current.dns[popup.at] = popup.item
                 ELSE popup.at = Len(Current.dns) + 1
          [] OTHER -> TRUE

\* No handler of the page leaves an inbound naming a certificate that is gone,
\* when it named one that was there: renaming takes the inbounds along, deleting
\* gives them another. The answer to an ACME request, which may put back a draft
\* whose inbounds named none, is not one of them. It takes names without
\* surrounding white space, because the inbounds' are trimmed and compared with
\* the name as it was typed.
Names(d, in) == CertificateAt(d.certs, in.cert) # 0
Unpadded(d) == \A c \in ToSet(d.certs) : Trimmed[c.name] = c.name

InboundsKeepTheirCertificate ==
    [][(draft' # draft /\ jobs' = jobs /\ Unpadded(draft) /\ ~stale) =>
        LET now  == Current
            then == Current'
        IN  \A in \in ToSet(now.inbounds), later \in ToSet(then.inbounds) :
                (later.id = in.id /\ Names(now, in))
                    => Names(then, later) \/ Blank(later.cert)]_vars

\* As long as the draft has its BLOCK outbound under the name "block", a rule
\* whose outbound is disabled, renamed or gone ends there on the node and
\* nowhere else: the manager sends "block" for it, and sends the outbound.
UnroutableIsBlocked ==
    LET outs == ToSet(Current.outbounds)
    IN  (\E o \in outs :
            /\ o.type = "BLOCK" /\ o.name = "block"
            /\ \A p \in outs : Trimmed[TagOf(p)] = "block" => p = o
            /\ "block" \notin EnabledReverseTags(draft))
        => \A r \in ToSet(Current.rules) :
               (r.enabled /\ r.tag \notin SentTags(draft))
                   => Carriers(draft, RoutedTag(draft, SentRule(draft, r))) = {"BLOCK"}

\* A certificate that the node has issued stays issued in the draft, until it is
\* edited in a popup that an answer overtook, or the answer to a request that
\* was sent before takes the draft back.
IssuedStaysIssued ==
    [][\A c \in ToSet(draft.certs), later \in ToSet(draft'.certs) :
           (c.id = later.id /\ c.issued /\ ~later.issued)
               => stale \/ \E job \in jobs \ jobs' : ~ById(job.of.certs, c.id).issued]_vars

\* A rule that was limited to users names users, unless an account was deleted:
\* saving such a rule drops the deleted ones, and a rule without users matches
\* everyone.
LimitedRulesStayLimited ==
    accounts = Account => \A r \in ToSet(draft.rules) : r.limited => r.users # {}

\* The page says of its outbounds that "Builtin Direct and Block stay fixed".
Builtins(d) == {[name |-> o.name, type |-> o.type] : o \in {p \in ToSet(d.outbounds) : p.builtin}}
BuiltinsStayFixed == [][Builtins(Current) \subseteq Builtins(Current')]_vars
=============================================================================
