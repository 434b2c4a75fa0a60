------------------------------ MODULE NodeDraft ------------------------------
(***************************************************************************)
(* The draft of a node's configuration that the manager edits, as the pure *)
(* functions of src/manager/src/pages/node_config: sync_draft, which every *)
(* handler runs over the draft before and after its change, the part of    *)
(* build_full_config that decides which outbounds and rules are sent, and  *)
(* what the node makes of them.                                            *)
(*                                                                         *)
(* A draft has certificates, inbounds, outbounds, reverse proxies, routing *)
(* rules and DNS servers. Of each item only what refers to another item is *)
(* kept. A text field holds a member of Text; Trimmed is what trim() makes *)
(* of it.                                                                  *)
(***************************************************************************)
EXTENDS Naturals, Sequences, SequencesExt

CONSTANTS Text,      \* what a text field may hold
          Trimmed    \* the text without surrounding white space

NoText == ""

\* The texts that the program itself puts into a field.
FixedText == {NoText, "default", "direct", "block", "VLESS", "MASQUE", "WARP", "r-outbound"}

ASSUME TextAssumption ==
    /\ FixedText \subseteq Text
    /\ Trimmed \in [Text -> Text]
    /\ \A t \in Text : Trimmed[Trimmed[t]] = Trimmed[t]
    /\ \A t \in FixedText : Trimmed[t] = t

Blank(t) == Trimmed[t] = NoText

OutboundType == {"DIRECT", "BLOCK", "VLESS", "OTHER"}

Mapped(s, Op(_)) == [i \in DOMAIN s |-> Op(s[i])]

(***************************************************************************)
(* sync_draft.                                                             *)
(***************************************************************************)
\* certificate_name_from_reference: the trimmed name of the first certificate
\* that has the reference as its name or its id. Ids are numbers here, so a
\* reference is only ever a name.
CertificateAt(certs, ref) ==
    SelectInSeq(certs, LAMBDA c : ~Blank(ref) /\ Trimmed[c.name] = Trimmed[ref])

Builtin(id, name, type) ==
    [id |-> id, name |-> name, type |-> type, enabled |-> TRUE, builtin |-> TRUE]

DefaultRule == [tag |-> "direct", users |-> {}, enabled |-> TRUE, limited |-> FALSE]

SyncInbound(certs, in) ==
    LET at == CertificateAt(certs, in.cert)
    IN  IF at = 0 THEN in ELSE [in EXCEPT !.cert = Trimmed[certs[at].name]]

SyncReverse(r) == [r EXCEPT !.tag = Trimmed[@]]

SyncOutbound(o) ==
    IF o.type \in {"DIRECT", "BLOCK"}
    THEN [o EXCEPT !.builtin = TRUE,
                   !.name = IF ~Blank(@) THEN @
                            ELSE IF o.type = "DIRECT" THEN "direct" ELSE "block"]
    ELSE IF o.type = "VLESS" /\ Blank(o.name) THEN [o EXCEPT !.name = "VLESS"] ELSE o

SyncRule(r) == IF Blank(r.tag) THEN [r EXCEPT !.tag = "direct"] ELSE r

Sync(d) ==
    LET outs  == IF d.outbounds # <<>> THEN d.outbounds
                 ELSE <<Builtin(1, "direct", "DIRECT"), Builtin(2, "block", "BLOCK")>>
        rules == IF d.rules # <<>> THEN d.rules ELSE <<DefaultRule>>
    IN  [d EXCEPT !.inbounds  = Mapped(@, LAMBDA in : SyncInbound(d.certs, in)),
                  !.reverses  = Mapped(@, SyncReverse),
                  !.outbounds = Mapped(outs, SyncOutbound),
                  !.rules     = Mapped(rules, SyncRule)]

(***************************************************************************)
(* build_full_config: what is sent to the node.                            *)
(***************************************************************************)
\* outbound_tag_for_routing: a VLESS outbound's tag is its trimmed name, any
\* other outbound's tag its name as it was typed.
TagOf(o) == IF o.type = "VLESS" THEN Trimmed[o.name] ELSE o.name

SentOutbounds(d) ==
    {o \in ToSet(Sync(d).outbounds) : (o.enabled \/ o.type = "BLOCK") /\ ~Blank(TagOf(o))}

EnabledReverseTags(d) ==
    {r.tag : r \in {s \in ToSet(Sync(d).reverses) : s.enabled /\ ~Blank(s.tag)}}

SentTags(d) == {TagOf(o) : o \in SentOutbounds(d)} \cup EnabledReverseTags(d)

\* Mutant: a rule is sent with its tag, whether or not there is such an outbound.
SlipSentRule(d, r) == r

\* What an enabled rule is sent as. What is sent of a rule, or of an outbound, does
\* not depend on where it stands.
SentRule(d, r) == IF r.tag \in SentTags(d) THEN r ELSE [r EXCEPT !.tag = "block"]

(***************************************************************************)
(* convertToConfig on the node: a rule whose tag is none of the outbounds' *)
(* it was sent goes to "direct".                                           *)
(***************************************************************************)
RoutedTag(d, rule) ==
    IF Trimmed[rule.tag] \in {Trimmed[t] : t \in SentTags(d)} THEN Trimmed[rule.tag] ELSE "direct"

\* The kinds of outbound that carry the traffic of a tag on the node.
Carriers(d, tag) ==
    {o.type : o \in {p \in SentOutbounds(d) : Trimmed[TagOf(p)] = tag}}
        \cup (IF tag \in EnabledReverseTags(d) THEN {"REVERSE"} ELSE {})
=============================================================================
