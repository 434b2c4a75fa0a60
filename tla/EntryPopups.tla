----------------------------- MODULE EntryPopups -----------------------------
(***************************************************************************)
(* The popups in which one entry of a draft is made, up to the moment it   *)
(* is handed to the draft: the inbound wizard, the outbound wizard, the    *)
(* WARP popup and the certificate editor of                                *)
(* src/manager/src/pages/node_config. One of them is open at a time.       *)
(*                                                                         *)
(* The wizards hold a copy of the entry and a step; what may be saved is   *)
(* decided by the steps that had to be passed. The other two wait: for the *)
(* node to register a WARP account or change its license, and for the      *)
(* clipboard or a file. An answer finds the popup as it is by then, or     *)
(* finds it closed and is dropped.                                         *)
(***************************************************************************)
EXTENDS Naturals, Sequences, FiniteSets, SequencesExt

CONSTANTS Certificate,   \* names of the certificates there are
          Pem,           \* texts typed or read into a certificate field
          Tunable,       \* the protocols, other than VLESS, whose settings are followed
          MaxPeers,      \* bound: peers of a WireGuard outbound
          MaxAccounts,   \* bound: WARP accounts registered
          MaxOpened      \* bound: how often a popup is opened

Blank == ""

ASSUME PopupAssumption ==
    /\ Blank \notin Certificate
    /\ "VLESS" \notin Tunable /\ MaxPeers \in Nat /\ MaxAccounts \in Nat /\ MaxOpened \in Nat

VARIABLES popup,      \* the popup that is open
          step,       \* the wizard's page, from 0
          item,       \* the popup's copy of its entry
          saved,      \* the entry each popup handed to the draft last, and all WARP accounts
          waiting,    \* requests that are not answered
          opened,     \* how often a popup was opened: an answer belongs to one opening
          account,    \* the WARP registration of the draft
          registered, \* how many WARP accounts the node has registered
          givenUp,    \* accounts cleared, replaced, or registered after the popup was closed
          intended,   \* what was last typed or read into each certificate field
          overtaken   \* a read was applied to a certificate that had changed since

inbound   == <<popup, step, item, saved>>
requests  == <<waiting, opened>>
warp      == <<account, registered, givenUp>>
texts     == <<intended, overtaken>>
vars      == <<popup, step, item, saved, waiting, opened, warp, texts>>

Nothing == [kind |-> "nothing"]
NoText  == [pem |-> Blank, key |-> Blank]

(***************************************************************************)
(* Inbounds. SOCKS5 stands for the protocols with neither a certificate    *)
(* nor a core of their own: SOCKS5, Shadowsocks, TProxy and Tunnel.        *)
(***************************************************************************)
Supported(core) ==
    CASE core = "XRAY"        -> <<"VLESS", "HYSTERIA2", "WIREGUARD", "SOCKS5", "TROJAN">>
      [] core = "SING_BOX"    -> <<"VLESS", "HYSTERIA2", "NAIVEPROXY", "SOCKS5", "TROJAN">>
      [] core = "TRUSTTUNNEL" -> <<"TRUSTTUNNEL">>
      [] OTHER                -> <<>>

\* normalize_protocol_for_core.
ProtocolFor(core, protocol) ==
    IF core = Blank THEN Blank
    ELSE IF protocol \in ToSet(Supported(core)) THEN protocol ELSE Head(Supported(core))

NoXhttpOnSingBox(in) ==
    IF in.core = "SING_BOX" /\ in.transmission = "XHTTP" THEN [in EXCEPT !.transmission = "TCP"] ELSE in

\* Mutant: the protocol is left as it was.
SlipWithCore(in, core) == NoXhttpOnSingBox([in EXCEPT !.core = core])

WithCore(in, core) ==
    NoXhttpOnSingBox([in EXCEPT !.core = core, !.protocol = ProtocolFor(core, @)])

WithProtocol(in, protocol) ==
    LET core == IF protocol = "WIREGUARD" THEN "XRAY" ELSE in.core
    IN  NoXhttpOnSingBox([in EXCEPT !.core = core,
                                    !.protocol = ProtocolFor(core, ProtocolFor(in.core, protocol))])

Transmissions(core) == {"TCP"} \cup (IF core = "SING_BOX" THEN {} ELSE {"XHTTP"})

InboundSteps(in) ==
    IF \/ in.protocol = "VLESS" /\ in.security \in {"REALITY", "TLS"}
       \/ in.protocol \in {"HYSTERIA2", "TRUSTTUNNEL", "NAIVEPROXY", "TROJAN"}
    THEN 4 ELSE 3

OnCertificatePage(in) ==
    /\ step = 2
    /\ \/ in.protocol = "VLESS" /\ in.security = "TLS"
       \/ in.protocol \in {"HYSTERIA2", "TRUSTTUNNEL", "NAIVEPROXY", "TROJAN"}

\* Mutant: the certificate page may be left without a certificate.
SlipInboundBlocked(in) == step = 0 /\ (in.core = Blank \/ in.protocol = Blank)

\* Next is disabled. NaiveProxy's certificate page is the one that is not
\* checked.
InboundBlocked(in) ==
    \/ step = 0 /\ (in.core = Blank \/ in.protocol = Blank)
    \/ OnCertificatePage(in) /\ in.protocol # "NAIVEPROXY" /\ in.cert = Blank

\* Of VLESS's settings the security and the transmission are kept; of the other
\* protocols', in tuned, whether they have been given any.
DefaultInbound ==
    [core |-> Blank, protocol |-> "VLESS", security |-> "NONE", transmission |-> "TCP", cert |-> Blank,
     tuned |-> {}]

OpenOn(kind, entries) ==
    /\ popup = "none" /\ opened < MaxOpened
    /\ popup' = kind
    /\ step' = 0
    /\ item' \in entries
    /\ opened' = opened + 1
    /\ UNCHANGED <<saved, waiting, warp, texts>>

OpenInbound == OpenOn("inbound", {DefaultInbound} \cup saved.inbound)

Edited(kind, entry) ==
    /\ popup = kind
    /\ item' = entry
    /\ UNCHANGED <<popup, step, saved, requests, warp, texts>>

ChooseCore ==
    /\ popup = "inbound" /\ step = 0
    /\ \E core \in {Blank, "XRAY", "SING_BOX", "TRUSTTUNNEL"} : Edited("inbound", WithCore(item, core))

\* The dropdown offers what the core supports and is disabled for TrustTunnel.
ChooseProtocol ==
    /\ popup = "inbound" /\ step = 0 /\ item.core # "TRUSTTUNNEL"
    /\ \E protocol \in ToSet(Supported(item.core)) : Edited("inbound", WithProtocol(item, protocol))

ChooseVless ==
    /\ popup = "inbound" /\ step = 1 /\ item.protocol = "VLESS"
    /\ \E security \in {"NONE", "TLS", "REALITY"}, transmission \in Transmissions(item.core) :
           Edited("inbound", [item EXCEPT !.security = security, !.transmission = transmission])

TuneSettings ==
    /\ popup = "inbound" /\ step = 1 /\ item.protocol \in Tunable
    /\ Edited("inbound", [item EXCEPT !.tuned = @ \cup {item.protocol}])

ChooseCertificate ==
    /\ popup = "inbound"
    /\ OnCertificatePage(item)
    /\ \E cert \in Certificate : Edited("inbound", [item EXCEPT !.cert = cert])

(***************************************************************************)
(* Outbounds. SOCKS5 stands for SOCKS5, Shadowsocks and TrustTunnel, and   *)
(* CUSTOM for a custom plugin and MASQUE, whose settings are never         *)
(* cleared. A builtin outbound has the page of a VLESS one. Of a name it   *)
(* matters whether there is one, of a peer whether it has a public key.    *)
(***************************************************************************)
DefaultOutbound ==
    [name |-> "named", type |-> "VLESS", peers |-> <<>>, builtin |-> FALSE, tuned |-> {}]
BuiltinOutbound == [DefaultOutbound EXCEPT !.type = "BLOCK", !.builtin = TRUE]
MasqueOutbound  == [DefaultOutbound EXCEPT !.type = "CUSTOM"]
OutboundSteps == 3

OutboundBlocked(out) ==
    \/ step = 0 /\ out.name = Blank
    \/ step = 1 /\ out.type = "WIREGUARD" /\ out.peers = <<>>

OpenOutbound ==
    OpenOn("outbound", {DefaultOutbound, BuiltinOutbound, MasqueOutbound} \cup saved.outbound)

TypeName ==
    /\ popup = "outbound" /\ step = 0
    /\ \E name \in {Blank, "named"} : Edited("outbound", [item EXCEPT !.name = name])

\* The value chosen becomes the name where there is none.
ChooseType ==
    /\ popup = "outbound" /\ step = 0
    /\ \E type \in {"VLESS", "WIREGUARD", "SOCKS5", "CUSTOM"} :
           Edited("outbound", [item EXCEPT !.type = type, !.name = "named"])

OnOutboundPage(type) == popup = "outbound" /\ step = 1 /\ item.type = type
OnVlessPage == OnOutboundPage("VLESS") \/ OnOutboundPage("BLOCK")

TuneOutbound ==
    \E type \in Tunable :
        /\ OnOutboundPage(type)
        /\ Edited("outbound", [item EXCEPT !.tuned = @ \cup {type}])

\* The server, the flow and Reality are on the last page, of a VLESS outbound alone.
TuneVless ==
    /\ OnVlessPage \/ (popup = "outbound" /\ step = 2 /\ item.type = "VLESS")
    /\ Edited("outbound", [item EXCEPT !.tuned = @ \cup {"VLESS"}])

AddPeer ==
    /\ OnOutboundPage("WIREGUARD") /\ Len(item.peers) < MaxPeers
    /\ Edited("outbound", [item EXCEPT !.peers = Append(@, "blank")])

EditPeer ==
    /\ OnOutboundPage("WIREGUARD")
    /\ \E i \in DOMAIN item.peers, peer \in {"blank", "keyed"} :
           Edited("outbound", [item EXCEPT !.peers[i] = peer])

DeletePeer ==
    /\ OnOutboundPage("WIREGUARD")
    /\ \E i \in DOMAIN item.peers :
           Edited("outbound", [item EXCEPT !.peers = RemoveAt(@, i)])

\* import_vless_outbound_link, of a link that parses.
ImportLink ==
    /\ OnVlessPage
    /\ Edited("outbound", [item EXCEPT !.type = "VLESS", !.builtin = FALSE,
                                       !.tuned = @ \cup {"VLESS"}])

(***************************************************************************)
(* What becomes of a saved entry: it is stored without the settings of the *)
(* protocols it does not use, and what the node is sent is made of it as   *)
(* it is in memory or, after the page was loaded again, as it was stored.  *)
(***************************************************************************)
\* Mutant: a protocol's settings are cleared among those of the others.
SlipKeptSettings(protocol) == {protocol, "TROJAN"} \ {"NAIVEPROXY"}

\* Nothing clears the settings of Trojan.
KeptSettings(protocol) == {protocol, "TROJAN"}

\* sanitize_inbound_for_storage.
StoredInbound(in) ==
    LET kept == [in EXCEPT !.tuned = @ \cap KeptSettings(in.protocol)]
    IN  IF in.protocol = "VLESS" THEN kept
        ELSE [kept EXCEPT !.security = "NONE", !.transmission = "TCP"]

\* Custom settings are never cleared, and nothing is in a custom outbound.
Survives(type, out) == type = "CUSTOM" \/ out.type \in {type, "CUSTOM"}

\* sanitize_outbound_for_storage.
StoredOutbound(out) ==
    [out EXCEPT !.tuned = {type \in @ : Survives(type, out)},
                !.peers = IF Survives("WIREGUARD", out) THEN @ ELSE <<>>]

\* build_full_config: the settings sent are those of the protocol that the core supports.
SentInbound(in) ==
    LET protocol == ProtocolFor(in.core, in.protocol)
    IN  [core |-> in.core, protocol |-> protocol, cert |-> in.cert,
         settings |-> IF protocol = "VLESS" THEN <<in.security, in.transmission>>
                      ELSE <<protocol \in in.tuned>>]
\* A peer without a public key is not sent.
Keyed(peers) == SelectSeq(peers, LAMBDA peer : peer = "keyed")

SentOutbound(out) ==
    [name |-> out.name, type |-> out.type, settings |->
        CASE out.type = "BLOCK"     -> <<>>
          [] out.type = "WIREGUARD" -> Keyed(out.peers)
          [] OTHER                  -> <<out.type \in out.tuned>>]

(***************************************************************************)
(* The buttons of both wizards.                                            *)
(***************************************************************************)
Blocked == CASE popup = "inbound" -> InboundBlocked(item) [] OTHER -> OutboundBlocked(item)
Steps   == CASE popup = "inbound" -> InboundSteps(item) [] OTHER -> OutboundSteps

NextStep ==
    /\ popup \in {"inbound", "outbound"}
    /\ step + 1 < Steps
    /\ ~Blocked
    /\ step' = step + 1
    /\ UNCHANGED <<popup, item, saved, requests, warp, texts>>

Back ==
    /\ popup \in {"inbound", "outbound"}
    /\ step > 0
    /\ step' = step - 1
    /\ UNCHANGED <<popup, item, saved, requests, warp, texts>>

Apply ==
    /\ popup \in {"inbound", "outbound"}
    /\ step + 1 >= Steps
    /\ saved' = [saved EXCEPT ![popup] = {item}]
    /\ popup' = "none" /\ step' = 0 /\ item' = Nothing
    /\ UNCHANGED <<requests, warp, texts>>

(***************************************************************************)
(* WARP. While a request is waiting only Cancel and the text fields work.  *)
(* Every change of the popup's registration is written to the draft.       *)
(***************************************************************************)
NoAccount == 0
Mine == {job \in waiting : job.opening = opened}
Busy == Mine # {}
Held == {account} \cup saved.warp

\* initial_warp_registration: the draft's, else that of an outbound.
OpenWarp ==
    /\ popup = "none" /\ opened < MaxOpened
    /\ popup' = "warp"
    /\ opened' = opened + 1
    /\ \E a \in IF account = NoAccount /\ saved.warp # {} THEN saved.warp ELSE {account} :
           item' = [account |-> a] /\ account' = a
    /\ UNCHANGED <<step, saved, waiting, registered, givenUp, texts>>

Ask(kind) ==
    /\ popup = "warp" /\ ~Busy
    /\ waiting' = waiting \cup {[kind |-> kind, opening |-> opened, of |-> item]}
    /\ UNCHANGED <<inbound, opened, warp, texts>>

Register == registered + Cardinality({job \in waiting : job.kind = "register"}) < MaxAccounts
            /\ Ask("register")
UpdateLicense == popup = "warp" /\ item.account # NoAccount /\ Ask("license")

Clear ==
    /\ popup = "warp" /\ ~Busy
    /\ item' = [account |-> NoAccount]
    /\ account' = NoAccount
    /\ givenUp' = givenUp \cup {item.account}
    /\ UNCHANGED <<popup, step, saved, requests, registered, texts>>

\* Mutant: the new registration is not written to the draft.
SlipShow(a) == /\ item' = [account |-> a]
               /\ UNCHANGED account

\* The popup shows another registration, and with it the draft has it.
Show(a) == /\ item' = [account |-> a]
           /\ account' = a

\* The account is the node's answer. Nothing shows it when the popup is closed.
Registered(job) ==
    /\ job.kind = "register"
    /\ registered' = registered + 1
    /\ IF popup = "warp" /\ job \in Mine
       THEN /\ Show(registered + 1)
            /\ givenUp' = givenUp \cup {item.account}
       ELSE /\ givenUp' = givenUp \cup {registered + 1}
            /\ UNCHANGED <<item, account>>

LicenseUpdated(job) ==
    /\ job.kind = "license"
    /\ IF popup = "warp" /\ job \in Mine THEN Show(job.of.account) ELSE UNCHANGED <<item, account>>
    /\ UNCHANGED <<registered, givenUp>>

WarpAnswers ==
    \E job \in waiting :
        /\ Registered(job) \/ LicenseUpdated(job)
        /\ waiting' = waiting \ {job}
        /\ UNCHANGED <<popup, step, saved, opened, texts>>

CreateWarp ==
    /\ popup = "warp" /\ ~Busy /\ item.account # NoAccount
    /\ saved' = [saved EXCEPT !.warp = @ \cup {item.account}]
    /\ popup' = "none" /\ item' = Nothing
    /\ UNCHANGED <<step, requests, warp, texts>>

(***************************************************************************)
(* Certificates. A read keeps the certificate as it was when the read was  *)
(* started and puts it back, with the text, when it ends.                  *)
(***************************************************************************)
OpenCertificate ==
    /\ popup = "none" /\ opened < MaxOpened
    /\ popup' = "certificate"
    /\ opened' = opened + 1
    /\ item' = NoText
    /\ intended' = NoText
    /\ overtaken' = FALSE
    /\ UNCHANGED <<step, saved, waiting, warp>>

TypePem ==
    /\ popup = "certificate"
    /\ \E field \in {"pem", "key"}, text \in Pem :
           /\ item' = [item EXCEPT ![field] = text]
           /\ intended' = [intended EXCEPT ![field] = text]
    /\ UNCHANGED <<popup, step, saved, requests, warp, overtaken>>

StartRead ==
    /\ popup = "certificate" /\ Cardinality(Mine) < 2
    /\ \E field \in {"pem", "key"} :
           waiting' = waiting \cup {[kind |-> field, opening |-> opened, of |-> item]}
    /\ UNCHANGED <<inbound, opened, warp, texts>>

\* Mutant: the text goes into an empty certificate.
SlipPasted(certificate, field, text) == [NoText EXCEPT ![field] = text]

Pasted(certificate, field, text) == [certificate EXCEPT ![field] = text]

ReadEnds ==
    \E job \in waiting, text \in Pem :
        /\ job.kind \in {"pem", "key"}
        /\ waiting' = waiting \ {job}
        /\ IF popup = "certificate" /\ job \in Mine
           THEN /\ item' = Pasted(job.of, job.kind, text)
                /\ intended' = [intended EXCEPT ![job.kind] = text]
                /\ overtaken' = (overtaken \/ item # job.of)
           ELSE UNCHANGED <<item, texts>>
        /\ UNCHANGED <<popup, step, saved, opened, warp>>

\* A request or a read fails: nothing but a message changes.
RequestFails ==
    /\ \E job \in waiting : waiting' = waiting \ {job}
    /\ UNCHANGED <<inbound, opened, warp, texts>>

SaveCertificate ==
    /\ popup = "certificate"
    /\ saved' = [saved EXCEPT !.certificate = {item}]
    /\ popup' = "none" /\ item' = Nothing
    /\ UNCHANGED <<step, requests, warp, texts>>

Cancel ==
    /\ popup # "none"
    /\ popup' = "none" /\ step' = 0 /\ item' = Nothing
    /\ UNCHANGED <<saved, requests, warp, texts>>

Init ==
    /\ popup = "none" /\ step = 0 /\ item = Nothing
    /\ saved = [inbound |-> {}, outbound |-> {}, warp |-> {}, certificate |-> {}]
    /\ waiting = {} /\ opened = 0
    /\ account = NoAccount /\ registered = 0 /\ givenUp = {}
    /\ intended = NoText /\ overtaken = FALSE

Wizards == \/ OpenInbound \/ ChooseCore \/ ChooseProtocol \/ ChooseVless \/ TuneSettings
           \/ ChooseCertificate
           \/ OpenOutbound \/ TypeName \/ ChooseType \/ TuneOutbound \/ TuneVless
           \/ AddPeer \/ EditPeer \/ DeletePeer \/ ImportLink
           \/ NextStep \/ Back \/ Apply
Warp == OpenWarp \/ Register \/ UpdateLicense \/ Clear \/ WarpAnswers \/ CreateWarp
CertificateEditor == OpenCertificate \/ TypePem \/ StartRead \/ ReadEnds \/ SaveCertificate

Next == Wizards \/ Warp \/ CertificateEditor \/ RequestFails \/ Cancel

Spec == Init /\ [][Next]_vars

(***************************************************************************)
(* Properties.                                                             *)
(***************************************************************************)
\* Whatever the order in which core, protocol and transmission were chosen, over
\* any number of visits to each page, a saved inbound has a protocol its core
\* supports and is not XHTTP on sing-box.
SavedInboundIsSupported ==
    \A in \in saved.inbound :
        /\ in.protocol \in ToSet(Supported(in.core))
        /\ ~(in.core = "SING_BOX" /\ in.transmission = "XHTTP")

\* A saved inbound that serves TLS names a certificate, however the protocol and
\* the security were changed on the way. NaiveProxy is the exception.
SavedInboundHasCertificate ==
    \A in \in saved.inbound :
        (in.protocol \in {"HYSTERIA2", "TRUSTTUNNEL", "TROJAN"}
            \/ (in.protocol = "VLESS" /\ in.security = "TLS")) => in.cert # Blank

\* The node is sent the same of a saved entry whether it is deployed at once or after the
\* page was loaded again: what storage clears is never what the node would be sent. That
\* takes a protocol its core supports, or the node is sent another's settings.
StoredIsSentAlike ==
    /\ \A in \in saved.inbound : SentInbound(StoredInbound(in)) = SentInbound(in)
    /\ \A out \in saved.outbound : SentOutbound(StoredOutbound(out)) = SentOutbound(out)

\* A WARP account that the node registered is in the draft, as its registration
\* or in an outbound, unless it was cleared, another took its place, or the
\* popup had been closed before the answer came.
AccountsAreKept == \A a \in 1..registered : a \in Held \cup givenUp

\* The certificate fields have what was last typed or read into them, unless a
\* read ended after the certificate had been changed.
TextsAreKept == (popup = "certificate" /\ ~overtaken) => item = intended
=============================================================================
