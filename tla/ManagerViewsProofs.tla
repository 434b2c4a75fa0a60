------------------------- MODULE ManagerViewsProofs -------------------------
(***************************************************************************)
(* Proofs about EntryPopups, for any certificates, texts and number of     *)
(* openings, peers and accounts: what the wizards hand to the draft is     *)
(* complete and outlives storage, and late answers lose no account. And    *)
(* about StatusViews, for any questions and faults: what a view tells is   *)
(* the answer to its last question, which was about what is set.           *)
(***************************************************************************)
EXTENDS EntryPopups, StatusViews, SequenceTheorems, TLAPS

(***************************************************************************)
(* Inbounds. Made is what the wizard keeps true on every page, Finished    *)
(* what the pages passed add to it.                                        *)
(***************************************************************************)
Protocols(core) ==
    IF core = "XRAY" THEN {"VLESS", "HYSTERIA2", "WIREGUARD", "SOCKS5", "TROJAN"}
    ELSE IF core = "SING_BOX" THEN {"VLESS", "HYSTERIA2", "NAIVEPROXY", "SOCKS5", "TROJAN"}
    ELSE IF core = "TRUSTTUNNEL" THEN {"TRUSTTUNNEL"} ELSE {}

\* The empty text is none of the names of cores and protocols.
LEMMA BlankIsNothing ==
    Blank \notin {"XRAY", "SING_BOX", "TRUSTTUNNEL", "VLESS", "HYSTERIA2", "WIREGUARD", "SOCKS5",
               "TROJAN", "NAIVEPROXY", "CUSTOM", "named"}
BY Zenon DEF Blank

\* The protocols a core supports, as a set (Supported is the list the dropdown shows).
LEMMA SupportedAre ==
    ASSUME NEW core PROVE ToSet(Supported(core)) = Protocols(core)
<1>1. CASE core = "XRAY"
  BY <1>1 DEF Supported, Protocols, ToSet
<1>2. CASE core = "SING_BOX"
  BY <1>2 DEF Supported, Protocols, ToSet
<1>3. CASE core = "TRUSTTUNNEL"
  BY <1>3 DEF Supported, Protocols, ToSet
<1>4. CASE core \notin {"XRAY", "SING_BOX", "TRUSTTUNNEL"}
  BY <1>4 DEF Supported, Protocols, ToSet
<1> QED BY <1>1, <1>2, <1>3, <1>4

InboundEntry ==
    [core : {Blank, "XRAY", "SING_BOX", "TRUSTTUNNEL"},
     protocol : {Blank, "VLESS", "HYSTERIA2", "WIREGUARD", "SOCKS5", "TROJAN", "NAIVEPROXY", "TRUSTTUNNEL"},
     security : {"NONE", "TLS", "REALITY"}, transmission : {"TCP", "XHTTP"},
     cert : Certificate \cup {Blank}, tuned : SUBSET Tunable]

Made(in) ==
    /\ in \in InboundEntry
    /\ in.core # Blank => in.protocol \in Protocols(in.core)
    /\ ~(in.core = "SING_BOX" /\ in.transmission = "XHTTP")

NeedsCertificate(in) ==
    \/ in.protocol \in {"HYSTERIA2", "TRUSTTUNNEL", "TROJAN"}
    \/ in.protocol = "VLESS" /\ in.security = "TLS"

Finished(in) == Made(in) /\ in.core # Blank /\ (NeedsCertificate(in) => in.cert # Blank)

InboundsOK ==
    /\ step \in 0..3
    /\ \A in \in saved.inbound : Finished(in)
    /\ popup = "inbound" =>
           /\ Made(item)
           /\ step > 0 => item.core # Blank
           /\ step = 3 => (NeedsCertificate(item) => item.cert # Blank)

\* normalize_protocol_for_core yields a protocol of the core and keeps one that is.
LEMMA ProtocolIsSupported ==
    ASSUME NEW core \in {"XRAY", "SING_BOX", "TRUSTTUNNEL"}, NEW protocol
    PROVE  /\ ProtocolFor(core, protocol) \in Protocols(core)
           /\ protocol \in Protocols(core) => ProtocolFor(core, protocol) = protocol
<1>1. Head(Supported(core)) \in Protocols(core)
  <2>1. CASE core = "XRAY"
    BY <2>1 DEF Supported, Protocols
  <2>2. CASE core = "SING_BOX"
    BY <2>2 DEF Supported, Protocols
  <2>3. CASE core = "TRUSTTUNNEL"
    BY <2>3 DEF Supported, Protocols
  <2> QED BY <2>1, <2>2, <2>3
<1> QED BY <1>1, SupportedAre, BlankIsNothing DEF ProtocolFor

\* Taking XHTTP away on sing-box completes an entry whose core supports its protocol.
LEMMA NoXhttpKeeps ==
    ASSUME NEW in \in InboundEntry, in.core # Blank => in.protocol \in Protocols(in.core)
    PROVE  /\ Made(NoXhttpOnSingBox(in))
           /\ NoXhttpOnSingBox(in).core = in.core
BY DEF NoXhttpOnSingBox, Made, InboundEntry

\* Choosing a core leaves an entry that can be saved, whatever was chosen before.
LEMMA CoreKeepsMade ==
    ASSUME NEW in, Made(in), NEW core \in {Blank, "XRAY", "SING_BOX", "TRUSTTUNNEL"}
    PROVE  Made(WithCore(in, core))
<1> DEFINE p == ProtocolFor(core, in.protocol)
           new == [in EXCEPT !.core = core, !.protocol = p]
<1>1. core # Blank => p \in Protocols(core)
  BY ProtocolIsSupported
<1>2. core = Blank => p = Blank
  BY DEF ProtocolFor
<1>3. WithCore(in, core) = NoXhttpOnSingBox(new)
  BY DEF WithCore, Made, InboundEntry
<1> HIDE DEF p
<1>4. new \in InboundEntry /\ new.core = core /\ new.protocol = p
  BY <1>1, <1>2 DEF Made, InboundEntry, Protocols
<1> HIDE DEF new
<1>5. new.core # Blank => new.protocol \in Protocols(new.core)
  BY <1>1, <1>4
<1>6. Made(NoXhttpOnSingBox(new))
  BY <1>4, <1>5, NoXhttpKeeps
<1> QED BY <1>3, <1>6

\* So does choosing one of the protocols offered, and the core stays chosen: WireGuard
\* moves to xray-core, which supports it.
LEMMA ProtocolKeepsMade ==
    ASSUME NEW in, Made(in), in.core # Blank, NEW protocol \in ToSet(Supported(in.core))
    PROVE  /\ Made(WithProtocol(in, protocol))
           /\ WithProtocol(in, protocol).core # Blank
<1> DEFINE core == IF protocol = "WIREGUARD" THEN "XRAY" ELSE in.core
           p == ProtocolFor(core, ProtocolFor(in.core, protocol))
           new == [in EXCEPT !.core = core, !.protocol = p]
<1>1. core \in {"XRAY", "SING_BOX", "TRUSTTUNNEL"} /\ p = protocol /\ protocol \in Protocols(core)
  <2>1. core \in {"XRAY", "SING_BOX", "TRUSTTUNNEL"} /\ in.core \in {"XRAY", "SING_BOX", "TRUSTTUNNEL"}
    BY DEF Made, InboundEntry
  <2>2. protocol \in Protocols(in.core) /\ protocol \in Protocols(core)
    BY SupportedAre DEF Protocols
  <2> QED BY <2>1, <2>2, ProtocolIsSupported
<1>3. WithProtocol(in, protocol) = NoXhttpOnSingBox(new)
  BY DEF WithProtocol, Made, InboundEntry
<1> HIDE DEF p, core
<1>4. new \in InboundEntry /\ new.core = core /\ new.protocol = p
  BY <1>1 DEF Made, InboundEntry, Protocols
<1> HIDE DEF new
<1> QED BY <1>1, <1>3, <1>4, NoXhttpKeeps, BlankIsNothing

\* A step that leaves the inbounds and the page alone and ends with another popup.
LEMMA ElsewhereInbounds ==
    ASSUME InboundsOK, step' \in 0..3, saved'.inbound = saved.inbound, popup' # "inbound"
    PROVE  InboundsOK'
BY DEF InboundsOK

\* Nothing is saved and no popup is open at first.
LEMMA InitInbounds == Init => InboundsOK
<1>1. Init => step = 0 /\ saved.inbound = {} /\ popup = "none"
  BY DEF Init
<1> QED BY <1>1 DEF InboundsOK

\* A wizard opens on its first page, on a default entry or on a saved one.
LEMMA OpenOnKeeps ==
    ASSUME InboundsOK, NEW kind, NEW entries, OpenOn(kind, entries),
           kind = "inbound" => \A in \in entries : Made(in)
    PROVE  InboundsOK'
<1>1. /\ step' = 0 /\ saved' = saved /\ popup' = kind /\ item' \in entries
  BY DEF OpenOn
<1>2. step' \in 0..3
  BY <1>1
<1>3. \A in \in saved'.inbound : Finished(in)
  BY <1>1 DEF InboundsOK
<1>4. popup' = "inbound" => Made(item')
  BY <1>1
<1> QED BY <1>1, <1>2, <1>3, <1>4 DEF InboundsOK

\* An edit stays on its page: it may not undo what the pages passed have checked.
LEMMA EditedKeeps ==
    ASSUME InboundsOK, NEW kind, NEW entry, Edited(kind, entry),
           kind = "inbound" =>
               /\ Made(entry)
               /\ step > 0 => entry.core # Blank
               /\ step = 3 => (NeedsCertificate(entry) => entry.cert # Blank)
    PROVE  InboundsOK'
<1>1. step' = step /\ saved' = saved /\ popup' = kind /\ item' = entry
  BY DEF Edited
<1> QED BY <1>1 DEF InboundsOK

\* Every step keeps the inbound wizard's invariant; NextStep is where the checks of a
\* page are made, Apply where they are needed.
LEMMA NextInbounds == InboundsOK /\ [Next]_vars => InboundsOK'
<1> SUFFICES ASSUME InboundsOK, [Next]_vars PROVE InboundsOK'
  OBVIOUS
<1>1. CASE OpenInbound
  <2>1. Made(DefaultInbound)
    BY DEF Made, DefaultInbound, InboundEntry
  <2>2. \A in \in {DefaultInbound} \cup saved.inbound : Made(in)
    BY <2>1 DEF InboundsOK, Finished
  <2> QED BY <1>1, <2>2, OpenOnKeeps DEF OpenInbound
<1>2. CASE ChooseCore
  <2>1. step = 0 /\ Made(item)
    BY <1>2 DEF ChooseCore, InboundsOK
  <2>2. PICK core \in {Blank, "XRAY", "SING_BOX", "TRUSTTUNNEL"} : Edited("inbound", WithCore(item, core))
    BY <1>2 DEF ChooseCore
  <2> QED BY <2>1, <2>2, CoreKeepsMade, EditedKeeps
<1>3. CASE ChooseProtocol
  <2>1. step = 0 /\ Made(item)
    BY <1>3 DEF ChooseProtocol, InboundsOK
  <2>2. PICK protocol \in ToSet(Supported(item.core)) : Edited("inbound", WithProtocol(item, protocol))
    BY <1>3 DEF ChooseProtocol
  <2>3. item.core # Blank
    BY <2>2, SupportedAre, BlankIsNothing DEF Protocols
  <2> QED BY <2>1, <2>2, <2>3, ProtocolKeepsMade, EditedKeeps
<1>4. CASE ChooseVless
  <2>1. step = 1 /\ Made(item) /\ item.core # Blank
    BY <1>4 DEF ChooseVless, InboundsOK
  <2>2. PICK security \in {"NONE", "TLS", "REALITY"}, transmission \in Transmissions(item.core) :
            Edited("inbound", [item EXCEPT !.security = security, !.transmission = transmission])
    BY <1>4 DEF ChooseVless
  <2> DEFINE entry == [item EXCEPT !.security = security, !.transmission = transmission]
  <2>3. Made(entry) /\ entry.core = item.core
    BY <2>1, <2>2 DEF Made, InboundEntry, Transmissions
  <2>4. Edited("inbound", entry)
    BY <2>2
  <2> HIDE DEF entry
  <2> QED BY <2>1, <2>3, <2>4, EditedKeeps
<1>5. CASE TuneSettings
  <2>1. step = 1 /\ Made(item) /\ item.core # Blank /\ item.protocol \in Tunable
    BY <1>5 DEF TuneSettings, InboundsOK
  <2> DEFINE entry == [item EXCEPT !.tuned = @ \cup {item.protocol}]
  <2>2. Made(entry) /\ entry.core = item.core
    BY <2>1 DEF Made, InboundEntry
  <2>3. Edited("inbound", entry)
    BY <1>5 DEF TuneSettings
  <2> HIDE DEF entry
  <2> QED BY <2>1, <2>2, <2>3, EditedKeeps
<1>6. CASE ChooseCertificate
  <2>1. step = 2 /\ Made(item) /\ item.core # Blank
    BY <1>6 DEF ChooseCertificate, OnCertificatePage, InboundsOK
  <2>2. PICK cert \in Certificate : Edited("inbound", [item EXCEPT !.cert = cert])
    BY <1>6 DEF ChooseCertificate
  <2> DEFINE entry == [item EXCEPT !.cert = cert]
  <2>3. Made(entry) /\ entry.core = item.core /\ entry.cert # Blank
    BY <2>1, <2>2, PopupAssumption DEF Made, InboundEntry
  <2>4. Edited("inbound", entry)
    BY <2>2
  <2> HIDE DEF entry
  <2> QED BY <2>1, <2>3, <2>4, EditedKeeps
<1>7. CASE OpenOutbound
  BY <1>7, OpenOnKeeps DEF OpenOutbound
<1>8. CASE TypeName \/ ChooseType \/ TuneOutbound \/ TuneVless
           \/ AddPeer \/ EditPeer \/ DeletePeer \/ ImportLink
  <2>1. \E entry : Edited("outbound", entry)
    BY <1>8 DEF TypeName, ChooseType, TuneOutbound, TuneVless, AddPeer, EditPeer, DeletePeer, ImportLink
  <2> QED BY <2>1, EditedKeeps
<1>9. CASE NextStep
  <2>1. /\ step' = step + 1 /\ step + 1 < Steps /\ ~Blocked
        /\ popup' = popup /\ item' = item /\ saved' = saved
    BY <1>9 DEF NextStep
  <2>2. step' \in 0..3
    BY <2>1 DEF InboundsOK, Steps, InboundSteps, OutboundSteps
  <2>3. ASSUME popup = "inbound", step' = 3, NeedsCertificate(item) PROVE item.cert # Blank
    <3>1. step = 2
      BY <2>1, <2>3 DEF InboundsOK
    <3>2. ~InboundBlocked(item)
      BY <2>1, <2>3 DEF Blocked
    <3> QED BY <2>3, <3>1, <3>2 DEF InboundBlocked, OnCertificatePage, NeedsCertificate
  <2>4. ASSUME popup = "inbound" PROVE item.core # Blank
    <3>1. ~InboundBlocked(item)
      BY <2>1, <2>4 DEF Blocked
    <3> QED BY <3>1, <2>4 DEF InboundsOK, InboundBlocked
  <2> QED BY <2>1, <2>2, <2>3, <2>4 DEF InboundsOK
<1>10. CASE Back
  <2>1. /\ step' = step - 1 /\ step > 0
        /\ popup' = popup /\ item' = item /\ saved' = saved
    BY <1>10 DEF Back
  <2> QED BY <2>1 DEF InboundsOK
<1>11. CASE Apply
  <2>1. popup \in {"inbound", "outbound"} /\ step + 1 >= Steps /\ popup' = "none" /\ step' = 0
    BY <1>11 DEF Apply
  <2>2. CASE popup = "outbound"
    <3>1. saved'.inbound = saved.inbound
      BY <1>11, <2>2 DEF Apply
    <3> QED BY <2>1, <3>1, ElsewhereInbounds
  <2>3. CASE popup = "inbound"
    <3>1. step \in {2, 3} /\ (step = 2 => ~NeedsCertificate(item))
      BY <2>1, <2>3 DEF InboundsOK, Steps, InboundSteps, NeedsCertificate
    <3>2. Finished(item)
      BY <2>3, <3>1 DEF Finished, InboundsOK
    <3>3. saved'.inbound \subseteq {item} \cup saved.inbound
      BY <1>11, <2>3 DEF Apply
    <3> QED BY <2>1, <3>2, <3>3 DEF InboundsOK
  <2> QED BY <2>1, <2>2, <2>3
<1>12. CASE Cancel
  BY <1>12, ElsewhereInbounds DEF Cancel
<1>13. CASE Warp \/ CertificateEditor \/ RequestFails \/ UNCHANGED vars
  <2>1. /\ step' = step /\ saved'.inbound = saved.inbound
        /\ (popup' # "inbound" \/ (popup' = popup /\ item' = item))
    <3>1. CASE Warp
      <4>1. CASE OpenWarp \/ Register \/ UpdateLicense \/ Clear
        BY <4>1 DEF OpenWarp, Register, UpdateLicense, Clear, Ask, inbound
      <4>2. CASE WarpAnswers
        BY <4>2 DEF WarpAnswers, Registered, LicenseUpdated, Show
      <4>3. CASE CreateWarp
        BY <4>3 DEF CreateWarp
      <4> QED BY <3>1, <4>1, <4>2, <4>3 DEF Warp
    <3>2. CASE CertificateEditor
      <4>1. CASE OpenCertificate \/ TypePem \/ StartRead
        BY <4>1 DEF OpenCertificate, TypePem, StartRead, inbound
      <4>2. CASE ReadEnds
        BY <4>2 DEF ReadEnds
      <4>3. CASE SaveCertificate
        BY <4>3 DEF SaveCertificate
      <4> QED BY <3>2, <4>1, <4>2, <4>3 DEF CertificateEditor
    <3>3. CASE RequestFails \/ UNCHANGED vars
      BY <3>3 DEF RequestFails, inbound, vars
    <3> QED BY <1>13, <3>1, <3>2, <3>3
  <2> QED BY <2>1, ElsewhereInbounds DEF InboundsOK
<1> QED BY <1>1, <1>2, <1>3, <1>4, <1>5, <1>6, <1>7, <1>8, <1>9, <1>10, <1>11, <1>12, <1>13
      DEF Next, Wizards

(***************************************************************************)
(* Outbounds: their fields are what the wizard makes of them.              *)
(***************************************************************************)
OutboundEntry ==
    [name : {Blank, "named"}, type : {"VLESS", "WIREGUARD", "SOCKS5", "CUSTOM", "BLOCK"},
     peers : Seq({"blank", "keyed"}), builtin : BOOLEAN, tuned : SUBSET (Tunable \cup {"VLESS"})]

OutboundsOK ==
    /\ saved.outbound \subseteq OutboundEntry
    /\ popup = "outbound" => item \in OutboundEntry

\* Nothing is saved and no popup is open at first.
LEMMA InitOutbounds == Init => OutboundsOK
<1>1. Init => saved.outbound = {} /\ popup = "none"
  BY DEF Init
<1> QED BY <1>1 DEF OutboundsOK

\* An edit of an outbound's fields within their types.
LEMMA EditedOutbound ==
    ASSUME OutboundsOK, NEW entry \in OutboundEntry, Edited("outbound", entry)
    PROVE  OutboundsOK'
BY DEF OutboundsOK, Edited

\* Every step keeps the outbounds' fields within their types.
LEMMA NextOutbounds == OutboundsOK /\ [Next]_vars => OutboundsOK'
<1> SUFFICES ASSUME OutboundsOK, [Next]_vars PROVE OutboundsOK'
  OBVIOUS
<1>1. CASE OpenOutbound
  <2>1. {DefaultOutbound, BuiltinOutbound, MasqueOutbound} \subseteq OutboundEntry
    <3>1. <<>> \in Seq({"blank", "keyed"})
      OBVIOUS
    <3>2. DefaultOutbound \in OutboundEntry
      BY <3>1 DEF DefaultOutbound, OutboundEntry
    <3>3. BuiltinOutbound \in OutboundEntry
      BY <3>2 DEF BuiltinOutbound, OutboundEntry
    <3>4. MasqueOutbound \in OutboundEntry
      BY <3>2 DEF MasqueOutbound, OutboundEntry
    <3> QED BY <3>2, <3>3, <3>4
  <2> QED BY <1>1, <2>1 DEF OpenOutbound, OpenOn, OutboundsOK
<1>2. CASE TypeName \/ ChooseType
  <2>1. item \in OutboundEntry
    BY <1>2 DEF TypeName, ChooseType, OutboundsOK
  <2>2. PICK name \in {Blank, "named"}, type \in {"VLESS", "WIREGUARD", "SOCKS5", "CUSTOM", "BLOCK"} :
            Edited("outbound", [item EXCEPT !.name = name, !.type = type])
    <3>1. CASE TypeName
      <4>1. PICK name \in {Blank, "named"} : Edited("outbound", [item EXCEPT !.name = name])
        BY <3>1 DEF TypeName
      <4>2. [item EXCEPT !.name = name] = [item EXCEPT !.name = name, !.type = item.type]
        BY <2>1 DEF OutboundEntry
      <4> QED BY <4>1, <4>2, <2>1 DEF OutboundEntry
    <3>2. CASE ChooseType
      <4>1. PICK type \in {"VLESS", "WIREGUARD", "SOCKS5", "CUSTOM"} :
                Edited("outbound", [item EXCEPT !.type = type, !.name = "named"])
        BY <3>2 DEF ChooseType
      <4>2. [item EXCEPT !.type = type, !.name = "named"] = [item EXCEPT !.name = "named", !.type = type]
        BY <2>1 DEF OutboundEntry
      <4> QED BY <4>1, <4>2
    <3> QED BY <1>2, <3>1, <3>2
  <2>3. [item EXCEPT !.name = name, !.type = type] \in OutboundEntry
    BY <2>1, <2>2 DEF OutboundEntry
  <2> QED BY <2>2, <2>3, EditedOutbound
<1>3. CASE TuneOutbound \/ TuneVless \/ ImportLink
  <2>1. item \in OutboundEntry
    BY <1>3 DEF TuneOutbound, TuneVless, ImportLink, OnVlessPage, OnOutboundPage, OutboundsOK
  <2>2. PICK added \in Tunable \cup {"VLESS"} :
            \/ Edited("outbound", [item EXCEPT !.tuned = @ \cup {added}])
            \/ Edited("outbound", [item EXCEPT !.type = "VLESS", !.builtin = FALSE, !.tuned = @ \cup {added}])
    BY <1>3 DEF TuneOutbound, TuneVless, ImportLink
  <2>3. /\ [item EXCEPT !.tuned = @ \cup {added}] \in OutboundEntry
        /\ [item EXCEPT !.type = "VLESS", !.builtin = FALSE, !.tuned = @ \cup {added}] \in OutboundEntry
    BY <2>1, <2>2 DEF OutboundEntry
  <2> QED BY <2>2, <2>3, EditedOutbound
<1>4. CASE AddPeer \/ EditPeer \/ DeletePeer
  <2>1. item \in OutboundEntry
    BY <1>4 DEF AddPeer, EditPeer, DeletePeer, OnOutboundPage, OutboundsOK
  <2>2. PICK peers \in Seq({"blank", "keyed"}) : Edited("outbound", [item EXCEPT !.peers = peers])
    <3>1. item.peers \in Seq({"blank", "keyed"})
      BY <2>1 DEF OutboundEntry
    <3>2. CASE AddPeer
      <4>1. Append(item.peers, "blank") \in Seq({"blank", "keyed"})
        BY <3>1
      <4> QED BY <3>2, <4>1 DEF AddPeer
    <3>3. CASE EditPeer
      <4>1. PICK i \in DOMAIN item.peers, peer \in {"blank", "keyed"} :
                Edited("outbound", [item EXCEPT !.peers[i] = peer])
        BY <3>3 DEF EditPeer
      <4>2. [item.peers EXCEPT ![i] = peer] \in Seq({"blank", "keyed"})
        BY <3>1, <4>1
      <4>3. [item EXCEPT !.peers[i] = peer] = [item EXCEPT !.peers = [item.peers EXCEPT ![i] = peer]]
        BY <2>1 DEF OutboundEntry
      <4> QED BY <4>1, <4>2, <4>3
    <3>4. CASE DeletePeer
      <4>1. PICK i \in DOMAIN item.peers : Edited("outbound", [item EXCEPT !.peers = RemoveAt(@, i)])
        BY <3>4 DEF DeletePeer
      <4>2. RemoveAt(item.peers, i) \in Seq({"blank", "keyed"})
        BY <3>1, <4>1 DEF RemoveAt
      <4> QED BY <4>1, <4>2
    <3> QED BY <1>4, <3>2, <3>3, <3>4
  <2>3. [item EXCEPT !.peers = peers] \in OutboundEntry
    BY <2>1, <2>2 DEF OutboundEntry
  <2> QED BY <2>2, <2>3, EditedOutbound
<1>5. CASE OpenInbound \/ ChooseCore \/ ChooseProtocol \/ ChooseVless \/ TuneSettings \/ ChooseCertificate
  <2>1. popup' = "inbound" /\ saved' = saved
    BY <1>5 DEF OpenInbound, OpenOn, ChooseCore, ChooseProtocol, ChooseVless, TuneSettings, ChooseCertificate, Edited
  <2> QED BY <2>1 DEF OutboundsOK
<1>6. CASE NextStep \/ Back
  BY <1>6 DEF NextStep, Back, OutboundsOK
<1>7. CASE Apply
  <2>1. popup \in {"inbound", "outbound"} /\ popup' = "none"
    BY <1>7 DEF Apply
  <2>2. saved'.outbound \subseteq IF popup = "outbound" THEN {item} \cup saved.outbound ELSE saved.outbound
    BY <1>7, <2>1 DEF Apply
  <2> QED BY <2>1, <2>2 DEF OutboundsOK
<1>8. CASE Cancel
  BY <1>8 DEF Cancel, OutboundsOK
<1>9. CASE Warp \/ CertificateEditor \/ RequestFails \/ UNCHANGED vars
  <2>1. /\ saved'.outbound = saved.outbound
        /\ popup' # "outbound" \/ (popup' = popup /\ item' = item)
    <3>1. CASE Warp
      <4>1. CASE OpenWarp \/ Register \/ UpdateLicense \/ Clear
        BY <4>1 DEF OpenWarp, Register, UpdateLicense, Clear, Ask, inbound
      <4>2. CASE WarpAnswers
        BY <4>2 DEF WarpAnswers, Registered, LicenseUpdated, Show
      <4>3. CASE CreateWarp
        BY <4>3 DEF CreateWarp
      <4> QED BY <3>1, <4>1, <4>2, <4>3 DEF Warp
    <3>2. CASE CertificateEditor
      <4>1. CASE OpenCertificate \/ TypePem \/ StartRead
        BY <4>1 DEF OpenCertificate, TypePem, StartRead, inbound
      <4>2. CASE ReadEnds
        BY <4>2 DEF ReadEnds
      <4>3. CASE SaveCertificate
        BY <4>3 DEF SaveCertificate
      <4> QED BY <3>2, <4>1, <4>2, <4>3 DEF CertificateEditor
    <3>3. CASE RequestFails \/ UNCHANGED vars
      BY <3>3 DEF RequestFails, inbound, vars
    <3> QED BY <1>9, <3>1, <3>2, <3>3
  <2> QED BY <2>1 DEF OutboundsOK
<1> QED BY <1>1, <1>2, <1>3, <1>4, <1>5, <1>6, <1>7, <1>8, <1>9 DEF Next, Wizards

\* Whatever order core, protocol and transmission were chosen in, the core of a saved
\* inbound supports its protocol and sing-box gets no XHTTP (inbound_editor.rs).
THEOREM SavedInboundsAreSupported == Spec => []SavedInboundIsSupported
<1>1. InboundsOK => SavedInboundIsSupported
  BY SupportedAre DEF InboundsOK, Finished, Made, SavedInboundIsSupported
<1> QED BY <1>1, InitInbounds, NextInbounds, PTL DEF Spec

\* No path through the wizard's pages saves an inbound that serves TLS without a
\* certificate, NaiveProxy's apart (inbound_editor.rs).
THEOREM SavedInboundsHaveCertificates == Spec => []SavedInboundHasCertificate
<1>1. InboundsOK => SavedInboundHasCertificate
  BY DEF InboundsOK, Finished, NeedsCertificate, SavedInboundHasCertificate
<1> QED BY <1>1, InitInbounds, NextInbounds, PTL DEF Spec

\* Of a finished inbound storage clears nothing the node is sent: its core supports
\* its protocol, so what is sent is that protocol's settings (sanitize_inbound_for_storage).
LEMMA InboundIsSentAlike ==
    ASSUME NEW in, Finished(in) PROVE SentInbound(StoredInbound(in)) = SentInbound(in)
<1> DEFINE stored == StoredInbound(in)
<1>1. in \in InboundEntry /\ in.core \in {"XRAY", "SING_BOX", "TRUSTTUNNEL"} /\ in.protocol \in Protocols(in.core)
  BY DEF Finished, Made, InboundEntry
<1>2. /\ stored.core = in.core /\ stored.protocol = in.protocol /\ stored.cert = in.cert
      /\ stored.tuned = in.tuned \cap KeptSettings(in.protocol)
      /\ in.protocol = "VLESS" => stored.security = in.security /\ stored.transmission = in.transmission
  BY <1>1 DEF StoredInbound, InboundEntry
<1>3. ProtocolFor(in.core, in.protocol) = in.protocol
  BY <1>1, ProtocolIsSupported
<1>4. (in.protocol \in stored.tuned) = (in.protocol \in in.tuned)
  BY <1>2 DEF KeptSettings
<1> HIDE DEF stored
<1> QED BY <1>2, <1>3, <1>4 DEF SentInbound, stored

\* Storage keeps the settings of an outbound's own type and a WireGuard outbound's
\* peers, and these are all the node is sent of it (sanitize_outbound_for_storage).
LEMMA OutboundIsSentAlike ==
    ASSUME NEW out \in OutboundEntry PROVE SentOutbound(StoredOutbound(out)) = SentOutbound(out)
<1> DEFINE stored == StoredOutbound(out)
<1>1. /\ stored.name = out.name /\ stored.type = out.type
      /\ stored.tuned = {type \in out.tuned : Survives(type, out)}
      /\ stored.peers = IF Survives("WIREGUARD", out) THEN out.peers ELSE <<>>
  BY DEF StoredOutbound, OutboundEntry
<1>2. (out.type \in stored.tuned) = (out.type \in out.tuned)
  BY <1>1 DEF Survives
<1>3. out.type = "WIREGUARD" => stored.peers = out.peers
  BY <1>1 DEF Survives
<1> HIDE DEF stored
<1> QED BY <1>1, <1>2, <1>3 DEF SentOutbound, stored

\* A deployment after the page was loaded again sends the node what one before it
\* does (build_full_config of a draft that went through LocalStorage).
THEOREM StoredEntriesAreSentAlike == Spec => []StoredIsSentAlike
<1>1. InboundsOK /\ OutboundsOK => StoredIsSentAlike
  BY InboundIsSentAlike, OutboundIsSentAlike DEF InboundsOK, OutboundsOK, StoredIsSentAlike
<1> QED BY <1>1, InitInbounds, NextInbounds, InitOutbounds, NextOutbounds, PTL DEF Spec

(***************************************************************************)
(* WARP. An answer that the popup takes is the one to the only request of  *)
(* this opening, and the registration has not changed since it was asked.  *)
(***************************************************************************)
OpeningsOK ==
    /\ opened \in Nat
    /\ \A job \in waiting : job.opening \in Nat /\ job.opening <= opened

WarpOK ==
    /\ registered \in Nat /\ "warp" \in DOMAIN saved
    /\ popup = "warp" =>
           /\ item = [account |-> account]
           /\ \A job \in Mine : job.of = item /\ Mine = {job}
    /\ AccountsAreKept

\* No account is registered at first and nothing waits.
LEMMA InitWarp == Init => OpeningsOK /\ WarpOK
BY DEF Init, OpeningsOK, WarpOK, AccountsAreKept

\* A step that leaves the registrations alone: what is saved grows, the requests
\* shrink, and no WARP popup opens.
LEMMA ElsewhereWarp ==
    ASSUME OpeningsOK, WarpOK,
           account' = account, registered' = registered, givenUp' = givenUp,
           DOMAIN saved' = DOMAIN saved, saved.warp \subseteq saved'.warp,
           \/ popup' # "warp"
           \/ popup' = popup /\ item' = item /\ opened' = opened /\ waiting' \subseteq waiting
    PROVE  WarpOK'
<1>1. AccountsAreKept'
  BY DEF WarpOK, AccountsAreKept, Held
<1>2. ASSUME popup' = "warp" PROVE item' = [account |-> account'] /\ \A job \in Mine' : job.of = item' /\ Mine' = {job}
  BY <1>2 DEF WarpOK, Mine
<1> QED BY <1>1, <1>2 DEF WarpOK

\* A request belongs to an opening that has been: a popup opens without any of its own.
LEMMA NextOpenings == OpeningsOK /\ [Next]_vars => OpeningsOK'
<1> SUFFICES ASSUME OpeningsOK, [Next]_vars PROVE OpeningsOK'
  OBVIOUS
<1>1. CASE opened' = opened /\ waiting' \subseteq waiting
  BY <1>1 DEF OpeningsOK
<1>2. CASE opened' = opened + 1 /\ waiting' = waiting
  BY <1>2 DEF OpeningsOK
<1>3. CASE opened' = opened /\ \E kind : waiting' = waiting \cup {[kind |-> kind, opening |-> opened, of |-> item]}
  BY <1>3 DEF OpeningsOK
<1>4. CASE OpenInbound \/ OpenOutbound \/ OpenWarp \/ OpenCertificate
  BY <1>2, <1>4 DEF OpenInbound, OpenOutbound, OpenOn, OpenWarp, OpenCertificate
<1>5. CASE ChooseCore \/ ChooseProtocol \/ ChooseVless \/ TuneSettings \/ ChooseCertificate
           \/ TypeName \/ ChooseType \/ TuneOutbound \/ TuneVless
           \/ AddPeer \/ EditPeer \/ DeletePeer \/ ImportLink
  BY <1>1, <1>5 DEF ChooseCore, ChooseProtocol, ChooseVless, TuneSettings, ChooseCertificate, TypeName,
       ChooseType, TuneOutbound, TuneVless, AddPeer, EditPeer, DeletePeer, ImportLink, Edited, requests
<1>6. CASE NextStep \/ Back \/ Apply \/ Clear \/ CreateWarp \/ TypePem \/ SaveCertificate \/ Cancel
           \/ UNCHANGED vars
  BY <1>1, <1>6 DEF NextStep, Back, Apply, Clear, CreateWarp, TypePem, SaveCertificate, Cancel, vars, requests
<1>7. CASE Register \/ UpdateLicense \/ StartRead
  BY <1>3, <1>7 DEF Register, UpdateLicense, Ask, StartRead
<1>8. CASE WarpAnswers \/ ReadEnds \/ RequestFails
  BY <1>1, <1>8 DEF WarpAnswers, ReadEnds, RequestFails
<1> QED BY <1>4, <1>5, <1>6, <1>7, <1>8 DEF Next, Wizards, Warp, CertificateEditor

\* Every step keeps the registrations: only an answer to this opening's one request, or
\* the person, changes the one shown.
LEMMA NextWarp == OpeningsOK /\ WarpOK /\ [Next]_vars => WarpOK'
<1> SUFFICES ASSUME OpeningsOK, WarpOK, [Next]_vars PROVE WarpOK'
  OBVIOUS
<1>1. CASE OpenWarp
  <2>1. PICK a \in IF account = NoAccount /\ saved.warp # {} THEN saved.warp ELSE {account} :
            item' = [account |-> a] /\ account' = a
    BY <1>1 DEF OpenWarp
  <2>2. /\ opened' = opened + 1 /\ waiting' = waiting /\ saved' = saved
        /\ registered' = registered /\ givenUp' = givenUp
    BY <1>1 DEF OpenWarp
  <2>3. Mine' = {}
    BY <2>2 DEF Mine, OpeningsOK
  <2>4. \A b \in 1..registered : b \in Held => b \in Held'
    BY <2>1, <2>2 DEF Held, NoAccount
  <2> QED BY <2>1, <2>2, <2>3, <2>4 DEF WarpOK, AccountsAreKept
<1>2. CASE Register \/ UpdateLicense
  <2>1. PICK kind : Ask(kind)
    BY <1>2 DEF Register, UpdateLicense
  <2>2. /\ popup = "warp" /\ popup' = popup /\ item' = item /\ saved' = saved /\ opened' = opened
        /\ account' = account /\ registered' = registered /\ givenUp' = givenUp /\ Mine = {}
        /\ waiting' = waiting \cup {[kind |-> kind, opening |-> opened, of |-> item]}
    BY <2>1 DEF Ask, Busy, inbound, warp
  <2>3. Mine' = {[kind |-> kind, opening |-> opened, of |-> item]}
    BY <2>2 DEF Mine
  <2>4. AccountsAreKept'
    BY <2>2 DEF WarpOK, AccountsAreKept, Held
  <2> QED BY <2>2, <2>3, <2>4 DEF WarpOK
<1>3. CASE Clear
  <2>1. /\ popup = "warp" /\ popup' = popup /\ saved' = saved /\ Mine = {}
        /\ item' = [account |-> NoAccount] /\ account' = NoAccount
        /\ registered' = registered /\ givenUp' = givenUp \cup {item.account}
    BY <1>3 DEF Clear, Busy
  <2>2. Mine' = {}
    BY <1>3, <2>1 DEF Mine, Clear, requests
  <2>3. AccountsAreKept'
    BY <2>1 DEF WarpOK, AccountsAreKept, Held
  <2> QED BY <2>1, <2>2, <2>3 DEF WarpOK
<1>4. CASE WarpAnswers
  <2>1. PICK job \in waiting :
            (Registered(job) \/ LicenseUpdated(job)) /\ waiting' = waiting \ {job}
    BY <1>4 DEF WarpAnswers
  <2>2. popup' = popup /\ saved' = saved /\ opened' = opened
    BY <1>4 DEF WarpAnswers
  <2>3. CASE popup = "warp" /\ job \in Mine
    <3>1. Mine' = {} /\ item = [account |-> account] /\ job.of = item
      BY <2>1, <2>2, <2>3 DEF Mine, WarpOK
    <3>2. CASE Registered(job)
      <4>1. /\ registered' = registered + 1 /\ givenUp' = givenUp \cup {account}
            /\ item' = [account |-> registered + 1] /\ account' = registered + 1
        BY <2>3, <3>1, <3>2 DEF Registered, Show
      <4>2. AccountsAreKept'
        BY <2>2, <4>1 DEF WarpOK, AccountsAreKept, Held
      <4> QED BY <2>2, <3>1, <4>1, <4>2 DEF WarpOK
    <3>3. CASE LicenseUpdated(job)
      <4>1. /\ registered' = registered /\ givenUp' = givenUp
            /\ item' = [account |-> account] /\ account' = account
        BY <2>3, <3>1, <3>3 DEF LicenseUpdated, Show
      <4>2. AccountsAreKept'
        BY <2>2, <4>1 DEF WarpOK, AccountsAreKept, Held
      <4> QED BY <2>2, <3>1, <4>1, <4>2 DEF WarpOK
    <3> QED BY <2>1, <3>2, <3>3
  <2>4. CASE ~(popup = "warp" /\ job \in Mine)
    <3>1. item' = item /\ account' = account
      BY <2>1, <2>4 DEF Registered, LicenseUpdated
    <3>2. \/ registered' = registered /\ givenUp' = givenUp
          \/ registered' = registered + 1 /\ givenUp' = givenUp \cup {registered + 1}
      BY <2>1, <2>4 DEF Registered, LicenseUpdated
    <3>3. AccountsAreKept'
      BY <2>2, <3>1, <3>2 DEF WarpOK, AccountsAreKept, Held
    <3>4. Mine' \subseteq Mine
      BY <2>1, <2>2 DEF Mine
    <3>5. popup' = "warp" => \A other \in Mine' : other.of = item' /\ Mine' = {other}
      BY <2>2, <3>1, <3>4 DEF WarpOK
    <3> QED BY <2>2, <3>1, <3>2, <3>3, <3>5 DEF WarpOK
  <2> QED BY <2>3, <2>4
<1>5. CASE CreateWarp
  <2>1. DOMAIN saved' = DOMAIN saved /\ saved.warp \subseteq saved'.warp
    BY <1>5 DEF CreateWarp, WarpOK
  <2> QED BY <1>5, <2>1, ElsewhereWarp DEF CreateWarp, warp
<1>6. CASE Wizards \/ CertificateEditor \/ RequestFails \/ Cancel \/ UNCHANGED vars
  <2>1. account' = account /\ registered' = registered /\ givenUp' = givenUp
    <3>1. CASE OpenInbound \/ OpenOutbound
      BY <3>1 DEF OpenInbound, OpenOutbound, OpenOn, warp
    <3>2. CASE ChooseCore \/ ChooseProtocol \/ ChooseVless \/ TuneSettings \/ ChooseCertificate
               \/ TypeName \/ ChooseType \/ TuneOutbound \/ TuneVless
               \/ AddPeer \/ EditPeer \/ DeletePeer \/ ImportLink
      BY <3>2 DEF ChooseCore, ChooseProtocol, ChooseVless, TuneSettings, ChooseCertificate, TypeName,
           ChooseType, TuneOutbound, TuneVless, AddPeer, EditPeer, DeletePeer, ImportLink, Edited, warp
    <3>3. CASE NextStep \/ Back \/ Apply
      BY <3>3 DEF NextStep, Back, Apply, warp
    <3>4. CASE CertificateEditor \/ RequestFails \/ Cancel \/ UNCHANGED vars
      BY <3>4 DEF CertificateEditor, OpenCertificate, TypePem, StartRead, ReadEnds, SaveCertificate,
                  RequestFails, Cancel, vars, warp
    <3> QED BY <1>6, <3>1, <3>2, <3>3, <3>4 DEF Wizards
  <2>2. DOMAIN saved' = DOMAIN saved /\ saved'.warp = saved.warp
    <3>1. CASE OpenInbound \/ OpenOutbound
      BY <3>1 DEF OpenInbound, OpenOutbound, OpenOn
    <3>2. CASE ChooseCore \/ ChooseProtocol \/ ChooseVless \/ TuneSettings \/ ChooseCertificate
               \/ TypeName \/ ChooseType \/ TuneOutbound \/ TuneVless
               \/ AddPeer \/ EditPeer \/ DeletePeer \/ ImportLink
      BY <3>2 DEF ChooseCore, ChooseProtocol, ChooseVless, TuneSettings, ChooseCertificate, TypeName,
           ChooseType, TuneOutbound, TuneVless, AddPeer, EditPeer, DeletePeer, ImportLink, Edited
    <3>3. CASE NextStep \/ Back \/ Apply
      BY <3>3 DEF NextStep, Back, Apply, WarpOK
    <3>4. CASE CertificateEditor \/ RequestFails \/ Cancel \/ UNCHANGED vars
      BY <3>4 DEF CertificateEditor, OpenCertificate, TypePem, StartRead, ReadEnds, SaveCertificate,
                  RequestFails, Cancel, vars, inbound, WarpOK
    <3> QED BY <1>6, <3>1, <3>2, <3>3, <3>4 DEF Wizards
  <2>3. \/ popup' # "warp"
        \/ popup' = popup /\ item' = item /\ opened' = opened /\ waiting' \subseteq waiting
    <3>1. CASE OpenInbound \/ OpenOutbound
      BY <3>1 DEF OpenInbound, OpenOutbound, OpenOn
    <3>2. CASE ChooseCore \/ ChooseProtocol \/ ChooseVless \/ TuneSettings \/ ChooseCertificate
               \/ TypeName \/ ChooseType \/ TuneOutbound \/ TuneVless
               \/ AddPeer \/ EditPeer \/ DeletePeer \/ ImportLink
      BY <3>2 DEF ChooseCore, ChooseProtocol, ChooseVless, TuneSettings, ChooseCertificate, TypeName,
           ChooseType, TuneOutbound, TuneVless, AddPeer, EditPeer, DeletePeer, ImportLink, Edited
    <3>3. CASE NextStep \/ Back \/ Apply
      BY <3>3 DEF NextStep, Back, Apply
    <3>4. CASE CertificateEditor
      BY <3>4 DEF CertificateEditor, OpenCertificate, TypePem, StartRead, ReadEnds, SaveCertificate, inbound
    <3>5. CASE RequestFails \/ Cancel \/ UNCHANGED vars
      BY <3>5 DEF RequestFails, Cancel, vars, inbound
    <3> QED BY <1>6, <3>1, <3>2, <3>3, <3>4, <3>5 DEF Wizards
  <2> QED BY <2>1, <2>2, <2>3, ElsewhereWarp
<1> QED BY <1>1, <1>2, <1>3, <1>4, <1>5, <1>6 DEF Next, Warp

\* However its answers come late, fail or find the popup closed, every WARP account the
\* node registered stays in the draft or was given up (warp_popup.rs).
THEOREM AccountsAreAlwaysKept == Spec => []AccountsAreKept
<1>1. WarpOK => AccountsAreKept
  BY DEF WarpOK
<1> QED BY <1>1, InitWarp, NextOpenings, NextWarp, PTL DEF Spec

(***************************************************************************)
(* Certificates. The property is inductive as it stands.                   *)
(***************************************************************************)
\* Every step keeps the texts: a read that ends is applied to the certificate it started
\* from, which is the one shown unless overtaken says otherwise.
LEMMA NextTexts == TextsAreKept /\ [Next]_vars => TextsAreKept'
<1> SUFFICES ASSUME TextsAreKept, [Next]_vars, popup' = "certificate", ~overtaken' PROVE item' = intended'
  BY DEF TextsAreKept
<1>1. CASE OpenCertificate
  BY <1>1 DEF OpenCertificate
<1>2. CASE TypePem
  BY <1>2 DEF TypePem, TextsAreKept
<1>3. CASE ReadEnds
  <2>1. PICK job \in waiting, text \in Pem :
            IF popup = "certificate" /\ job \in Mine
            THEN /\ item' = Pasted(job.of, job.kind, text)
                 /\ intended' = [intended EXCEPT ![job.kind] = text]
                 /\ overtaken' = (overtaken \/ item # job.of)
            ELSE UNCHANGED <<item, texts>>
    BY <1>3 DEF ReadEnds
  <2>2. popup = "certificate"
    BY <1>3 DEF ReadEnds
  <2>3. CASE job \in Mine
    <3>1. ~overtaken /\ item = job.of
      BY <2>1, <2>2, <2>3
    <3> QED BY <2>1, <2>2, <2>3, <3>1 DEF Pasted, TextsAreKept
  <2>4. CASE job \notin Mine
    BY <2>1, <2>2, <2>4 DEF TextsAreKept, texts
  <2> QED BY <2>3, <2>4
<1>4. CASE StartRead \/ RequestFails \/ UNCHANGED vars
  BY <1>4 DEF StartRead, RequestFails, vars, inbound, texts, TextsAreKept
<1>5. CASE WarpAnswers
  <2>1. PICK job \in waiting : Registered(job) \/ LicenseUpdated(job)
    BY <1>5 DEF WarpAnswers
  <2>2. popup = "certificate" /\ UNCHANGED texts
    BY <1>5 DEF WarpAnswers
  <2>3. item' = item
    BY <2>1, <2>2 DEF Registered, LicenseUpdated
  <2> QED BY <2>2, <2>3 DEF TextsAreKept, texts
<1>6. CASE Wizards \/ (Warp /\ ~WarpAnswers) \/ SaveCertificate \/ Cancel
  <2>1. popup' # "certificate"
    <3>1. CASE OpenInbound \/ OpenOutbound
      BY <3>1 DEF OpenInbound, OpenOutbound, OpenOn
    <3>2. CASE ChooseCore \/ ChooseProtocol \/ ChooseVless \/ TuneSettings \/ ChooseCertificate
               \/ TypeName \/ ChooseType \/ TuneOutbound \/ TuneVless
               \/ AddPeer \/ EditPeer \/ DeletePeer \/ ImportLink
      BY <3>2 DEF ChooseCore, ChooseProtocol, ChooseVless, TuneSettings, ChooseCertificate, TypeName,
           ChooseType, TuneOutbound, TuneVless, AddPeer, EditPeer, DeletePeer, ImportLink, Edited,
           OnVlessPage, OnOutboundPage
    <3>3. CASE NextStep \/ Back \/ Apply
      BY <3>3 DEF NextStep, Back, Apply
    <3>4. CASE Warp /\ ~WarpAnswers
      BY <3>4 DEF Warp, OpenWarp, Register, UpdateLicense, Ask, Clear, CreateWarp, inbound
    <3>5. CASE SaveCertificate \/ Cancel
      BY <3>5 DEF SaveCertificate, Cancel
    <3> QED BY <1>6, <3>1, <3>2, <3>3, <3>4, <3>5 DEF Wizards
  <2> QED BY <2>1
<1> QED BY <1>1, <1>2, <1>3, <1>4, <1>5, <1>6 DEF Next, CertificateEditor

\* A read that ends puts back the certificate it started from with its text, which
\* loses nothing as long as nothing else had changed meanwhile (certificate_editor.rs).
THEOREM TextsAreAlwaysKept == Spec => []TextsAreKept
<1>1. Init => TextsAreKept
  BY DEF Init, TextsAreKept
<1> QED BY <1>1, NextTexts, PTL DEF Spec

(***************************************************************************)
(* Status views. The interval asks for what is set; the question asked last*)
(* is the last in flight until it is answered; and unless questions have   *)
(* overlapped it is the only one, outside the tab always so.               *)
(***************************************************************************)
Kinds  == {"none", "page", "card", "popup"}
Views  == [kind : Kinds, on : BOOLEAN, auto : BOOLEAN, range : Span]
Flight == [range : Span, to : Address, phase : {"asked", "answered"}]

ViewsTypeOK ==
    /\ view \in Views
    /\ address \in Address /\ hydrated \in BOOLEAN
    /\ interval = Unset \/ interval \in [kind : {"every"}, range : Span, to : Address]
    /\ flights \in Seq(Flight)
    /\ error \in BOOLEAN /\ loading \in BOOLEAN
    /\ newest \in [range : Span, became : {"none", "pending", "answered", "misread", "refused"}]
    /\ overlapped \in BOOLEAN /\ moved \in BOOLEAN

IntervalIsCurrent ==
    interval # Unset =>
        /\ OnTab
        /\ interval.range = view.range
        /\ moved \/ interval.to = address

PendingIsLast ==
    newest.became = "pending" =>
        /\ flights # <<>>
        /\ Asked(flights[Len(flights)])
        /\ flights[Len(flights)].range = newest.range

AloneUnlessOverlapped ==
    ~overlapped =>
        /\ \A i \in DOMAIN flights : Asked(flights[i]) => i = Len(flights) /\ newest.became = "pending"
        /\ newest.became = "pending" => ~error

OneByOne ==
    view.kind # "page" =>
        /\ Len(flights) <= 1 /\ (flights # <<>> => loading)
        /\ \A i \in DOMAIN flights : Asked(flights[i])
        /\ view.kind = "none" => view = NoView /\ flights = <<>>

ViewsInv ==
    /\ ViewsTypeOK /\ IntervalIsCurrent /\ PendingIsLast /\ AloneUnlessOverlapped /\ OneByOne
    /\ TellsTheLatest

(***************************************************************************)
(* What the operators return.                                              *)
(***************************************************************************)
\* RemoveAt of the community modules, which stands for Vec::remove and for the end of a
\* question's task: the elements behind the one that goes move up by one.
LEMMA RemovedAt ==
    ASSUME NEW S, NEW s \in Seq(S), NEW i \in DOMAIN s
    PROVE  /\ RemoveAt(s, i) \in Seq(S)
           /\ Len(RemoveAt(s, i)) = Len(s) - 1
           /\ \A j \in DOMAIN RemoveAt(s, i) :
                 RemoveAt(s, i)[j] = IF j < i THEN s[j] ELSE s[j + 1]
<1> DEFINE before == SubSeq(s, 1, i - 1)
           behind == SubSeq(s, i + 1, Len(s))
<1>1. i \in 1..Len(s) /\ Len(s) \in Nat /\ \A j \in 1..Len(s) : s[j] \in S
  OBVIOUS
<1>2. /\ before \in Seq(S) /\ Len(before) = i - 1
      /\ \A j \in 1..(i - 1) : before[j] = s[j]
  <2>1. 1 \in Int /\ i - 1 \in Int /\ \A j \in 1..(i - 1) : s[j] \in S
    BY <1>1
  <2> QED
    BY <1>1, <2>1, SubSeqProperties
<1>3. /\ behind \in Seq(S) /\ Len(behind) = Len(s) - i
      /\ \A j \in 1..(Len(s) - i) : behind[j] = s[i + j]
  <2>1. i + 1 \in Int /\ Len(s) \in Int /\ \A j \in (i + 1)..Len(s) : s[j] \in S
    BY <1>1
  <2> QED
    BY <1>1, <2>1, SubSeqProperties
<1> HIDE DEF before, behind
<1>4. RemoveAt(s, i) = before \o behind
  BY DEF RemoveAt, before, behind
<1>5. /\ before \o behind \in Seq(S)
      /\ Len(before \o behind) = Len(s) - 1
      /\ \A j \in 1..(Len(s) - 1) :
            (before \o behind)[j] = IF j <= i - 1 THEN before[j] ELSE behind[j - (i - 1)]
  <2>1. Len(before) + Len(behind) = Len(s) - 1
    BY <1>1, <1>2, <1>3
  <2>2. /\ before \o behind \in Seq(S)
        /\ Len(before \o behind) = Len(before) + Len(behind)
        /\ \A j \in 1..(Len(before) + Len(behind)) :
              (before \o behind)[j] = IF j <= Len(before) THEN before[j] ELSE behind[j - Len(before)]
    BY <1>2, <1>3, ConcatProperties
  <2> QED
    BY <1>2, <2>1, <2>2
<1>6. \A j \in 1..(Len(s) - 1) : (before \o behind)[j] = IF j < i THEN s[j] ELSE s[j + 1]
  <2> TAKE j \in 1..(Len(s) - 1)
  <2>1. CASE j < i
    BY <1>1, <1>2, <1>5, <2>1
  <2>2. CASE ~(j < i)
    <3>1. j - (i - 1) \in 1..(Len(s) - i) /\ i + (j - (i - 1)) = j + 1 /\ ~(j <= i - 1)
      BY <1>1, <2>2
    <3> QED
      BY <1>1, <1>3, <1>5, <2>2, <3>1
  <2> QED
    BY <2>1, <2>2
<1>7. DOMAIN (before \o behind) = 1..(Len(s) - 1)
  BY <1>5
<1> QED
  BY <1>4, <1>5, <1>6, <1>7

\* Whoever reads them (get_status, node_api.rs; status, registry_api.rs): the answer that
\* was served is a status, and any other an error, or misread.
LEMMA Outcomes ==
    ASSUME NEW kind
    PROVE  /\ Outcome(kind, Served) = "status"
           /\ \A reply \in Refusals \cup Damaged :
                 reply # Served /\ (Outcome(kind, reply) = "error" \/ Misread(kind, reply))
<1>1. Outcome(kind, Served) = "status"
  BY DEF Outcome, RegistryOutcome, NodeOutcome, Decoded, Trailer, Served, Reply, Contains
<1>2. ASSUME NEW reply \in Damaged
      PROVE  reply # Served /\ Outcome(kind, reply) = "error"
  <2>1. Contains(reply.body, "cut")
    BY <1>2 DEF Damaged, Reply, Contains
  <2>2. ~Contains(Served.body, "cut")
    BY DEF Served, Reply, Contains
  <2> QED
    BY <2>1, <2>2 DEF Outcome, RegistryOutcome, NodeOutcome, Decoded
<1>3. ASSUME NEW reply \in Refusals
      PROVE  reply # Served /\ (Outcome(kind, reply) = "error" \/ Misread(kind, reply))
  <2>1. CASE reply = Reply(TRUE, <<"refused">>, "none")
    <3>1. Trailer(reply.body) = "refused"
      BY <2>1 DEF Reply, Trailer, Contains
    <3>2. Trailer(Served.body) = "done"
      BY DEF Served, Reply, Trailer, Contains
    <3> QED
      BY <3>1, <3>2 DEF Outcome, RegistryOutcome, NodeOutcome, Decoded
  <2>2. CASE reply = Reply(TRUE, <<>>, "refused")
    <3>1. reply.header = "refused" /\ Trailer(reply.body) = "none" /\ Served.header = "none"
      BY <2>2 DEF Served, Reply, Trailer, Contains
    <3> QED
      BY <2>2, <3>1 DEF Outcome, RegistryOutcome, Decoded, Misread
  <2>3. CASE reply = Reply(FALSE, <<>>, "none")
    <3>1. ~reply.ok /\ Served.ok
      BY <2>3 DEF Reply, Served
    <3> QED
      BY <3>1 DEF Outcome, RegistryOutcome, NodeOutcome, Decoded
  <2> QED
    BY <2>1, <2>2, <2>3 DEF Refusals
<1> QED
  BY <1>1, <1>2, <1>3

\* The three things that may become of a question, and what each says of its answer.
LEMMA Becomings ==
    ASSUME NEW kind, NEW reply \in {Served} \cup Refusals \cup Damaged
    PROVE  /\ Became(kind, reply) \in {"answered", "misread", "refused"}
           /\ Became(kind, reply) = "answered" => Outcome(kind, reply) = "status"
           /\ Became(kind, reply) = "refused" => Outcome(kind, reply) = "error"
  BY Outcomes DEF Became

\* Nothing is open at first.
LEMMA InitViews == ViewsInit => ViewsInv
<1> SUFFICES ASSUME ViewsInit PROVE ViewsInv
  OBVIOUS
<1>1. ViewsTypeOK
  <2>1. NoView \in Views
    BY StatusAssumption DEF NoView, View, Views, Kinds
  <2>2. <<>> \in Seq(Flight)
    OBVIOUS
  <2> QED
    BY <2>1, <2>2, StatusAssumption DEF ViewsInit, ViewsTypeOK, Newest
<1>2. IntervalIsCurrent /\ PendingIsLast /\ AloneUnlessOverlapped /\ OneByOne /\ TellsTheLatest
  BY DEF ViewsInit, IntervalIsCurrent, PendingIsLast, AloneUnlessOverlapped, OneByOne, TellsTheLatest,
         Newest, NoView, View
<1> QED
  BY <1>1, <1>2 DEF ViewsInv

(***************************************************************************)
(* Asking.                                                                 *)
(***************************************************************************)
\* A question asked on the status tab, or when nothing else is in flight, keeps the
\* invariant of questions and answers.
LEMMA AskedKeeps ==
    ASSUME ViewsInv, NEW range \in Span, NEW to \in Address, Fetch(range, to),
           view' \in Views, view'.kind # "none",
           view'.kind # "page" => flights = <<>>,
           UNCHANGED <<address, hydrated>>, moved' \in BOOLEAN,
           interval' = Unset \/ interval' \in [kind : {"every"}, range : Span, to : Address],
           IntervalIsCurrent'
    PROVE  ViewsInv'
<1> USE DEF ViewsInv
<1> DEFINE n == Len(flights)
<1>2. /\ flights' = Append(flights, Question(range, to))
      /\ Question(range, to) \in Flight /\ Asked(Question(range, to))
      /\ loading' = TRUE /\ error' = FALSE /\ newest' = Newest(range, "pending")
      /\ overlapped' = (InFlight # {})
  BY DEF Fetch, ErrorWhileAsking, Question, Flight, Asked
<1>3. /\ flights' \in Seq(Flight) /\ n \in Nat /\ Len(flights') = n + 1
      /\ flights'[n + 1] = Question(range, to)
      /\ \A i \in 1..n : flights'[i] = flights[i]
  BY <1>2 DEF ViewsTypeOK
<1>4. ViewsTypeOK'
  BY <1>2, <1>3 DEF ViewsTypeOK, Newest
<1>5. PendingIsLast'
  BY <1>2, <1>3 DEF PendingIsLast, Asked, Question, Newest
<1>6. AloneUnlessOverlapped'
  <2> SUFFICES ASSUME InFlight = {}, NEW i \in DOMAIN flights', Asked(flights'[i])
               PROVE  i = n + 1
    BY <1>2, <1>3 DEF AloneUnlessOverlapped, Newest, Asked
  <2>1. i \in 1..(n + 1)
    BY <1>3
  <2>2. ASSUME i # n + 1
        PROVE  FALSE
    <3>1. i \in 1..n /\ flights'[i] = flights[i]
      BY <1>3, <2>1, <2>2
    <3>2. i \in DOMAIN flights /\ Asked(flights[i])
      BY <3>1 DEF ViewsTypeOK
    <3> QED
      BY <3>2 DEF InFlight
  <2> QED
    BY <2>2
<1>7. OneByOne'
  BY <1>2, <1>3 DEF OneByOne, Asked
<1>8. TellsTheLatest'
  <2>1. newest'.became = "pending"
    BY <1>2 DEF Newest
  <2>2. flights = <<>> => InFlight = {}
    BY DEF InFlight
  <2> QED
    BY <1>2, <2>1, <2>2 DEF TellsTheLatest
<1> QED
  BY <1>4, <1>5, <1>6, <1>7, <1>8

\* The interval of a render asks for the render's span, and the node where it is then.
LEMMA PollsType ==
    ASSUME ViewsTypeOK, NEW v \in Views
    PROVE  /\ Polls(v) = Unset \/ Polls(v) \in [kind : {"every"}, range : Span, to : Address]
           /\ Polls(v) # Unset => v.on /\ Polls(v).range = v.range /\ Polls(v).to = address
  BY DEF Polls, ViewsTypeOK, Views, Unset

\* The tab's effect asks at once, and sets the interval anew.
LEMMA WatchKeeps ==
    ASSUME ViewsInv, NEW v \in Views, v.kind = "page", Watch(v)
    PROVE  ViewsInv'
<1>1. IntervalIsCurrent'
  BY PollsType DEF Watch, IntervalIsCurrent, OnTab, ViewsInv
<1>2. v.range \in Span /\ address \in Address
  BY DEF Views, ViewsInv, ViewsTypeOK
<1>3. /\ Fetch(v.range, address) /\ view' = v /\ moved' = FALSE /\ interval' = Polls(v)
      /\ UNCHANGED <<address, hydrated>>
  BY DEF Watch
<1>4. interval' = Unset \/ interval' \in [kind : {"every"}, range : Span, to : Address]
  BY <1>3, PollsType DEF ViewsInv
<1>5. view' \in Views /\ view'.kind = "page" /\ moved' \in BOOLEAN
  BY <1>3
<1> QED
  BY <1>1, <1>2, <1>3, <1>4, <1>5, AskedKeeps

\* Opening a view, the tab's handlers and the interval.
LEMMA OpenKeeps == ViewsInv /\ Open => ViewsInv'
<1> SUFFICES ASSUME ViewsInv, Open PROVE ViewsInv'
  OBVIOUS
<1>0. view = NoView /\ flights = <<>> /\ interval = Unset
  <2>1. view = NoView
    BY DEF Open, OpenPage, OpenCard, OpenPopup, Opens
  <2>2. view.kind = "none"
    BY <2>1 DEF NoView, View
  <2> QED
    BY <2>1, <2>2 DEF ViewsInv, OneByOne, IntervalIsCurrent, OnTab
<1>1. CASE OpenPage
  <2>1. [View("page") EXCEPT !.on = TRUE] \in Views
    BY StatusAssumption DEF View, Views, Kinds
  <2>2. [View("page") EXCEPT !.on = TRUE].kind = "page"
    BY DEF View
  <2> QED
    BY <1>1, <2>1, <2>2, WatchKeeps DEF OpenPage
<1>2. CASE OpenCard
  <2>1. view'.kind = "card" /\ view' \in Views
    BY <1>2, StatusAssumption DEF OpenCard, View, Views, Kinds
  <2>2. view.kind = "none"
    BY <1>0 DEF NoView, View
  <2>3. /\ UNCHANGED <<address, hydrated, faults, interval, flights>>
        /\ UNCHANGED <<shown, error, loading, newest, overlapped, moved>>
    BY <1>2 DEF OpenCard, asked
  <2> QED
    BY <1>0, <2>1, <2>2, <2>3
    DEF ViewsInv, ViewsTypeOK, IntervalIsCurrent, PendingIsLast, AloneUnlessOverlapped, OneByOne,
        TellsTheLatest, OnTab, Asked
<1>3. CASE OpenPopup
  <2>1. view'.kind = "popup" /\ view' \in Views
    BY <1>3, StatusAssumption DEF OpenPopup, View, Views, Kinds
  <2>2. IntervalIsCurrent'
    BY <1>0, <1>3 DEF OpenPopup, IntervalIsCurrent
  <2>3. /\ Fetch(DefaultSpan, address) /\ DefaultSpan \in Span
        /\ UNCHANGED <<address, hydrated, interval, moved>>
    BY <1>3, StatusAssumption DEF OpenPopup
  <2> QED
    BY <1>0, <2>1, <2>2, <2>3, AskedKeeps DEF ViewsInv, ViewsTypeOK
<1> QED
  BY <1>1, <1>2, <1>3 DEF Open

\* What the tab and the page do: switch, choose a span, turn polling on or off, close.
LEMMA TabKeeps == ViewsInv /\ Tab => ViewsInv'
<1> SUFFICES ASSUME ViewsInv, Tab PROVE ViewsInv'
  OBVIOUS
<1>0. view \in Views
  BY DEF ViewsInv, ViewsTypeOK
<1>1. CASE ShowTab
  <2>1. [view EXCEPT !.on = TRUE] \in Views /\ [view EXCEPT !.on = TRUE].kind = "page"
    BY <1>0, <1>1 DEF ShowTab, Views
  <2> QED
    BY <1>1, <2>1, WatchKeeps DEF ShowTab
<1>2. CASE HideTab
  <2>1. view' \in Views /\ view'.kind = "page" /\ ~view'.on /\ view.kind = "page"
    BY <1>0, <1>2 DEF HideTab, OnTab, Views
  <2>2. interval' = Unset
    BY <1>2, <2>1 DEF HideTab, Polls
  <2>3. UNCHANGED <<address, hydrated, faults, flights, shown, error, loading, newest, overlapped, moved>>
    BY <1>2 DEF HideTab
  <2> QED
    BY <2>1, <2>2, <2>3
    DEF ViewsInv, ViewsTypeOK, IntervalIsCurrent, PendingIsLast, AloneUnlessOverlapped, OneByOne,
        TellsTheLatest, Asked
<1>3. CASE SetSpan
  <2>1. PICK range \in Span : OnTab /\ Watch([view EXCEPT !.range = range])
    BY <1>3 DEF SetSpan
  <2>2. [view EXCEPT !.range = range] \in Views /\ [view EXCEPT !.range = range].kind = "page"
    BY <1>0, <2>1 DEF OnTab, Views
  <2> QED
    BY <2>1, <2>2, WatchKeeps
<1>4. CASE SetAuto
  <2>1. [view EXCEPT !.auto = ~@] \in Views /\ [view EXCEPT !.auto = ~@].kind = "page"
    BY <1>0, <1>4 DEF SetAuto, OnTab, Views
  <2> QED
    BY <1>4, <2>1, WatchKeeps DEF SetAuto
<1>5. CASE SetRate
  BY <1>0, <1>5, WatchKeeps DEF SetRate, OnTab
<1> QED
  BY <1>1, <1>2, <1>3, <1>4, <1>5 DEF Tab

\* The interval's question is of the tab it was set on.
LEMMA TickKeeps == ViewsInv /\ Tick => ViewsInv'
<1> SUFFICES ASSUME ViewsInv, Tick PROVE ViewsInv'
  OBVIOUS
<1>1. /\ interval # Unset /\ interval' = interval /\ Fetch(interval.range, interval.to)
      /\ UNCHANGED <<view, address, hydrated, moved>>
  BY DEF Tick, AfterTick
<1>2. view.kind = "page" /\ view \in Views /\ interval.range \in Span
  BY <1>1 DEF ViewsInv, IntervalIsCurrent, OnTab, ViewsTypeOK
<1>3. IntervalIsCurrent'
  BY <1>1 DEF ViewsInv, IntervalIsCurrent, OnTab
<1> QED
  BY <1>1, <1>2, <1>3, AskedKeeps DEF ViewsInv, ViewsTypeOK

\* The buttons: the tab's at any time, the others when no answer is awaited.
LEMMA RefreshKeeps == ViewsInv /\ Refresh => ViewsInv'
<1> SUFFICES ASSUME ViewsInv, Refresh PROVE ViewsInv'
  OBVIOUS
<1>1. /\ Fetch(view.range, address) /\ ~loading /\ view.kind \in {"page", "card"}
      /\ UNCHANGED <<view, address, hydrated, interval, moved>>
  BY DEF Refresh, OnTab
<1>2. view \in Views /\ view.range \in Span
  BY DEF ViewsInv, ViewsTypeOK, Views
<1>3. IntervalIsCurrent'
  BY <1>1 DEF ViewsInv, IntervalIsCurrent, OnTab
<1>4. view.kind # "page" => flights = <<>>
  BY <1>1 DEF ViewsInv, OneByOne
<1> QED
  BY <1>1, <1>2, <1>3, <1>4, AskedKeeps DEF ViewsInv, ViewsTypeOK

(***************************************************************************)
(* Answers.                                                                *)
(***************************************************************************)
\* What an answer does to the questions: on the tab it is marked, elsewhere it was the only one.
LEMMA AnsweredFlights ==
    ASSUME ViewsInv, NEW i \in DOMAIN flights, Asked(flights[i])
    PROVE  /\ After(i) \in Seq(Flight)
           /\ view.kind # "page" => i = Len(flights) /\ After(i) = <<>>
           /\ view.kind = "page" => /\ Len(After(i)) = Len(flights)
                                    /\ ~Asked(After(i)[i])
                                    /\ \A j \in DOMAIN flights \ {i} : After(i)[j] = flights[j]
<1>0. flights \in Seq(Flight) /\ i \in 1..Len(flights)
  BY DEF ViewsInv, ViewsTypeOK
<1>1. CASE view.kind = "page"
  <2>1. [flights[i] EXCEPT !.phase = "answered"] \in Flight
    <3>1. flights[i] \in Flight
      BY <1>0
    <3> QED
      BY <3>1 DEF Flight
  <2>2. After(i) = [flights EXCEPT ![i] = [flights[i] EXCEPT !.phase = "answered"]]
    BY <1>1 DEF After
  <2>3. ~Asked([flights[i] EXCEPT !.phase = "answered"])
    BY <1>0 DEF Asked, Flight
  <2> QED
    BY <1>0, <1>1, <2>1, <2>2, <2>3
<1>2. CASE view.kind # "page"
  <2>1. Len(flights) = 1 /\ i = 1
    <3> DEFINE n == Len(flights)
    <3>1. n <= 1 /\ n \in Nat /\ i \in 1..n
      BY <1>0, <1>2 DEF ViewsInv, OneByOne
    <3> HIDE DEF n
    <3>2. n = 1 /\ i = 1
      BY <3>1
    <3> QED
      BY <3>2 DEF n
  <2>2. After(i) = RemoveAt(flights, i)
    BY <1>2 DEF After
  <2>3. After(i) \in Seq(Flight) /\ Len(After(i)) = 0
    BY <1>0, <2>1, <2>2, RemovedAt
  <2> QED
    BY <1>2, <2>1, <2>3
<1> QED
  BY <1>1, <1>2

\* An answer counts if its question was the last, and otherwise there were two in flight.
LEMMA AnswerKeeps ==
    ASSUME ViewsInv, NEW i \in DOMAIN flights, NEW reply \in {Served} \cup Refusals \cup Damaged,
           Answer(i, reply)
    PROVE  ViewsInv'
<1> USE DEF ViewsInv
<1> DEFINE n == Len(flights)
           became == Became(view.kind, reply)
<1>1. /\ Asked(flights[i]) /\ flights' = After(i)
      /\ loading' = IF view.kind = "page" THEN loading ELSE FALSE
      /\ UNCHANGED <<view, address, hydrated, interval, overlapped, moved>>
  BY DEF Answer
<1>2. /\ flights \in Seq(Flight) /\ n \in Nat /\ i \in 1..n
      /\ flights[i] \in Flight
  BY DEF ViewsTypeOK
<1>3. /\ flights' \in Seq(Flight)
      /\ view.kind # "page" => i = n /\ flights' = <<>>
      /\ view.kind = "page" => /\ Len(flights') = n
                               /\ ~Asked(flights'[i])
                               /\ \A j \in 1..n : j # i => flights'[j] = flights[j]
  BY <1>1, <1>2, AnsweredFlights
<1>4. /\ became \in {"answered", "misread", "refused"}
      /\ became = "answered" => Outcome(view.kind, reply) = "status"
      /\ became = "refused" => Outcome(view.kind, reply) = "error"
  BY Becomings
<1>5. newest' = IF i = n /\ newest.became = "pending" THEN Newest(newest.range, became) ELSE newest
  BY DEF Answer
<1>6. /\ Outcome(view.kind, reply) = "error" => error' = TRUE /\ shown' = shown
      /\ Outcome(view.kind, reply) # "error" =>
            shown' = [kind |-> Outcome(view.kind, reply), range |-> flights[i].range] /\ error' = error
  BY DEF Answer
<1> HIDE DEF became
<1>7. newest' \in [range : Span, became : {"none", "pending", "answered", "misread", "refused"}]
  BY <1>4, <1>5 DEF ViewsTypeOK, Newest
<1>8. ViewsTypeOK'
  <2>1. error' \in BOOLEAN /\ loading' \in BOOLEAN
    BY <1>1, <1>6 DEF ViewsTypeOK
  <2> QED
    BY <1>1, <1>3, <1>7, <2>1 DEF ViewsTypeOK
<1>9. IntervalIsCurrent'
  BY <1>1 DEF IntervalIsCurrent, OnTab
<1>10. newest'.became = "pending" => i # n /\ newest.became = "pending" /\ newest' = newest
  BY <1>4, <1>5 DEF Newest
<1>11. PendingIsLast'
  BY <1>2, <1>3, <1>10 DEF PendingIsLast
<1>12. ~overlapped => i = n /\ newest.became = "pending" /\ ~error
  BY <1>1, <1>2 DEF AloneUnlessOverlapped
<1>13. AloneUnlessOverlapped'
  <2> SUFFICES ASSUME ~overlapped
               PROVE  /\ \A j \in DOMAIN flights' : ~Asked(flights'[j])
                      /\ newest'.became # "pending"
    BY <1>1 DEF AloneUnlessOverlapped
  <2>1. newest'.became # "pending"
    BY <1>10, <1>12
  <2>2. ASSUME NEW j \in DOMAIN flights', Asked(flights'[j])
        PROVE  FALSE
    <3>1. view.kind = "page" /\ j \in 1..n /\ j # i
      BY <1>3, <2>2
    <3>2. Asked(flights[j]) /\ j \in DOMAIN flights
      BY <1>2, <1>3, <2>2, <3>1
    <3> QED
      BY <1>12, <3>1, <3>2 DEF AloneUnlessOverlapped
  <2> QED
    BY <2>1, <2>2
<1>14. OneByOne'
  BY <1>1, <1>2, <1>3 DEF OneByOne
<1>15. TellsTheLatest'
  <2>1. view.kind # "page" => ~overlapped
    BY DEF TellsTheLatest
  <2>2. ASSUME ~overlapped, newest'.became \in {"answered", "refused"}
        PROVE  /\ error' = (newest'.became = "refused")
               /\ newest'.became = "answered" => shown' = [kind |-> "status", range |-> newest'.range]
    <3>1. newest'.became = became /\ newest'.range = newest.range
      BY <1>5, <1>12, <2>2 DEF Newest
    <3>2. flights[i].range = newest.range
      BY <1>12, <2>2 DEF PendingIsLast
    <3>3. ~error
      BY <1>12, <2>2
    <3>4. CASE became = "answered"
      BY <1>4, <1>6, <3>1, <3>2, <3>3, <3>4 DEF ViewsTypeOK
    <3>5. CASE became = "refused"
      BY <1>4, <1>6, <3>1, <3>5
    <3> QED
      BY <2>2, <3>1, <3>4, <3>5
  <2> QED
    BY <1>1, <2>1, <2>2 DEF TellsTheLatest
<1> QED
  BY <1>8, <1>9, <1>11, <1>13, <1>14, <1>15

\* A question's task ends and leaves the answer as it was.
LEMMA SettleKeeps ==
    ASSUME ViewsInv, NEW i \in DOMAIN flights, Settle(i)
    PROVE  ViewsInv'
<1> USE DEF ViewsInv
<1> DEFINE n == Len(flights)
<1>1. /\ ~Asked(flights[i]) /\ flights' = RemoveAt(flights, i) /\ loading' = FALSE
      /\ UNCHANGED <<view, address, hydrated, interval, shown, error, newest, overlapped, moved>>
  BY DEF Settle
<1>2. flights \in Seq(Flight) /\ n \in Nat /\ i \in 1..n
  BY DEF ViewsTypeOK
<1>3. /\ flights' \in Seq(Flight) /\ Len(flights') = n - 1
      /\ \A j \in 1..(n - 1) : flights'[j] = IF j < i THEN flights[j] ELSE flights[j + 1]
  BY <1>1, <1>2, RemovedAt
<1>4. view.kind = "page"
  BY <1>1 DEF OneByOne
<1>5. ViewsTypeOK' /\ IntervalIsCurrent' /\ OneByOne' /\ TellsTheLatest'
  BY <1>1, <1>3, <1>4 DEF ViewsTypeOK, IntervalIsCurrent, OnTab, OneByOne, TellsTheLatest
<1>6. newest.became = "pending" => i < n /\ n - 1 \in 1..(n - 1) /\ flights'[n - 1] = flights[n]
  BY <1>1, <1>2, <1>3 DEF PendingIsLast
<1>7. PendingIsLast'
  BY <1>1, <1>3, <1>6 DEF PendingIsLast
<1>8. AloneUnlessOverlapped'
  <2> SUFFICES ASSUME ~overlapped, NEW j \in DOMAIN flights', Asked(flights'[j])
               PROVE  j = n - 1 /\ newest.became = "pending"
    BY <1>1, <1>3 DEF AloneUnlessOverlapped
  <2>1. j \in 1..(n - 1)
    BY <1>3
  <2>2. PICK k \in 1..n : flights'[j] = flights[k] /\ (k = j \/ k = j + 1) /\ (k = j => j < i)
    BY <1>2, <1>3, <2>1
  <2>3. k = n /\ newest.became = "pending"
    BY <1>2, <2>2 DEF AloneUnlessOverlapped
  <2> QED
    BY <1>2, <2>1, <2>2, <2>3
<1> QED
  BY <1>5, <1>7, <1>8

\* Every step of a view keeps its invariant.
LEMMA StepViews == ViewsInv /\ [ViewsNext]_viewVars => ViewsInv'
<1> SUFFICES ASSUME ViewsInv, [ViewsNext]_viewVars
             PROVE  ViewsInv'
  OBVIOUS
<1>1. CASE Open
  BY <1>1, OpenKeeps
<1>2. CASE Leave
  <2>1. NoView \in Views /\ NoView.kind = "none"
    BY StatusAssumption DEF NoView, View, Views, Kinds
  <2>2. Newest(DefaultSpan, "none") \in
           [range : Span, became : {"none", "pending", "answered", "misread", "refused"}]
    BY StatusAssumption DEF Newest
  <2>3. Newest(DefaultSpan, "none").became = "none"
    BY DEF Newest
  <2>4. /\ view' = NoView /\ interval' = Unset /\ flights' = <<>> /\ error' = FALSE /\ loading' = FALSE
        /\ newest' = Newest(DefaultSpan, "none") /\ overlapped' = FALSE /\ moved' = FALSE
        /\ UNCHANGED <<address, hydrated>>
    BY <1>2 DEF Leave
  <2>5. ViewsTypeOK'
    <3>1. <<>> \in Seq(Flight)
      OBVIOUS
    <3> QED
      BY <2>1, <2>2, <2>4, <3>1 DEF ViewsInv, ViewsTypeOK
  <2>6. IntervalIsCurrent' /\ PendingIsLast' /\ AloneUnlessOverlapped' /\ OneByOne' /\ TellsTheLatest'
    BY <2>1, <2>3, <2>4
    DEF IntervalIsCurrent, PendingIsLast, AloneUnlessOverlapped, OneByOne, TellsTheLatest
  <2> QED
    BY <2>5, <2>6 DEF ViewsInv
<1>3. CASE Tab
  BY <1>3, TabKeeps
<1>4. CASE Tick
  BY <1>4, TickKeeps
<1>5. CASE Refresh
  BY <1>5, RefreshKeeps
<1>6. CASE Hydrate
  <2>1. /\ hydrated' = TRUE /\ address' \in Address
        /\ moved' = (interval # Unset /\ address' # interval.to)
        /\ UNCHANGED <<view, interval, flights, shown, error, loading, newest, overlapped>>
    BY <1>6 DEF Hydrate
  <2> QED
    BY <2>1
    DEF ViewsInv, ViewsTypeOK, IntervalIsCurrent, OnTab, PendingIsLast, AloneUnlessOverlapped, OneByOne,
        TellsTheLatest
<1>7. ASSUME NEW i \in DOMAIN flights, Ends(i)
      PROVE  ViewsInv'
  <2>1. CASE Answered(i)
    BY <2>1, AnswerKeeps DEF Answered
  <2>2. CASE Fails(i)
    BY <2>2, AnswerKeeps DEF Fails
  <2>3. CASE Settle(i)
    BY <2>3, SettleKeeps
  <2> QED
    BY <1>7, <2>1, <2>2, <2>3 DEF Ends
<1>8. CASE UNCHANGED viewVars
  <2>1. /\ UNCHANGED <<view, address, hydrated, faults, interval, flights>>
        /\ UNCHANGED <<shown, error, loading, newest, overlapped, moved>>
    BY <1>8 DEF viewVars, asked
  <2> QED
    BY <2>1
    DEF ViewsInv, ViewsTypeOK, IntervalIsCurrent, OnTab, PendingIsLast, AloneUnlessOverlapped, OneByOne,
        TellsTheLatest, Asked
<1> QED
  BY <1>1, <1>2, <1>3, <1>4, <1>5, <1>6, <1>7, <1>8 DEF ViewsNext

\* So it holds throughout.
LEMMA ViewsInvariance == ViewsSpec => []ViewsInv
  BY InitViews, StepViews, PTL DEF ViewsSpec

\* What a view tells is the answer to the question asked last, unless that one was asked while
\* another was in flight, for any number of questions and faults.
THEOREM TheLatestIsTold == ViewsSpec => []TellsTheLatest
  BY ViewsInvariance, PTL DEF ViewsInv

\* Who asks, and what for: the effect of the tab (status.rs), its interval, its button, the
\* card's button and the popup.
LEMMA AskStep ==
    ASSUME ViewsInv, [ViewsNext]_viewVars, Len(flights') > Len(flights)
    PROVE  /\ Last(flights').range = view'.range
           /\ moved \/ Last(flights').to = address'
<1>0. flights \in Seq(Flight) /\ view \in Views
  BY DEF ViewsInv, ViewsTypeOK
<1>1. ASSUME NEW range \in Span, NEW to \in Address, Fetch(range, to)
      PROVE  Last(flights').range = range /\ Last(flights').to = to
  <2>1. Question(range, to) \in Flight /\ flights' = Append(flights, Question(range, to))
    BY <1>1 DEF Fetch, Question, Flight
  <2>2. Last(flights') = Question(range, to)
    BY <1>0, <2>1 DEF Last
  <2> QED
    BY <2>2 DEF Question
<1>2. ASSUME NEW v \in Views, Watch(v)
      PROVE  Last(flights').range = view'.range /\ Last(flights').to = address'
  BY <1>1, <1>2 DEF Watch, Views, ViewsInv, ViewsTypeOK
<1>3. CASE Open
  <2>1. CASE OpenPage
    <3>1. [View("page") EXCEPT !.on = TRUE] \in Views
      BY StatusAssumption DEF View, Views, Kinds
    <3> QED
      BY <1>2, <2>1, <3>1 DEF OpenPage
  <2>2. CASE OpenCard
    BY <1>0, <2>2 DEF OpenCard, asked
  <2>3. CASE OpenPopup
    <3>1. view'.range = DefaultSpan /\ address' = address /\ Fetch(DefaultSpan, address)
      BY <2>3 DEF OpenPopup, View
    <3> QED
      BY <1>1, <3>1, StatusAssumption DEF ViewsInv, ViewsTypeOK
  <2> QED
    BY <1>3, <2>1, <2>2, <2>3 DEF Open
<1>4. CASE Tab
  <2>1. CASE ShowTab
    BY <1>0, <1>2, <2>1 DEF ShowTab, Views
  <2>2. CASE HideTab
    BY <1>0, <2>2 DEF HideTab
  <2>3. CASE SetSpan
    BY <1>0, <1>2, <2>3 DEF SetSpan, Views
  <2>4. CASE SetAuto
    BY <1>0, <1>2, <2>4 DEF SetAuto, Views
  <2>5. CASE SetRate
    BY <1>0, <1>2, <2>5 DEF SetRate
  <2> QED
    BY <1>4, <2>1, <2>2, <2>3, <2>4, <2>5 DEF Tab
<1>5. CASE Tick
  <2>1. /\ interval # Unset /\ Fetch(interval.range, interval.to)
        /\ view' = view /\ address' = address
    BY <1>5 DEF Tick
  <2>2. interval.range \in Span /\ interval.to \in Address
    BY <2>1 DEF ViewsInv, ViewsTypeOK
  <2> QED
    BY <1>1, <2>1, <2>2 DEF ViewsInv, IntervalIsCurrent
<1>6. CASE Refresh
  <2>1. Fetch(view.range, address) /\ view' = view /\ address' = address /\ view.range \in Span
    BY <1>0, <1>6 DEF Refresh, Views
  <2> QED
    BY <1>1, <2>1 DEF ViewsInv, ViewsTypeOK
<1>7. CASE Leave \/ Hydrate \/ UNCHANGED viewVars
  BY <1>0, <1>7 DEF Leave, Hydrate, viewVars, asked
<1>8. ASSUME NEW i \in DOMAIN flights, Ends(i)
      PROVE  FALSE
  <2>1. ASSUME Settle(i)
        PROVE  FALSE
    BY <1>0, <2>1, RemovedAt DEF Settle
  <2>2. ASSUME NEW reply, Answer(i, reply)
        PROVE  FALSE
    <3>1. Asked(flights[i]) /\ flights' = After(i)
      BY <2>2 DEF Answer
    <3> QED
      BY <1>0, <3>1, AnsweredFlights
  <2> QED
    BY <1>8, <2>1, <2>2 DEF Ends, Answered, Fails
<1> QED
  BY <1>3, <1>4, <1>5, <1>6, <1>7, <1>8 DEF ViewsNext

\* Whatever asks, asks for the span that is set by then, and the node where it is by then.
THEOREM WhatIsSetIsAsked == ViewsSpec => AsksWhatIsSet
<1>1. ViewsInv /\ [ViewsNext]_viewVars =>
        [Len(flights') > Len(flights) =>
           /\ Last(flights').range = view'.range
           /\ moved \/ Last(flights').to = address']_viewVars
  BY AskStep
<1> QED
  BY <1>1, ViewsInvariance, PTL DEF ViewsSpec, AsksWhatIsSet
=============================================================================
