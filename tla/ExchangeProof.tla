--------------------------- MODULE ExchangeProof ---------------------------
(***************************************************************************)
(* Proofs about the import and export of servers, and about what the       *)
(* engine is told to do for every profile the app holds: for any number of *)
(* changes made in the form and to the text between export and import.     *)
(*                                                                         *)
(* What the engine does with a profile depends on Validate only: those     *)
(* lemmas are about any name, address, port or credential, not just about  *)
(* the values of the form.                                                 *)
(*                                                                         *)
(* A link is followed through the writer, the parser and the engine's      *)
(* options, field by field: what each parser reads (the lemmas ...Read),   *)
(* what each writer writes (LinkIs) and which fields a dial depends on     *)
(* (AlikeDial, DialsWith).                                                 *)
(***************************************************************************)
EXTENDS Exchange, FiniteSetTheorems, TLAPS

\* The router finds the first rule.
LEMMA FirstIs ==
  ASSUME NEW S \in SUBSET Nat, NEW k \in S, \A j \in S : k <= j
  PROVE  First(S) = k
<1>1. First(S) \in S /\ \A j \in S : First(S) <= j
  BY DEF First
<1>2. First(S) <= k /\ k <= First(S) /\ First(S) \in Nat /\ k \in Nat
  BY <1>1
<1> QED
  BY <1>2

\* The rules of a configuration, by mode.
LEMMA RulesAre ==
  ASSUME NEW p, NEW mode \in Modes, NEW m
  PROVE  LET c == Config(p, mode, m) IN
         /\ mode # "vpn" => DOMAIN c.rules = {}
         /\ mode = "vpn" /\ IPv6ModeFor(m) # "disable_ipv6" =>
               DOMAIN c.rules = {1} /\ c.rules[1] = DnsHijackRule
         /\ mode = "vpn" /\ IPv6ModeFor(m) = "disable_ipv6" =>
               DOMAIN c.rules = {1, 2} /\ c.rules[1] = DnsHijackRule /\ c.rules[2] = BlockIPv6Rule
<1>1. Config(p, mode, m).rules = Rules(mode, IPv6ModeFor(m))
  BY DEF Config
<1>2. CASE mode # "vpn"
  BY <1>1, <1>2 DEF Rules
<1>3. CASE mode = "vpn" /\ IPv6ModeFor(m) # "disable_ipv6"
  <2>1. Rules(mode, IPv6ModeFor(m)) = <<DnsHijackRule>>
    BY <1>3 DEF Rules
  <2> QED
    BY <1>1, <1>3, <2>1
<1>4. CASE mode = "vpn" /\ IPv6ModeFor(m) = "disable_ipv6"
  <2>1. Rules(mode, IPv6ModeFor(m)) = <<DnsHijackRule, BlockIPv6Rule>>
    BY <1>4 DEF Rules
  <2> QED
    BY <1>1, <1>4, <2>1
<1> QED
  BY <1>2, <1>3, <1>4

\* What the router decides: IPv6 is dropped where it is off, and the rest goes to
\* the proxy, DNS included.
LEMMA VerdictIs ==
  ASSUME NEW p, NEW mode \in Modes, NEW m, NEW pk \in Packets
  PROVE  LET c == Config(p, mode, m)
             v == Verdict(c, pk)
         IN  \/ /\ mode = "vpn" /\ IPv6ModeFor(m) = "disable_ipv6" /\ pk.v6
                /\ v.action = "route" /\ v.outbound = "block"
             \/ /\ mode = "vpn" => (IPv6ModeFor(m) = "disable_ipv6" => ~pk.v6)
                /\ v.action = "route" /\ v.outbound = "proxy"
<1> DEFINE c    == Config(p, mode, m)
           v    == Verdict(c, pk)
           hits == {i \in DOMAIN c.rules : Matches(c, i, pk)}
<1>1. /\ hits = {} => v.action = "route" /\ v.outbound = c.final
      /\ hits # {} => /\ v.action = c.rules[First(hits)].action
                      /\ v.outbound = c.rules[First(hits)].outbound
  BY DEF Verdict
<1>2. c.final = "proxy"
  BY DEF Config
<1>r. /\ mode # "vpn" => DOMAIN c.rules = {}
      /\ mode = "vpn" /\ IPv6ModeFor(m) # "disable_ipv6" =>
            DOMAIN c.rules = {1} /\ c.rules[1] = DnsHijackRule
      /\ mode = "vpn" /\ IPv6ModeFor(m) = "disable_ipv6" =>
            DOMAIN c.rules = {1, 2} /\ c.rules[1] = DnsHijackRule /\ c.rules[2] = BlockIPv6Rule
  BY RulesAre
<1> HIDE DEF c, v
<1>3. /\ c.rules[1] = DnsHijackRule => ~Matches(c, 1, pk)
      /\ c.rules[2] = BlockIPv6Rule => (Matches(c, 2, pk) <=> pk.v6)
      /\ BlockIPv6Rule.action = "route" /\ BlockIPv6Rule.outbound = "block"
  BY DEF Matches, DnsHijackRule, BlockIPv6Rule, Packets
<1>4. CASE mode # "vpn"
  <2>1. hits = {}
    BY <1>4, <1>r
  <2> QED
    BY <1>1, <1>2, <1>4, <2>1 DEF c, v
<1>6. CASE mode = "vpn" /\ IPv6ModeFor(m) = "disable_ipv6" /\ pk.v6
  <2>1. hits = {2} /\ c.rules[2] = BlockIPv6Rule
    BY <1>3, <1>6, <1>r
  <2>2. First(hits) = 2 /\ hits # {}
    BY <2>1, FirstIs
  <2> QED
    BY <1>1, <1>3, <1>6, <2>1, <2>2 DEF c, v
<1>7. CASE mode = "vpn" /\ ~(IPv6ModeFor(m) = "disable_ipv6" /\ pk.v6)
  <2>1. hits = {}
    BY <1>3, <1>7, <1>r
  <2> QED
    BY <1>1, <1>2, <1>7, <2>1 DEF c, v
<1> QED
  BY <1>4, <1>6, <1>7
-----------------------------------------------------------------------------
(* The outbound.                                                           *)

\* What Validate has seen to.
LEMMA ValidIs ==
  ASSUME NEW p, Valid(p)
  PROVE  /\ p.protocol \in Protocols /\ p.address # Empty
         /\ p.port \in Int /\ p.port # 0 /\ p.port % 65536 = p.port
<1>1. p.protocol \in Protocols /\ p.address # Empty /\ ValidPort(p.port)
  BY DEF Valid
<1> QED
  BY <1>1 DEF ValidPort

\* A valid profile is dialled at its own server and port, with its own
\* protocol.
LEMMA DialsOwnServer ==
  ASSUME NEW p, Valid(p)
  PROVE  /\ Dials(p).tag = "proxy"
         /\ Dials(p).type = (IF p.protocol = "socks5" THEN "socks" ELSE p.protocol)
         /\ Dials(p).server = p.address /\ Dials(p).port = p.port
<1> DEFINE ob == CoreOutbound(p)
           Server == [Outbound(ob.protocol, "proxy") EXCEPT !.server = ob.address, !.port = ob.port]
<1>1. /\ ob.protocol = (IF p.protocol = "socks5" THEN "socks" ELSE p.protocol)
      /\ ob.address = p.address /\ ob.port = p.port
  <2>1. p.port % 65536 = p.port
    BY ValidIs
  <2> QED
    BY <2>1 DEF CoreOutbound, EngineProtocol
<1>2. Dials(p) = BuildOutbound(ob)
  BY DEF Dials
<1>3. p.protocol \in Protocols
  BY ValidIs
<1> HIDE DEF ob
<1>4. CASE p.protocol = "vless"
  BY <1>1, <1>2, <1>4 DEF BuildOutbound, Outbound
<1>5. CASE p.protocol = "vmess"
  <2> DEFINE sec == IF ob.security = Empty THEN "auto" ELSE ob.security
  <2>1. ob.protocol = "vmess"
    BY <1>1, <1>5
  <2>2. BuildOutbound(ob) =
          [[Outbound("vmess", "proxy") EXCEPT !.server = ob.address, !.port = ob.port]
             EXCEPT !.uuid = ob.uuid, !.packet = ob.packet, !.security = sec,
                    !.padding = ob.padding, !.authLen = ob.authLen,
                    !.tls = ob.tls, !.ws = ob.transport]
    BY <2>1 DEF BuildOutbound
  <2> HIDE DEF sec
  <2> QED
    BY <1>1, <1>2, <1>5, <2>2 DEF Outbound
<1>6. CASE p.protocol = "trojan"
  BY <1>1, <1>2, <1>6 DEF BuildOutbound, Outbound
<1>7. CASE p.protocol = "shadowsocks"
  BY <1>1, <1>2, <1>7 DEF BuildOutbound, Outbound
<1>8. CASE p.protocol = "socks5"
  <2>1. ob.protocol = "socks"
    BY <1>1, <1>8
  <2>2. BuildOutbound(ob) =
          [[Outbound("socks", "proxy") EXCEPT !.server = ob.address, !.port = ob.port]
             EXCEPT !.user = ob.user, !.pass = ob.pass]
    BY <2>1 DEF BuildOutbound
  <2> QED
    BY <1>1, <1>2, <1>8, <2>2 DEF Outbound
<1>9. CASE p.protocol = "http"
  BY <1>1, <1>2, <1>9 DEF BuildOutbound, Outbound
<1>10. CASE p.protocol = "ssh"
  BY <1>1, <1>2, <1>10 DEF BuildOutbound, Outbound
<1> QED
  BY <1>3, <1>4, <1>5, <1>6, <1>7, <1>8, <1>9, <1>10 DEF Protocols

\* Where a packet leaves: through the outbound of the profile, or nowhere.
LEMMA ExitsAre ==
  ASSUME NEW p, Valid(p), NEW mode \in Modes, NEW m, NEW pk \in Packets
  PROVE  LET c == Config(p, mode, m)
             v == Verdict(c, pk)
         IN  /\ v.action # "route" => Exits(c, pk) = {}
             /\ v.action = "route" /\ v.outbound = "proxy" => Exits(c, pk) = {Dials(p)}
             /\ v.action = "route" /\ v.outbound = "block" =>
                   Exits(c, pk) = {Outbound("block", "block")}
<1> DEFINE c == Config(p, mode, m)
           v == Verdict(c, pk)
<1>1. /\ c.outbounds \subseteq {Outbound("direct", "direct"), Dials(p), Outbound("block", "block")}
      /\ Dials(p) \in c.outbounds
      /\ mode = "vpn" /\ IPv6ModeFor(m) = "disable_ipv6" => Outbound("block", "block") \in c.outbounds
  BY DEF Config
<1>2. /\ Outbound("direct", "direct").tag = "direct" /\ Outbound("block", "block").tag = "block"
      /\ Dials(p).tag = "proxy"
  BY DialsOwnServer DEF Outbound
<1>3. v.action = "route" /\ v.outbound = "block" => mode = "vpn" /\ IPv6ModeFor(m) = "disable_ipv6"
  BY VerdictIs
<1>4. Exits(c, pk) = IF v.action # "route" THEN {} ELSE {o \in c.outbounds : o.tag = v.outbound}
  BY DEF Exits
<1> HIDE DEF c, v
<1>5. v.action # "route" => Exits(c, pk) = {}
  BY <1>4
<1>6. v.action = "route" /\ v.outbound = "proxy" => Exits(c, pk) = {Dials(p)}
  BY <1>1, <1>2, <1>4
<1>7. v.action = "route" /\ v.outbound = "block" => Exits(c, pk) = {Outbound("block", "block")}
  BY <1>1, <1>2, <1>3, <1>4
<1> QED
  BY <1>5, <1>6, <1>7 DEF c, v
-----------------------------------------------------------------------------
(* The state.                                                              *)

AnyValue == UNION {Values[f] : f \in Fields}

\* What the form makes, and what the repository accepts.
Drafts == {p \in [Fields -> AnyValue] : \A f \in Fields : p[f] \in Values[f]}
ValidDrafts == {p \in Drafts : Valid(p)}

\* An item of a text, whose server, if it has one, is a whole profile.
ItemFits(t) ==
    /\ DOMAIN t = {"kind", "link", "server", "good"}
    /\ t.server # Refused => DOMAIN t.server = Fields

TextFits ==
    /\ DOMAIN clip = {"shape", "items"} /\ clip.shape \in {"lines", "array"}
    /\ IsFiniteSet(DOMAIN clip.items)
    /\ \A i \in DOMAIN clip.items : ItemFits(clip.items[i])

\* Everything in the repository and in the inbox has passed Validate.
InboxFits ==
    /\ IsFiniteSet(DOMAIN inbox) /\ report.added = Cardinality(DOMAIN inbox)
    /\ \A i \in DOMAIN inbox : DOMAIN inbox[i][2] = Fields /\ Valid(inbox[i][2])

\* The inductive invariant.
ExInv ==
    /\ changes \in 0 .. MaxChanges /\ foreign \in BOOLEAN
    /\ draft \in Drafts /\ servers \in Seq(ValidDrafts)
    /\ TextFits /\ InboxFits /\ ImportAccountsForAll

FlagFields == {"tls", "insecure", "padding", "authLen", "enabled", "reality"}
TextFields == {"protocol", "name", "address", "port", "user", "pass", "cipher", "uuid", "flow",
               "security", "sni", "alpn", "fp", "sshUser", "key", "hostKey", "net", "path",
               "host", "early", "packet"}

\* A blank profile, and one over TLS and WebSocket, is a draft.
LEMMA BlankFits ==
  ASSUME NEW k \in Protocols \cup {"other"}
  PROVE  Blank(k) \in Drafts
<1>1. Fields = TextFields \cup FlagFields
  BY DEF Fields, Values, TextFields, FlagFields
<1>2. DOMAIN Blank(k) = Fields
  BY DEF Blank, Fields, Values
<1>3. ASSUME NEW f \in TextFields PROVE Blank(k)[f] \in Values[f]
  BY DEF Blank, Values, TextFields, Protocols
<1>4. ASSUME NEW f \in FlagFields PROVE Blank(k)[f] \in Values[f]
  <2>1. Values[f] = BOOLEAN
    BY DEF Values, FlagFields
  <2>2. Blank(k)[f] = TRUE \/ Blank(k)[f] = FALSE
    BY DEF Blank, FlagFields
  <2> QED
    BY <2>1, <2>2
<1>5. \A f \in Fields : Blank(k)[f] \in Values[f]
  BY <1>1, <1>3, <1>4
<1>6. Blank(k) = [f \in Fields |-> Blank(k)[f]]
  <2>1. Blank(k) = [f \in DOMAIN Blank(k) |-> Blank(k)[f]]
    BY DEF Blank
  <2> QED
    BY <1>2, <2>1
<1>7. [f \in Fields |-> Blank(k)[f]] \in Drafts
  BY <1>5 DEF Drafts, AnyValue
<1> QED
  BY <1>6, <1>7

\* Filling in a field.
LEMMA EditFits ==
  ASSUME NEW p \in Drafts, NEW f \in Fields, NEW v \in Values[f]
  PROVE  [p EXCEPT ![f] = v] \in Drafts
BY DEF Drafts, AnyValue

\* What a link is parsed to is refused, or a whole profile.
LEMMA NewProfileShape ==
  ASSUME NEW k, NEW name, NEW l, NEW port, NEW x
  PROVE  \/ NewProfile(k, name, l, port, x) = Refused
         \/ DOMAIN NewProfile(k, name, l, port, x) = Fields
<1> DEFINE p == [Blank(k) EXCEPT
                !.name = IF name = Empty THEN "generated" ELSE name,
                !.address = l.address, !.port = port,
                !.user = x.user, !.pass = x.pass, !.cipher = x.cipher, !.uuid = x.uuid,
                !.flow = x.flow, !.security = x.security,
                !.tls = x.tls, !.insecure = x.insecure, !.sni = x.sni, !.alpn = x.alpn, !.fp = x.fp,
                !.net = x.net, !.path = x.path, !.host = x.host,
                !.padding = x.padding, !.packet = x.packet, !.enabled = FALSE]
<1>1. DOMAIN p = DOMAIN Blank(k)
  OBVIOUS
<1>2. DOMAIN Blank(k) = Fields
  BY DEF Blank, Fields, Values
<1>3. NewProfile(k, name, l, port, x) = IF Valid(p) THEN p ELSE Refused
  BY DEF NewProfile
<1> HIDE DEF p
<1> QED
  BY <1>1, <1>2, <1>3

\* ... whatever the scheme.
LEMMA ParseLinkShape ==
  ASSUME NEW l
  PROVE  ParseLink(l) = Refused \/ DOMAIN ParseLink(l) = Fields
<1>1. ParseVMess(l) = Refused \/ DOMAIN ParseVMess(l) = Fields
  BY NewProfileShape DEF ParseVMess
<1>2. ParseVMessSIP002(l) = Refused \/ DOMAIN ParseVMessSIP002(l) = Fields
  BY NewProfileShape DEF ParseVMessSIP002
<1>3. ParseVLess(l) = Refused \/ DOMAIN ParseVLess(l) = Fields
  BY NewProfileShape DEF ParseVLess
<1>4. ParseShadowsocks(l) = Refused \/ DOMAIN ParseShadowsocks(l) = Fields
  BY NewProfileShape DEF ParseShadowsocks
<1>5. ParseTrojan(l) = Refused \/ DOMAIN ParseTrojan(l) = Fields
  <2> DEFINE x == Transport(TLS([Found EXCEPT !.pass = l.user], TRUE, l, l.address), l)
  <2>1. \/ ParseTrojan(l) = Refused
        \/ ParseTrojan(l) = NewProfile("trojan", SplitFragment(l.name), l, PortOr(l.port, 443), x)
    BY DEF ParseTrojan
  <2> HIDE DEF x
  <2> QED
    BY <2>1, NewProfileShape
<1>6. ParseUserPass(l) = Refused \/ DOMAIN ParseUserPass(l) = Fields
  BY NewProfileShape DEF ParseUserPass
<1> QED
  BY <1>1, <1>2, <1>3, <1>4, <1>5, <1>6 DEF ParseLink

\* So is a line.
LEMMA ParseLineShape ==
  ASSUME NEW t, ItemFits(t)
  PROVE  ParseLine(t) = Refused \/ DOMAIN ParseLine(t) = Fields
BY ParseLinkShape DEF ParseLine, EnvelopeOK, ItemFits

\* What ParseImportData finds and what it reports: profiles of items of the
\* text, and at least one failure when an item is not among them.
LEMMA ParseIs ==
  ASSUME NEW shape, NEW items, IsFiniteSet(DOMAIN items),
         \A i \in DOMAIN items : ItemFits(items[i])
  PROVE  LET r == ParseImportData(shape, items) IN
         /\ DOMAIN r.parsed \subseteq DOMAIN items /\ r.failed \in Nat
         /\ \A i \in DOMAIN r.parsed : DOMAIN r.parsed[i][2] = Fields
         /\ DOMAIN r.parsed # DOMAIN items => r.failed > 0
<1> DEFINE None == [parsed |-> <<>>, failed |-> 1]
           env  == [i \in DOMAIN items |-> <<"env", items[i].server>>]
           good == {i \in DOMAIN items : ParseLine(items[i]) # Refused}
           n    == Cardinality(DOMAIN items \ good)
           Right(r) ==
             /\ DOMAIN r.parsed \subseteq DOMAIN items /\ r.failed \in Nat
             /\ \A i \in DOMAIN r.parsed : DOMAIN r.parsed[i][2] = Fields
             /\ DOMAIN r.parsed # DOMAIN items => r.failed > 0
<1>1. Right(None)
  BY DEF None
<1>2. Right(ParseEnvelopes(items))
  <2>1. CASE \A i \in DOMAIN items : EnvelopeOK(items[i])
    <3>1. ParseEnvelopes(items) = [parsed |-> env, failed |-> 0]
      BY <2>1 DEF ParseEnvelopes
    <3>2. \A i \in DOMAIN items : DOMAIN env[i][2] = Fields
      BY <2>1 DEF EnvelopeOK, ItemFits
    <3>3. DOMAIN env = DOMAIN items
      OBVIOUS
    <3> HIDE DEF env
    <3> QED
      BY <3>1, <3>2, <3>3
  <2>2. CASE ~ \A i \in DOMAIN items : EnvelopeOK(items[i])
    BY <1>1, <2>2 DEF ParseEnvelopes
  <2> QED
    BY <2>1, <2>2
<1>3. Right([parsed |-> ParsedLines(items),
             failed |-> Cardinality(DOMAIN items \ DOMAIN ParsedLines(items))])
  <2>1. /\ DOMAIN ParsedLines(items) = good
        /\ \A i \in good : ParsedLines(items)[i][2] = ParseLine(items[i])
    BY DEF ParsedLines
  <2>2. \A i \in good : DOMAIN ParseLine(items[i]) = Fields
    BY ParseLineShape
  <2>3. /\ IsFiniteSet(DOMAIN items \ good) /\ n \in Nat
        /\ good # DOMAIN items => n # 0
    <3>1. IsFiniteSet(DOMAIN items \ good)
      BY FS_Subset
    <3> QED
      BY <3>1, FS_CardinalityType, FS_EmptySet
  <2> DEFINE lines == ParsedLines(items)
  <2>4. n \in Nat /\ (good # DOMAIN items => n > 0) /\ n = Cardinality(DOMAIN items \ DOMAIN lines)
    BY <2>1, <2>3
  <2>5. DOMAIN lines \subseteq DOMAIN items /\ \A i \in DOMAIN lines : DOMAIN lines[i][2] = Fields
    BY <2>1, <2>2
  <2>6. DOMAIN lines = good
    BY <2>1
  <2> HIDE DEF good, n, lines
  <2>7. Right([parsed |-> lines, failed |-> n])
    BY <2>4, <2>5, <2>6
  <2> QED
    BY <2>4, <2>7 DEF lines
<1> HIDE DEF Right
<1>4. \/ ParseImportData(shape, items) = None
      \/ ParseImportData(shape, items) = ParseEnvelopes(items)
      \/ ParseImportData(shape, items) =
            [parsed |-> ParsedLines(items),
             failed |-> Cardinality(DOMAIN items \ DOMAIN ParsedLines(items))]
  BY DEF ParseImportData
<1> QED
  BY <1>1, <1>2, <1>3, <1>4 DEF Right
-----------------------------------------------------------------------------
(* The steps.                                                              *)

\* A blank profile of a supported protocol is valid.
LEMMA BlankValid ==
  ASSUME NEW k \in Protocols
  PROVE  Valid(Blank(k))
<1>1. ValidPort(443)
  BY DEF ValidPort
<1> HIDE DEF ValidPort
<1>2. /\ Blank(k).protocol = k /\ Blank(k).name = "plain" /\ Blank(k).address = "domain"
      /\ Blank(k).port = 443 /\ Blank(k).net = "nil" /\ Blank(k).reality = FALSE
      /\ k \in {"vless", "vmess"} => Blank(k).uuid = "id"
      /\ k \in {"shadowsocks", "trojan", "ssh"} => Blank(k).pass = "pw"
      /\ k = "shadowsocks" => Blank(k).cipher = "aes"
      /\ k = "ssh" => Blank(k).sshUser = "root"
  BY DEF Blank
<1> QED
  BY <1>1, <1>2 DEF Valid, Empty

\* The form starts with a template, the repository with what it accepts.
LEMMA ExBegins == Init => ExInv
<1> SUFFICES ASSUME Init PROVE ExInv
  OBVIOUS
<1>1. draft \in Drafts
  <2>1. CASE \E k \in Protocols \cup {"other"} : draft = Blank(k)
    BY <2>1, BlankFits
  <2>2. ASSUME NEW k \in {"vless", "vmess", "trojan"},
               draft = [Blank(k) EXCEPT !.tls = TRUE, !.net = "ws", !.host = "cdn"]
        PROVE  draft \in Drafts
    <3>1. /\ "tls" \in Fields /\ "net" \in Fields /\ "host" \in Fields
          /\ TRUE \in Values["tls"] /\ "ws" \in Values["net"] /\ "cdn" \in Values["host"]
      BY DEF Fields, Values
    <3>2. Blank(k) \in Drafts
      BY BlankFits DEF Protocols
    <3>3. [Blank(k) EXCEPT !["tls"] = TRUE] \in Drafts
      BY <3>1, <3>2, EditFits
    <3>4. [[Blank(k) EXCEPT !["tls"] = TRUE] EXCEPT !["net"] = "ws"] \in Drafts
      BY <3>1, <3>3, EditFits
    <3>5. [[[Blank(k) EXCEPT !["tls"] = TRUE] EXCEPT !["net"] = "ws"] EXCEPT !["host"] = "cdn"] \in Drafts
      BY <3>1, <3>4, EditFits
    <3> QED
      BY <2>2, <3>5
  <2> QED
    BY <2>1, <2>2 DEF Init, Templates
<1>2. servers \in Seq(ValidDrafts)
  <2>1. CASE servers = <<>>
    BY <2>1
  <2>2. ASSUME NEW k \in Stored, servers = <<Blank(k)>> PROVE servers \in Seq(ValidDrafts)
    <3>1. k \in Protocols
      BY ExchangeAssumption
    <3>2. Blank(k) \in ValidDrafts
      BY <3>1, BlankFits, BlankValid DEF ValidDrafts
    <3> QED
      BY <2>2, <3>2
  <2> QED
    BY <2>1, <2>2 DEF Init
<1>3. TextFits
  <2>1. clip = [shape |-> "lines", items |-> <<>>] /\ DOMAIN clip.items = {}
    BY DEF Init
  <2>2. IsFiniteSet(DOMAIN clip.items)
    BY <2>1, FS_EmptySet
  <2> QED
    BY <2>1, <2>2 DEF TextFits
<1>4. InboxFits /\ ImportAccountsForAll
  <2>1. inbox = <<>> /\ DOMAIN inbox = {} /\ report = NoReport /\ NoReport.added = 0
    BY DEF Init, NoReport
  <2>2. IsFiniteSet(DOMAIN inbox) /\ Cardinality(DOMAIN inbox) = 0
    BY <2>1, FS_EmptySet
  <2> QED
    BY <2>1, <2>2 DEF InboxFits, ImportAccountsForAll
<1>5. changes \in 0 .. MaxChanges
  BY ExchangeAssumption DEF Init
<1>6. foreign \in BOOLEAN
  BY DEF Init
<1> QED
  BY <1>1, <1>2, <1>3, <1>4, <1>5, <1>6 DEF ExInv

\* A change leaves the rest of the state as it is.
LEMMA OthersStay ==
  ASSUME ExInv
  PROVE  /\ UNCHANGED <<inbox, report>> => InboxFits' /\ ImportAccountsForAll'
         /\ UNCHANGED clip => TextFits'
         /\ changes < MaxChanges => changes + 1 \in 0 .. MaxChanges
<1>1. UNCHANGED <<inbox, report>> => InboxFits' /\ ImportAccountsForAll'
  BY DEF ExInv, InboxFits, ImportAccountsForAll
<1>2. UNCHANGED clip => TextFits'
  BY DEF ExInv, TextFits
<1>3. changes < MaxChanges => changes + 1 \in 0 .. MaxChanges
  BY ExchangeAssumption DEF ExInv
<1> QED
  BY <1>1, <1>2, <1>3

\* Only links, envelopes of stored profiles and foreign items get into a text.
LEMMA ItemsFit ==
  /\ \A l : ItemFits(LinkItem(l))
  /\ \A p : DOMAIN p = Fields => ItemFits(EnvItem(p))
  /\ \A t \in ForeignItems : ItemFits(t)
<1>1. \A k, l, g : ItemFits(Item(k, l, Refused, g))
  BY DEF ItemFits, Item
<1>2. \A k, l, p, g : DOMAIN p = Fields => ItemFits(Item(k, l, p, g))
  BY DEF ItemFits, Item
<1>3. \A k : DOMAIN Blank(k) = Fields
  BY DEF Blank, Fields, Values
<1>4. \A k : DOMAIN [Blank(k) EXCEPT !.port = WidePort] = Fields
  BY <1>3
<1>5. ASSUME NEW t \in ForeignItems PROVE ItemFits(t)
  <2>1. ItemFits(BlankItem) /\ ItemFits(JunkItem) /\ ItemFits(EnvItem(Refused))
    BY <1>1 DEF BlankItem, JunkItem, EnvItem
  <2>2. ItemFits(Item("env", Refused, Blank("http"), FALSE))
    BY <1>2, <1>3
  <2>3. ItemFits(EnvItem([Blank("socks5") EXCEPT !.port = WidePort]))
    BY <1>2, <1>4 DEF EnvItem
  <2>4. ItemFits(EnvItem(Blank("other")))
    BY <1>2, <1>3 DEF EnvItem
  <2> QED
    BY <2>1, <2>2, <2>3, <2>4 DEF ForeignItems
<1> QED
  BY <1>1, <1>2, <1>5 DEF LinkItem, EnvItem

\* An export, of some of the servers.
LEMMA ExportKeeps ==
  ASSUME ExInv, NEW ids \in SUBSET DOMAIN servers, ExportLinks(ids) \/ ExportServers(ids)
  PROVE  ExInv'
<1>1. PICK shape, items :
        /\ Exported(shape, items) /\ shape \in {"lines", "array"}
        /\ \/ items = [i \in ids |-> LinkItem(Link(servers[i]))]
           \/ items = [i \in ids |-> EnvItem(servers[i])]
  BY DEF ExportLinks, ExportServers
<1>2. /\ clip' = [shape |-> shape, items |-> items]
      /\ UNCHANGED <<draft, changes, servers, foreign, inbox, report>>
  BY <1>1 DEF Exported
<1>3. IsFiniteSet(ids)
  <2>1. DOMAIN servers = 1 .. Len(servers) /\ Len(servers) \in Nat
    BY DEF ExInv
  <2>2. IsFiniteSet(1 .. Len(servers))
    BY <2>1, FS_Interval
  <2> QED
    BY <2>1, <2>2, FS_Subset
<1>4. \A i \in ids : DOMAIN servers[i] = Fields
  <2>1. \A i \in DOMAIN servers : servers[i] \in ValidDrafts
    BY DEF ExInv
  <2> QED
    BY <2>1 DEF ValidDrafts, Drafts
<1>5. DOMAIN items = ids /\ \A i \in ids : ItemFits(items[i])
  BY <1>1, <1>4, ItemsFit
<1>6. TextFits'
  <2>1. DOMAIN clip' = {"shape", "items"} /\ clip'.shape = shape /\ clip'.items = items
    BY <1>2
  <2> QED
    BY <1>1, <1>3, <1>5, <2>1 DEF TextFits
<1> QED
  BY <1>2, <1>6, OthersStay DEF ExInv

\* The text is changed outside of the app.
LEMMA ChangeKeeps ==
  ASSUME ExInv, NEW items, Changed(items), IsFiniteSet(DOMAIN items),
         \A i \in DOMAIN items : ItemFits(items[i])
  PROVE  ExInv'
<1>1. /\ changes < MaxChanges /\ changes' = changes + 1 /\ foreign' = TRUE
      /\ clip' = [clip EXCEPT !.items = items]
      /\ UNCHANGED <<draft, servers, inbox, report>>
  BY DEF Changed
<1>2. TextFits'
  BY <1>1 DEF ExInv, TextFits
<1>3. foreign' \in BOOLEAN
  BY <1>1
<1> QED
  BY <1>1, <1>2, <1>3, OthersStay DEF ExInv

\* ... by adding an item.
LEMMA PasteKeeps ==
  ASSUME ExInv, NEW item \in ForeignItems, Paste(item)
  PROVE  ExInv'
<1>1. PICK k : Changed([i \in DOMAIN clip.items \cup {k} |-> IF i = k THEN item ELSE clip.items[i]])
  BY DEF Paste
<1> DEFINE items == [i \in DOMAIN clip.items \cup {k} |-> IF i = k THEN item ELSE clip.items[i]]
<1>2. DOMAIN items = DOMAIN clip.items \cup {k}
  OBVIOUS
<1>3. IsFiniteSet(DOMAIN items)
  BY <1>2, FS_AddElement DEF ExInv, TextFits
<1>4. \A i \in DOMAIN items : ItemFits(items[i])
  BY <1>2, ItemsFit DEF ExInv, TextFits
<1> HIDE DEF items
<1> QED
  BY <1>1, <1>3, <1>4, ChangeKeeps DEF items

\* ... or by changing a link.
LEMMA EditLinkKeeps ==
  ASSUME ExInv, NEW i \in DOMAIN clip.items, NEW f, NEW v, EditLink(i, f, v)
  PROVE  ExInv'
<1> DEFINE items == [clip.items EXCEPT ![i].link[f] = v]
<1>1. Changed(items)
  BY DEF EditLink
<1>2. DOMAIN items = DOMAIN clip.items
  OBVIOUS
<1>3. \A j \in DOMAIN clip.items : ItemFits(clip.items[j])
  BY DEF ExInv, TextFits
<1>4. ASSUME NEW j \in DOMAIN clip.items PROVE ItemFits(items[j])
  <2>1. CASE j # i
    BY <1>3, <2>1
  <2>2. CASE j = i
    <3>1. DOMAIN items[i] = DOMAIN clip.items[i] /\ items[i].server = clip.items[i].server
      BY <1>3 DEF ItemFits
    <3> QED
      BY <1>3, <2>2, <3>1 DEF ItemFits
  <2> QED
    BY <2>1, <2>2
<1>5. IsFiniteSet(DOMAIN items)
  BY <1>2 DEF ExInv, TextFits
<1> HIDE DEF items
<1> QED
  BY <1>1, <1>2, <1>4, <1>5, ChangeKeeps

\* What Create accepts of the parsed profiles.
LEMMA CreatedIs ==
  ASSUME NEW parsed, \A i \in DOMAIN parsed : DOMAIN parsed[i][2] = Fields
  PROVE  /\ DOMAIN Created(parsed) \subseteq DOMAIN parsed
         /\ \A i \in DOMAIN Created(parsed) :
               DOMAIN Created(parsed)[i][2] = Fields /\ Valid(Created(parsed)[i][2])
<1> DEFINE Profile(i) == [parsed[i][2] EXCEPT !.enabled = TRUE]
           ok == {j \in DOMAIN parsed : Valid(Profile(j))}
<1>1. Created(parsed) = [i \in ok |-> <<parsed[i][1], Profile(i)>>]
  BY DEF Created
<1>2. \A i \in ok : DOMAIN Profile(i) = Fields /\ Valid(Profile(i))
  OBVIOUS
<1> HIDE DEF Profile
<1> QED
  BY <1>1, <1>2

\* An import stores what is valid and counts the rest.
LEMMA ImportKeeps == ASSUME ExInv, ImportServers PROVE ExInv'
<1> DEFINE kept  == {j \in DOMAIN clip.items : clip.items[j].kind # "blank"}
           items == [i \in kept |-> clip.items[i]]
           r     == ParseImportData(clip.shape, items)
           new   == Created(r.parsed)
<1>1. /\ inbox' = new
      /\ report' = [added |-> Cardinality(DOMAIN new),
                    failed |-> r.failed + Cardinality(DOMAIN r.parsed \ DOMAIN new),
                    items |-> Cardinality(DOMAIN items)]
      /\ UNCHANGED <<draft, changes, servers, clip, foreign>>
  BY DEF ImportServers
<1>2. IsFiniteSet(DOMAIN items) /\ DOMAIN items = kept
  BY FS_Subset DEF ExInv, TextFits
<1>3. \A i \in DOMAIN items : ItemFits(items[i])
  BY DEF ExInv, TextFits
<1> HIDE DEF items
<1>4. /\ DOMAIN r.parsed \subseteq DOMAIN items /\ r.failed \in Nat
      /\ \A i \in DOMAIN r.parsed : DOMAIN r.parsed[i][2] = Fields
      /\ DOMAIN r.parsed # DOMAIN items => r.failed > 0
  BY <1>2, <1>3, ParseIs
<1> HIDE DEF r
<1>5. /\ DOMAIN new \subseteq DOMAIN r.parsed
      /\ \A i \in DOMAIN new : DOMAIN new[i][2] = Fields /\ Valid(new[i][2])
  BY <1>4, CreatedIs
<1> HIDE DEF new
<1> DEFINE a == Cardinality(DOMAIN new)
           n == Cardinality(DOMAIN items)
           d == Cardinality(DOMAIN r.parsed \ DOMAIN new)
<1>6. /\ IsFiniteSet(DOMAIN r.parsed) /\ IsFiniteSet(DOMAIN new)
      /\ IsFiniteSet(DOMAIN r.parsed \ DOMAIN new)
  <2>1. IsFiniteSet(DOMAIN r.parsed)
    BY <1>2, <1>4, FS_Subset
  <2> QED
    BY <1>5, <2>1, FS_Subset
<1>7. a \in Nat /\ n \in Nat /\ d \in Nat
  BY <1>2, <1>6, FS_CardinalityType
<1>8. a <= n
  BY <1>2, <1>4, <1>5, FS_Subset
<1>9. a < n => r.failed + d > 0
  <2> SUFFICES ASSUME a < n, r.failed = 0 PROVE d # 0
    BY <1>4, <1>7
  <2>1. DOMAIN r.parsed = DOMAIN items
    BY <1>4
  <2>2. DOMAIN new # DOMAIN items
    BY <1>7
  <2>3. DOMAIN r.parsed \ DOMAIN new # {}
    BY <1>5, <2>1, <2>2
  <2> QED
    BY <1>6, <2>3, FS_EmptySet
<1>10. report'.added = a /\ report'.failed = r.failed + d /\ report'.items = n
  BY <1>1
<1> HIDE DEF a, n, d
<1>11. ImportAccountsForAll'
  BY <1>8, <1>9, <1>10 DEF ImportAccountsForAll
<1>12. InboxFits'
  BY <1>1, <1>5, <1>6, <1>10 DEF InboxFits, a
<1> QED
  BY <1>1, <1>11, <1>12, OthersStay DEF ExInv

\* Filling in the form, and adding what it holds.
LEMMA FormKeeps ==
  ASSUME ExInv, (\E f \in Fields : \E v \in Values[f] : Edit(f, v)) \/ AddServer
  PROVE  ExInv'
<1>1. ASSUME NEW f \in Fields, NEW v \in Values[f], Edit(f, v) PROVE ExInv'
  <2>1. /\ changes < MaxChanges /\ changes' = changes + 1 /\ draft' = [draft EXCEPT ![f] = v]
        /\ UNCHANGED <<servers, clip, foreign, inbox, report>>
    BY <1>1 DEF Edit
  <2>2. draft' \in Drafts
    BY <2>1, EditFits DEF ExInv
  <2> QED
    BY <2>1, <2>2, OthersStay DEF ExInv
<1>2. CASE AddServer
  <2>1. /\ Valid(draft) /\ servers' = Append(servers, draft)
        /\ UNCHANGED <<draft, changes, clip, foreign, inbox, report>>
    BY <1>2 DEF AddServer
  <2>2. draft \in ValidDrafts
    BY <2>1 DEF ExInv, ValidDrafts
  <2>3. servers' \in Seq(ValidDrafts)
    BY <2>1, <2>2 DEF ExInv
  <2> QED
    BY <2>1, <2>3, OthersStay DEF ExInv
<1> QED
  BY <1>1, <1>2

\* Every step keeps the invariant.
LEMMA ExIsInductive == ExInv /\ [Next]_vars => ExInv'
<1> SUFFICES ASSUME ExInv, [Next]_vars PROVE ExInv'
  OBVIOUS
<1>1. CASE UNCHANGED vars
  BY <1>1 DEF vars, ExInv, TextFits, InboxFits, ImportAccountsForAll
<1>2. CASE Next
  <2>1. CASE (\E f \in Fields : \E v \in Values[f] : Edit(f, v)) \/ AddServer
    BY <2>1, FormKeeps
  <2>2. CASE \E ids \in SUBSET DOMAIN servers \ {{}} : ExportLinks(ids) \/ ExportServers(ids)
    BY <2>2, ExportKeeps
  <2>3. CASE \E item \in ForeignItems : Paste(item)
    BY <2>3, PasteKeeps
  <2>4. CASE \E i \in DOMAIN clip.items : \E f \in DOMAIN LinkValues :
               \E v \in LinkValues[f] : EditLink(i, f, v)
    BY <2>4, EditLinkKeeps
  <2>5. CASE ImportServers
    BY <2>5, ImportKeeps
  <2> QED
    BY <1>2, <2>1, <2>2, <2>3, <2>4, <2>5 DEF Next
<1> QED
  BY <1>1, <1>2

\* So it always holds.
LEMMA ExHolds == Spec => []ExInv
BY ExBegins, ExIsInductive, PTL DEF Spec

\* Whatever the app holds has passed Validate.
LEMMA HeldAreValid ==
  ASSUME ExInv, NEW p \in Held
  PROVE  Valid(p) /\ DOMAIN p = Fields
<1>1. ASSUME NEW i \in DOMAIN servers, p = servers[i] PROVE Valid(p) /\ DOMAIN p = Fields
  <2>1. servers[i] \in ValidDrafts
    BY DEF ExInv
  <2> QED
    BY <1>1, <2>1 DEF ValidDrafts, Drafts
<1>2. ASSUME NEW i \in DOMAIN inbox, p = inbox[i][2] PROVE Valid(p) /\ DOMAIN p = Fields
  BY <1>2 DEF ExInv, InboxFits
<1> QED
  BY <1>1, <1>2 DEF Held
-----------------------------------------------------------------------------
(* The theorems.                                                           *)

\* What an import stores has passed Validate, and what it does not store it
\* reports, however the text was changed.
THEOREM ImportsAccount == Spec => []ImportInv
<1>1. ASSUME ExInv PROVE ImportInv
  <2>1. /\ DOMAIN draft = Fields /\ \A f \in Fields : draft[f] \in Values[f]
    BY <1>1 DEF ExInv, Drafts
  <2>2. \A p \in Held : DOMAIN p = Fields /\ Valid(p)
    BY <1>1, HeldAreValid
  <2> QED
    BY <1>1, <2>1, <2>2 DEF ExInv, ImportInv, TypeOK, TextFits, InboxFits
<1> QED
  BY <1>1, ExHolds, PTL

\* The name server of an outbound in VPN mode.
LEMMA ResolverIs ==
  ASSUME NEW p, NEW m
  PROVE  LET c == Config(p, "vpn", m) IN
         \A asker : asker # "client" => Resolver(c, asker).detour = Empty
<1> DEFINE c == Config(p, "vpn", m)
           local  == [tag |-> "dns-local", detour |-> Empty]
           remote == [tag |-> "dns-proxy", detour |-> "proxy"]
<1>1. /\ c.dns.servers = {remote, local} /\ c.dns.final = "dns-proxy"
      /\ c.dns.rules # <<>> /\ Head(c.dns.rules).server = "dns-local"
  BY DEF Config, DNSOptions
<1>2. /\ local.tag = "dns-local" /\ local.detour = Empty
      /\ remote.tag = "dns-proxy" /\ remote.detour = "proxy"
  OBVIOUS
<1>4. \A asker : asker # "client" =>
         Resolver(c, asker) = CHOOSE s \in c.dns.servers : s.tag = "dns-local"
  BY <1>1 DEF Resolver
<1> HIDE DEF c, local, remote
<1>6. (CHOOSE s \in c.dns.servers : s.tag = "dns-local") = local
  BY <1>1, <1>2
<1> QED
  BY <1>2, <1>4, <1>6 DEF c

\* No packet of a client leaves by anything but the profile's own server, or
\* the block outbound, and no outbound looks a name up through the proxy.
THEOREM NothingBypasses == Spec => []NoBypass
<1>1. ASSUME ExInv PROVE NoBypass
  <2> SUFFICES ASSUME NEW p \in Held, NEW mode \in Modes, NEW m \in IPv6Modes \cup {Empty}
               PROVE  LET c == Config(p, mode, m) IN
                      /\ Startable(p, mode)
                      /\ \A pk \in Packets :
                            /\ Verdict(c, pk).action = "route" => Exits(c, pk) # {}
                            /\ \A o \in Exits(c, pk) :
                                  \/ o.type = "block"
                                  \/ /\ o.type = (IF p.protocol = "socks5" THEN "socks" ELSE p.protocol)
                                     /\ o.server = p.address /\ o.port = p.port
                      /\ mode = "vpn" => \A o \in c.outbounds : Resolver(c, o.tag).detour # "proxy"
    BY DEF NoBypass
  <2>1. Valid(p)
    BY <1>1, HeldAreValid
  <2>2. Startable(p, mode)
    BY <2>1, ValidIs DEF Startable, CoreOutbound
  <2>3. Outbound("block", "block").type = "block"
    BY DEF Outbound
  <2>4. /\ Dials(p).type = (IF p.protocol = "socks5" THEN "socks" ELSE p.protocol)
        /\ Dials(p).server = p.address /\ Dials(p).port = p.port
    BY <2>1, DialsOwnServer
  <2> DEFINE c == Config(p, mode, m)
             type == IF p.protocol = "socks5" THEN "socks" ELSE p.protocol
  <2>5. ASSUME NEW pk \in Packets
        PROVE  /\ Verdict(c, pk).action = "route" => Exits(c, pk) # {}
               /\ \A o \in Exits(c, pk) :
                     \/ o.type = "block"
                     \/ o.type = type /\ o.server = p.address /\ o.port = p.port
    <3>1. \/ Verdict(c, pk).action # "route"
          \/ Verdict(c, pk).action = "route" /\ Verdict(c, pk).outbound = "block"
          \/ Verdict(c, pk).action = "route" /\ Verdict(c, pk).outbound = "proxy"
      BY VerdictIs
    <3>2. /\ Verdict(c, pk).action # "route" => Exits(c, pk) = {}
          /\ Verdict(c, pk).action = "route" /\ Verdict(c, pk).outbound = "proxy" =>
                Exits(c, pk) = {Dials(p)}
          /\ Verdict(c, pk).action = "route" /\ Verdict(c, pk).outbound = "block" =>
                Exits(c, pk) = {Outbound("block", "block")}
      BY <2>1, ExitsAre
    <3> HIDE DEF c, type
    <3> QED
      BY <3>1, <3>2, <2>3, <2>4 DEF type
  <2>6. ASSUME mode = "vpn", NEW o \in c.outbounds PROVE Resolver(c, o.tag).detour # "proxy"
    <3>1. Outbound("direct", "direct").tag = "direct" /\ Outbound("block", "block").tag = "block"
      BY DEF Outbound
    <3>2. c.outbounds \subseteq {Outbound("direct", "direct"), Dials(p), Outbound("block", "block")}
      BY DEF Config
    <3>3. o.tag # "client"
      BY <2>1, <3>1, <3>2, DialsOwnServer
    <3> QED
      BY <2>6, <3>3, ResolverIs DEF Empty
  <2> QED
    BY <2>2, <2>5, <2>6
<1> QED
  BY <1>1, ExHolds, PTL

\* With IPv6 off, the TUN takes in every IPv6 packet and none leaves.
THEOREM Ipv6IsOff == Spec => []Ipv6StaysOff
<1>1. ASSUME ExInv PROVE Ipv6StaysOff
  <2> SUFFICES ASSUME NEW p \in Held, NEW pk \in Packets
               PROVE  LET c == Config(p, "vpn", "disable_ipv6") IN
                      /\ "v6" \in c.inbound.address /\ c.inbound.autoRoute
                      /\ pk.v6 => \A o \in Exits(c, pk) : o.type = "block"
    BY DEF Ipv6StaysOff
  <2> DEFINE c == Config(p, "vpn", "disable_ipv6")
  <2>1. Valid(p) /\ "vpn" \in Modes /\ IPv6ModeFor("disable_ipv6") = "disable_ipv6"
    BY <1>1, HeldAreValid DEF Modes, IPv6ModeFor, IPv6Modes
  <2>2. "v6" \in c.inbound.address /\ c.inbound.autoRoute
    BY DEF Config, Inbound, Addresses, AutoRoute, ZeroTun
  <2>4. Outbound("block", "block").type = "block"
    BY DEF Outbound
  <2>5. pk.v6 => \A o \in Exits(c, pk) : o.type = "block"
    BY <2>1, <2>4, VerdictIs, ExitsAre
  <2> QED
    BY <2>2, <2>5
<1> QED
  BY <1>1, ExHolds, PTL
-----------------------------------------------------------------------------
(* Reading links.                                                          *)

\* What newProfile makes before it validates.
Made(protocol, name, l, port, x) ==
    [Blank(protocol) EXCEPT
        !.name = IF name = Empty THEN "generated" ELSE name,
        !.address = l.address, !.port = port,
        !.user = x.user, !.pass = x.pass, !.cipher = x.cipher, !.uuid = x.uuid,
        !.flow = x.flow, !.security = x.security,
        !.tls = x.tls, !.insecure = x.insecure, !.sni = x.sni, !.alpn = x.alpn, !.fp = x.fp,
        !.net = x.net, !.path = x.path, !.host = x.host,
        !.padding = x.padding, !.packet = x.packet, !.enabled = FALSE]

\* The fields newProfile copies.
Copied == {"user", "pass", "cipher", "uuid", "flow", "security", "tls", "insecure", "sni",
           "alpn", "fp", "net", "path", "host", "padding", "packet"}

\* Profile q of protocol k was made for address and port with the options x.
MadeOf(q, k, address, port, x) ==
    /\ DOMAIN q = Fields
    /\ q.protocol = k /\ q.address = address /\ q.port = port /\ q.name # Empty
    /\ \A f \in Copied : q[f] = x[f]
    /\ q.early = 0 /\ q.authLen = FALSE /\ q.reality = FALSE

\* It is what newProfile says it copies.
LEMMA MadeIs ==
  ASSUME NEW k, NEW name, NEW l, NEW port, NEW x
  PROVE  MadeOf(Made(k, name, l, port, x), k, l.address, port, x)
<1> DEFINE nm == IF name = Empty THEN "generated" ELSE name
           q == Made(k, name, l, port, x)
<1>1. nm # Empty
  BY DEF Empty
<1>2. q = [Blank(k) EXCEPT
        !.name = nm,
        !.address = l.address, !.port = port,
        !.user = x.user, !.pass = x.pass, !.cipher = x.cipher, !.uuid = x.uuid,
        !.flow = x.flow, !.security = x.security,
        !.tls = x.tls, !.insecure = x.insecure, !.sni = x.sni, !.alpn = x.alpn, !.fp = x.fp,
        !.net = x.net, !.path = x.path, !.host = x.host,
        !.padding = x.padding, !.packet = x.packet, !.enabled = FALSE]
  BY DEF Made
<1>3. DOMAIN Blank(k) = Fields
  BY DEF Blank, Fields, Values
<1>4. Fields = {"protocol", "name", "address", "port", "user", "pass", "cipher", "uuid", "flow",
               "security", "sni", "alpn", "fp", "sshUser", "key", "hostKey", "net", "path",
               "host", "early", "packet", "tls", "insecure", "padding", "authLen", "enabled", "reality"}
  BY DEF Fields, Values
<1>5. Blank(k).protocol = k /\ Blank(k).early = 0 /\ Blank(k).authLen = FALSE /\ Blank(k).reality = FALSE
  BY DEF Blank
<1> HIDE DEF nm, q
<1>6. DOMAIN q = Fields
  BY <1>2, <1>3
<1>7. /\ q.protocol = k /\ q.early = 0 /\ q.authLen = FALSE /\ q.reality = FALSE
  BY <1>2, <1>3, <1>4, <1>5
<1>8. q.name = nm /\ q.address = l.address /\ q.port = port
  BY <1>2, <1>3, <1>4
<1>9. \A f \in Copied : q[f] = x[f]
  <2>1. q.user = x.user /\ q.pass = x.pass /\ q.cipher = x.cipher /\ q.uuid = x.uuid
    BY <1>2, <1>3, <1>4
  <2>2. q.flow = x.flow /\ q.security = x.security /\ q.tls = x.tls /\ q.insecure = x.insecure
    BY <1>2, <1>3, <1>4
  <2>3. q.sni = x.sni /\ q.alpn = x.alpn /\ q.fp = x.fp /\ q.net = x.net
    BY <1>2, <1>3, <1>4
  <2>4. q.path = x.path /\ q.host = x.host /\ q.padding = x.padding /\ q.packet = x.packet
    BY <1>2, <1>3, <1>4
  <2> QED
    BY <2>1, <2>2, <2>3, <2>4 DEF Copied
<1> QED
  BY <1>1, <1>6, <1>7, <1>8, <1>9 DEF q, MadeOf

\* The options x are those of link l, whose server name falls back to "fallback"
\* when TLS is on.
TLSRead(x, on, l, fallback) ==
    /\ on => /\ x.tls = TRUE /\ x.sni = IF l.sni # Empty THEN l.sni ELSE fallback
             /\ x.alpn = l.alpn /\ x.fp = l.fp /\ x.insecure = l.insecure
    /\ ~on => x.tls = FALSE /\ x.sni = Empty /\ x.alpn = Empty /\ x.fp = Empty /\ x.insecure = FALSE

TransportRead(x, l) ==
    /\ l.type = "ws" => x.net = "ws" /\ x.path = l.path /\ x.host = l.host
    /\ l.type # "ws" => x.net = "nil" /\ x.path = Empty /\ x.host = Empty

StreamRead(x, l) ==
    /\ x.uuid = l.user /\ x.packet = l.packet
    /\ TLSRead(x, l.security = "tls", l, l.host) /\ TransportRead(x, l)

\* What the parsers of streams have found in a link.
LEMMA StreamIs ==
  ASSUME NEW l
  PROVE  LET x == Stream(l) IN DOMAIN x = Fields /\ StreamRead(x, l)
<1> DEFINE f0 == Found
           f1 == [f0 EXCEPT !.uuid = l.user, !.packet = l.packet]
           f2 == TLS(f1, l.security = "tls", l, l.host)
           sn == IF l.sni # Empty THEN l.sni ELSE l.host
           x  == Transport(f2, l)
<1>1. /\ DOMAIN f0 = Fields /\ f0.tls = FALSE
      /\ f0.sni = Empty /\ f0.alpn = Empty /\ f0.fp = Empty /\ f0.insecure = FALSE
      /\ f0.net = "nil" /\ f0.path = Empty /\ f0.host = Empty
  BY DEF Found, Blank, Fields, Values
<1>f. {"uuid", "packet", "tls", "sni", "alpn", "fp", "insecure", "net", "path", "host"} \subseteq Fields
  BY DEF Fields, Values
<1> HIDE DEF f0
<1>2. /\ DOMAIN f1 = Fields /\ f1.uuid = l.user /\ f1.packet = l.packet /\ f1.tls = FALSE
      /\ f1.sni = Empty /\ f1.alpn = Empty /\ f1.fp = Empty /\ f1.insecure = FALSE
      /\ f1.net = "nil" /\ f1.path = Empty /\ f1.host = Empty
  BY <1>1, <1>f
<1> HIDE DEF f1
<1>3. l.security = "tls" => f2 = [f1 EXCEPT !.tls = TRUE, !.sni = sn,
                                   !.alpn = l.alpn, !.fp = l.fp, !.insecure = l.insecure]
  BY DEF TLS
<1>4. l.security # "tls" => f2 = f1
  BY DEF TLS
<1>5. x = Stream(l)
  BY DEF Stream, f0, f1
<1> HIDE DEF f2
<1>6. l.type = "ws" => x = [f2 EXCEPT !.net = "ws", !.path = l.path, !.host = l.host]
  BY DEF Transport
<1>7. l.type # "ws" => x = f2
  BY DEF Transport
<1> HIDE DEF x, sn
<1>8. /\ DOMAIN f2 = Fields /\ f2.uuid = l.user /\ f2.packet = l.packet
      /\ l.security = "tls" => /\ f2.tls = TRUE /\ f2.sni = sn
                               /\ f2.alpn = l.alpn /\ f2.fp = l.fp /\ f2.insecure = l.insecure
      /\ l.security # "tls" => /\ f2.tls = FALSE /\ f2.sni = Empty
                               /\ f2.alpn = Empty /\ f2.fp = Empty /\ f2.insecure = FALSE
      /\ f2.net = "nil" /\ f2.path = Empty /\ f2.host = Empty
  <2>1. CASE l.security = "tls"
    BY <1>2, <1>3, <1>f, <2>1
  <2>2. CASE l.security # "tls"
    BY <1>2, <1>4, <2>2
  <2> QED
    BY <2>1, <2>2
<1>9. /\ DOMAIN x = Fields /\ x.uuid = l.user /\ x.packet = l.packet
      /\ x.tls = f2.tls /\ x.sni = f2.sni /\ x.alpn = f2.alpn /\ x.fp = f2.fp /\ x.insecure = f2.insecure
      /\ TransportRead(x, l)
  <2>1. CASE l.type = "ws"
    BY <1>6, <1>8, <1>f, <2>1 DEF TransportRead
  <2>2. CASE l.type # "ws"
    BY <1>7, <1>8, <2>2 DEF TransportRead
  <2> QED
    BY <2>1, <2>2
<1>10. TLSRead(x, l.security = "tls", l, l.host)
  BY <1>8, <1>9 DEF TLSRead, sn
<1> QED
  BY <1>5, <1>9, <1>10 DEF StreamRead

\* What the parser of trojan links has found.
LEMMA TrojanIs ==
  ASSUME NEW l
  PROVE  LET x == Transport(TLS([Found EXCEPT !.pass = l.user], TRUE, l, l.address), l)
         IN  DOMAIN x = Fields /\ x.pass = l.user /\ TLSRead(x, TRUE, l, l.address) /\ TransportRead(x, l)
<1> DEFINE f0 == Found
           f1 == [f0 EXCEPT !.pass = l.user]
           f2 == TLS(f1, TRUE, l, l.address)
           sn == IF l.sni # Empty THEN l.sni ELSE l.address
           x  == Transport(f2, l)
<1>1. DOMAIN f0 = Fields /\ f0.net = "nil" /\ f0.path = Empty /\ f0.host = Empty
  BY DEF Found, Blank, Fields, Values
<1>f. {"pass", "tls", "sni", "alpn", "fp", "insecure", "net", "path", "host"} \subseteq Fields
  BY DEF Fields, Values
<1> HIDE DEF f0
<1>2. DOMAIN f1 = Fields /\ f1.pass = l.user /\ f1.net = "nil" /\ f1.path = Empty /\ f1.host = Empty
  BY <1>1, <1>f
<1> HIDE DEF f1
<1>3. f2 = [f1 EXCEPT !.tls = TRUE, !.sni = sn, !.alpn = l.alpn, !.fp = l.fp, !.insecure = l.insecure]
  BY DEF TLS
<1> HIDE DEF f2, sn
<1>4. /\ DOMAIN f2 = Fields /\ f2.pass = l.user /\ f2.net = "nil" /\ f2.path = Empty /\ f2.host = Empty
      /\ f2.tls = TRUE /\ f2.sni = sn /\ f2.alpn = l.alpn /\ f2.fp = l.fp /\ f2.insecure = l.insecure
  BY <1>2, <1>3, <1>f
<1>5. l.type = "ws" => x = [f2 EXCEPT !.net = "ws", !.path = l.path, !.host = l.host]
  BY DEF Transport
<1>6. l.type # "ws" => x = f2
  BY DEF Transport
<1>7. x = Transport(TLS([Found EXCEPT !.pass = l.user], TRUE, l, l.address), l)
  BY DEF f2, f1, f0
<1> HIDE DEF x
<1>8. /\ DOMAIN x = Fields /\ x.pass = l.user
      /\ x.tls = TRUE /\ x.sni = sn /\ x.alpn = l.alpn /\ x.fp = l.fp /\ x.insecure = l.insecure
      /\ TransportRead(x, l)
  <2>1. CASE l.type = "ws"
    BY <1>4, <1>5, <1>f, <2>1 DEF TransportRead
  <2>2. CASE l.type # "ws"
    BY <1>4, <1>6, <2>2 DEF TransportRead
  <2> QED
    BY <2>1, <2>2
<1>9. TLSRead(x, TRUE, l, l.address)
  BY <1>8 DEF TLSRead, sn
<1> QED
  BY <1>7, <1>8, <1>9

\* newProfile returns what it made, if that is valid.
LEMMA NewProfileIs ==
  ASSUME NEW k, NEW name, NEW l, NEW port, NEW x
  PROVE  LET q == Made(k, name, l, port, x) IN
         /\ NewProfile(k, name, l, port, x) = IF Valid(q) THEN q ELSE Refused
         /\ Valid(q) => q # Refused
<1> DEFINE q == Made(k, name, l, port, x)
<1>1. NewProfile(k, name, l, port, x) = IF Valid(q) THEN q ELSE Refused
  BY DEF NewProfile, Made
<1>2. Valid(q) => q.protocol \in Protocols
  BY DEF Valid
<1> HIDE DEF q
<1>3. Valid(q) => q # Refused
  BY <1>2 DEF Refused, Protocols
<1> QED
  BY <1>1, <1>3 DEF q

StreamFields == {"uuid", "packet", "tls", "sni", "alpn", "fp", "insecure", "net", "path", "host"}

\* Reading is about these fields only.
LEMMA SameRead ==
  ASSUME NEW q, NEW x, NEW l, NEW on, NEW fallback, \A f \in StreamFields \ {"uuid", "packet"} : q[f] = x[f]
  PROVE  /\ TLSRead(x, on, l, fallback) => TLSRead(q, on, l, fallback)
         /\ TransportRead(x, l) => TransportRead(q, l)
         /\ q.uuid = x.uuid /\ q.packet = x.packet /\ StreamRead(x, l) => StreamRead(q, l)
<1>1. /\ q.tls = x.tls /\ q.sni = x.sni /\ q.alpn = x.alpn /\ q.fp = x.fp /\ q.insecure = x.insecure
      /\ q.net = x.net /\ q.path = x.path /\ q.host = x.host
  BY DEF StreamFields
<1> QED
  BY <1>1 DEF TLSRead, TransportRead, StreamRead

\* What newProfile makes of the options of a stream.
LEMMA StreamMade ==
  ASSUME NEW l, NEW k, NEW name, NEW port, NEW x, \A f \in StreamFields : x[f] = Stream(l)[f]
  PROVE  StreamRead(Made(k, name, l, port, x), l)
<1> DEFINE q == Made(k, name, l, port, x)
<1>1. MadeOf(q, k, l.address, port, x)
  BY MadeIs
<1>2. StreamRead(Stream(l), l)
  BY StreamIs
<1> HIDE DEF q
<1>3. \A f \in StreamFields : q[f] = Stream(l)[f]
  <2>1. StreamFields \subseteq Copied
    BY DEF StreamFields, Copied
  <2> QED
    BY <1>1, <2>1 DEF MadeOf
<1>4. q.uuid = Stream(l).uuid /\ q.packet = Stream(l).packet
  BY <1>3 DEF StreamFields
<1>5. StreamRead(q, l)
  BY <1>2, <1>3, <1>4, SameRead
<1> QED
  BY <1>5 DEF q

\* What a link is read as, by its scheme, if it is accepted.
VLess(l) ==
    Made("vless", SplitFragment(l.name), l, PortOr(l.port, 443), [Stream(l) EXCEPT !.flow = l.flow])

VMess(l) ==
    IF l.form = "b64"
    THEN Made("vmess", l.name, l, l.port, [Stream(l) EXCEPT !.security = l.encryption, !.padding = l.padding])
    ELSE Made("vmess", SplitFragment(l.name), l, PortOr(l.port, 443),
              [Stream(l) EXCEPT !.security = IF l.encryption = Empty THEN "auto" ELSE l.encryption,
                                !.padding = l.padding, !.authLen = l.authLen])

Shadowsocks(l) ==
    Made("shadowsocks", SplitFragment(l.name), l, l.port, [Found EXCEPT !.cipher = l.user, !.pass = l.pass])

Trojan(l) ==
    Made("trojan", SplitFragment(l.name), l, PortOr(l.port, 443),
         Transport(TLS([Found EXCEPT !.pass = l.user], TRUE, l, l.address), l))

UserPass(l) ==
    Made(l.scheme, SplitFragment(l.name), l, PortOr(l.port, 1080), [Found EXCEPT !.user = l.user, !.pass = l.pass])

\* Profile q, of protocol k, is made for the link's address.
MadeFor(q, k, l, port) ==
    /\ DOMAIN q = Fields /\ q.protocol = k /\ q.address = l.address /\ q.port = port /\ q.name # Empty
    /\ q.early = 0 /\ q.authLen = FALSE /\ q.reality = FALSE

\* Without TLS or a transport.
PlainRead(q) == q.tls = FALSE /\ q.net = "nil"

\* Reading a vless link.
LEMMA VLessRead ==
  ASSUME NEW l, l.scheme = "vless"
  PROVE  LET q == VLess(l)
             ok == StreamOK(l) /\ l.encryption \in {Empty, "none", "auto"} /\ Valid(q)
         IN
         /\ ok => ParseLink(l) = q /\ q # Refused
         /\ ~ok => ParseLink(l) = Refused
         /\ MadeFor(q, "vless", l, PortOr(l.port, 443))
         /\ q.flow = l.flow /\ StreamRead(q, l)
<1> DEFINE x == [Stream(l) EXCEPT !.flow = l.flow]
           name == SplitFragment(l.name)
           port == PortOr(l.port, 443)
           q == Made("vless", name, l, port, x)
<1>1. ParseLink(l) = ParseVLess(l)
  BY DEF ParseLink
<1>2. ParseLink(l) = IF StreamOK(l) /\ l.encryption \in {Empty, "none", "auto"}
                     THEN NewProfile("vless", name, l, port, x) ELSE Refused
  BY <1>1 DEF ParseVLess
<1>3. x.flow = l.flow /\ \A f \in StreamFields : x[f] = Stream(l)[f]
  <2>1. "flow" \in Fields /\ StreamFields \subseteq Fields /\ "flow" \notin StreamFields
    BY DEF Fields, Values, StreamFields
  <2>2. DOMAIN Stream(l) = Fields
    BY StreamIs
  <2> QED
    BY <2>1, <2>2
<1>4. q = VLess(l)
  BY DEF VLess
<1> HIDE DEF x, name, port
<1>5. /\ NewProfile("vless", name, l, port, x) = IF Valid(q) THEN q ELSE Refused
      /\ Valid(q) => q # Refused
  BY NewProfileIs
<1>6. MadeOf(q, "vless", l.address, port, x) /\ StreamRead(q, l)
  BY <1>3, MadeIs, StreamMade
<1> HIDE DEF q
<1>7. MadeFor(q, "vless", l, port) /\ q.flow = l.flow
  BY <1>3, <1>6 DEF MadeOf, MadeFor, Copied
<1> QED
  BY <1>2, <1>4, <1>5, <1>6, <1>7 DEF port

\* Reading a vmess link of either form.
LEMMA VMessRead ==
  ASSUME NEW l, l.scheme = "vmess"
  PROVE  LET q == VMess(l)
             ok == StreamOK(l) /\ (l.form = "b64" => ValidPort(l.port)) /\ Valid(q)
         IN
         /\ ok => ParseLink(l) = q /\ q # Refused
         /\ ~ok => ParseLink(l) = Refused
         /\ MadeFor(q, "vmess", l, IF l.form = "b64" THEN l.port ELSE PortOr(l.port, 443))
         /\ q.padding = l.padding /\ StreamRead(q, l)
         /\ q.security = IF l.form = "b64" \/ l.encryption # Empty THEN l.encryption ELSE "auto"
<1>f. /\ {"security", "padding", "authLen"} \subseteq Fields /\ StreamFields \subseteq Fields
      /\ {"security", "padding", "authLen"} \cap StreamFields = {}
  BY DEF Fields, Values, StreamFields
<1>d. DOMAIN Stream(l) = Fields
  BY StreamIs
<1>1. CASE l.form = "b64"
  <2> DEFINE x == [Stream(l) EXCEPT !.security = l.encryption, !.padding = l.padding]
             q == Made("vmess", l.name, l, l.port, x)
  <2>1. ParseLink(l) = ParseVMess(l)
    BY <1>1 DEF ParseLink
  <2>2. ParseLink(l) = IF StreamOK(l) /\ ValidPort(l.port)
                       THEN NewProfile("vmess", l.name, l, l.port, x) ELSE Refused
    BY <2>1 DEF ParseVMess
  <2>3. /\ x.security = l.encryption /\ x.padding = l.padding
        /\ \A f \in StreamFields : x[f] = Stream(l)[f]
    BY <1>f, <1>d
  <2>4. q = VMess(l)
    BY <1>1 DEF VMess
  <2> HIDE DEF x
  <2>5. /\ NewProfile("vmess", l.name, l, l.port, x) = IF Valid(q) THEN q ELSE Refused
        /\ Valid(q) => q # Refused
    BY NewProfileIs
  <2>6. MadeOf(q, "vmess", l.address, l.port, x) /\ StreamRead(q, l)
    BY <2>3, MadeIs, StreamMade
  <2> HIDE DEF q
  <2>7. MadeFor(q, "vmess", l, l.port) /\ q.security = l.encryption /\ q.padding = l.padding
    BY <2>3, <2>6 DEF MadeOf, MadeFor, Copied
  <2> QED
    BY <1>1, <2>2, <2>4, <2>5, <2>6, <2>7
<1>2. CASE l.form # "b64"
  <2> DEFINE sec == IF l.encryption = Empty THEN "auto" ELSE l.encryption
             x == [Stream(l) EXCEPT !.security = sec, !.padding = l.padding, !.authLen = l.authLen]
             name == SplitFragment(l.name)
             port == PortOr(l.port, 443)
             q == Made("vmess", name, l, port, x)
  <2>1. ParseLink(l) = ParseVMessSIP002(l)
    BY <1>2 DEF ParseLink
  <2>2. ParseLink(l) = IF StreamOK(l) THEN NewProfile("vmess", name, l, port, x) ELSE Refused
    BY <2>1 DEF ParseVMessSIP002
  <2>3. q = VMess(l)
    BY <1>2 DEF VMess
  <2>4. sec = IF l.form = "b64" \/ l.encryption # Empty THEN l.encryption ELSE "auto"
    BY <1>2
  <2> HIDE DEF sec
  <2>5. /\ x.security = sec /\ x.padding = l.padding
        /\ \A f \in StreamFields : x[f] = Stream(l)[f]
    BY <1>f, <1>d
  <2> HIDE DEF x, name, port
  <2>6. /\ NewProfile("vmess", name, l, port, x) = IF Valid(q) THEN q ELSE Refused
        /\ Valid(q) => q # Refused
    BY NewProfileIs
  <2>7. MadeOf(q, "vmess", l.address, port, x) /\ StreamRead(q, l)
    BY <2>5, MadeIs, StreamMade
  <2> HIDE DEF q
  <2>8. MadeFor(q, "vmess", l, port) /\ q.security = sec /\ q.padding = l.padding
    BY <2>5, <2>7 DEF MadeOf, MadeFor, Copied
  <2> QED
    BY <1>2, <2>2, <2>3, <2>4, <2>6, <2>7, <2>8 DEF port
<1> QED
  BY <1>1, <1>2

\* Reading an ss link.
LEMMA ShadowsocksRead ==
  ASSUME NEW l, l.scheme = "ss"
  PROVE  LET q == Shadowsocks(l)
             ok == /\ l.address # "ipv6" /\ ValidPort(l.port) /\ l.user # Empty /\ l.pass # Empty
                   /\ l.plugin => l.form = "b64"
                   /\ Valid(q)
         IN
         /\ ok => ParseLink(l) = q /\ q # Refused
         /\ ~ok => ParseLink(l) = Refused
         /\ MadeFor(q, "shadowsocks", l, l.port)
         /\ q.cipher = l.user /\ q.pass = l.pass /\ q.net = "nil"
<1> DEFINE x == [Found EXCEPT !.cipher = l.user, !.pass = l.pass]
           name == SplitFragment(l.name)
           q == Made("shadowsocks", name, l, l.port, x)
<1>1. ParseLink(l) = ParseShadowsocks(l)
  BY DEF ParseLink
<1>2. ParseLink(l) = IF /\ l.address # "ipv6" /\ ValidPort(l.port) /\ l.user # Empty /\ l.pass # Empty
                        /\ l.plugin => l.form = "b64"
                     THEN NewProfile("shadowsocks", name, l, l.port, x) ELSE Refused
  BY <1>1 DEF ParseShadowsocks
<1>3. x.cipher = l.user /\ x.pass = l.pass /\ x.net = "nil"
  <2>1. DOMAIN Found = Fields /\ Found.net = "nil" /\ {"cipher", "pass", "net"} \subseteq Fields
    BY DEF Found, Blank, Fields, Values
  <2> QED
    BY <2>1
<1>4. q = Shadowsocks(l)
  BY DEF Shadowsocks
<1> HIDE DEF x, name
<1>5. /\ NewProfile("shadowsocks", name, l, l.port, x) = IF Valid(q) THEN q ELSE Refused
      /\ Valid(q) => q # Refused
  BY NewProfileIs
<1>6. MadeOf(q, "shadowsocks", l.address, l.port, x)
  BY MadeIs
<1> HIDE DEF q
<1>7. MadeFor(q, "shadowsocks", l, l.port) /\ q.cipher = l.user /\ q.pass = l.pass /\ q.net = "nil"
  BY <1>3, <1>6 DEF MadeOf, MadeFor, Copied
<1> QED
  BY <1>2, <1>4, <1>5, <1>7

\* Reading a trojan link.
LEMMA TrojanRead ==
  ASSUME NEW l, l.scheme = "trojan"
  PROVE  LET q == Trojan(l)
             ok == l.address # Empty /\ l.user # Empty /\ TransportOK(l) /\ Valid(q)
         IN
         /\ ok => ParseLink(l) = q /\ q # Refused
         /\ ~ok => ParseLink(l) = Refused
         /\ MadeFor(q, "trojan", l, PortOr(l.port, 443))
         /\ q.pass = l.user /\ TLSRead(q, TRUE, l, l.address) /\ TransportRead(q, l)
<1> DEFINE x == Transport(TLS([Found EXCEPT !.pass = l.user], TRUE, l, l.address), l)
           name == SplitFragment(l.name)
           port == PortOr(l.port, 443)
           q == Made("trojan", name, l, port, x)
<1>1. ParseLink(l) = ParseTrojan(l)
  BY DEF ParseLink
<1>2. ParseLink(l) = IF l.address # Empty /\ l.user # Empty /\ TransportOK(l)
                     THEN NewProfile("trojan", name, l, port, x) ELSE Refused
  BY <1>1 DEF ParseTrojan
<1>3. x.pass = l.user /\ TLSRead(x, TRUE, l, l.address) /\ TransportRead(x, l)
  BY TrojanIs
<1>4. q = Trojan(l)
  BY DEF Trojan
<1> HIDE DEF x, name, port
<1>5. /\ NewProfile("trojan", name, l, port, x) = IF Valid(q) THEN q ELSE Refused
      /\ Valid(q) => q # Refused
  BY NewProfileIs
<1>6. MadeOf(q, "trojan", l.address, port, x)
  BY MadeIs
<1> HIDE DEF q
<1>7. MadeFor(q, "trojan", l, port) /\ q.pass = x.pass
  BY <1>6 DEF MadeOf, MadeFor, Copied
<1>8. \A f \in StreamFields : q[f] = x[f]
  BY <1>6 DEF MadeOf, Copied, StreamFields
<1>9. TLSRead(q, TRUE, l, l.address) /\ TransportRead(q, l)
  BY <1>3, <1>8, SameRead
<1> QED
  BY <1>2, <1>3, <1>4, <1>5, <1>7, <1>9 DEF port

\* Reading a socks5 or http link.
LEMMA UserPassRead ==
  ASSUME NEW l, l.scheme \in {"socks5", "http"}
  PROVE  LET q == UserPass(l)
             ok == l.address # Empty /\ Valid(q)
         IN
         /\ ok => ParseLink(l) = q /\ q # Refused
         /\ ~ok => ParseLink(l) = Refused
         /\ MadeFor(q, l.scheme, l, PortOr(l.port, 1080))
         /\ q.user = l.user /\ q.pass = l.pass /\ PlainRead(q)
<1> DEFINE x == [Found EXCEPT !.user = l.user, !.pass = l.pass]
           name == SplitFragment(l.name)
           port == PortOr(l.port, 1080)
           q == Made(l.scheme, name, l, port, x)
<1>1. ParseLink(l) = ParseUserPass(l)
  BY DEF ParseLink
<1>2. ParseLink(l) = IF l.address # Empty THEN NewProfile(l.scheme, name, l, port, x) ELSE Refused
  BY <1>1 DEF ParseUserPass
<1>3. x.user = l.user /\ x.pass = l.pass /\ x.tls = FALSE /\ x.net = "nil"
  <2>1. /\ DOMAIN Found = Fields /\ Found.net = "nil" /\ Found.tls = FALSE
        /\ {"user", "pass", "net", "tls"} \subseteq Fields
    BY DEF Found, Blank, Fields, Values
  <2> QED
    BY <2>1
<1>4. q = UserPass(l)
  BY DEF UserPass
<1> HIDE DEF x, name, port
<1>5. /\ NewProfile(l.scheme, name, l, port, x) = IF Valid(q) THEN q ELSE Refused
      /\ Valid(q) => q # Refused
  BY NewProfileIs
<1>6. MadeOf(q, l.scheme, l.address, port, x)
  BY MadeIs
<1> HIDE DEF q
<1>7. MadeFor(q, l.scheme, l, port) /\ q.user = l.user /\ q.pass = l.pass /\ PlainRead(q)
  BY <1>3, <1>6 DEF MadeOf, MadeFor, PlainRead, Copied
<1> QED
  BY <1>2, <1>4, <1>5, <1>7 DEF port
-----------------------------------------------------------------------------
(* Writing links.                                                          *)

\* The link of profile p has its address and its stream's options.
PlaceWritten(l, p) == l.form = "url" /\ l.address = p.address /\ l.port = p.port /\ l.plugin = FALSE

StreamWritten(l, p) ==
    /\ l.security = (IF p.tls THEN "tls" ELSE "none")
    /\ l.sni = p.sni /\ l.alpn = p.alpn /\ l.fp = p.fp /\ l.insecure = p.insecure /\ l.packet = p.packet
    /\ p.net = "ws" => l.type = "ws" /\ l.path = p.path /\ l.host = p.host
    /\ p.net # "ws" => l.type = Empty /\ l.path = Empty /\ l.host = Empty

LinkFields == {"scheme", "form", "user", "pass", "address", "port", "name", "security", "sni", "alpn", "fp",
               "insecure", "type", "path", "host", "packet", "encryption", "flow", "padding", "authLen",
               "plugin"}

\* What streamQuery adds to a link.
LEMMA StreamQueryIs ==
  ASSUME NEW scheme, NEW user, NEW p
  PROVE  LET l == StreamQuery(BareLink(scheme, user, Empty, p), p) IN
         /\ DOMAIN l = LinkFields /\ l.scheme = scheme /\ l.user = user
         /\ PlaceWritten(l, p) /\ StreamWritten(l, p)
<1> DEFINE b == BareLink(scheme, user, Empty, p)
           sec == IF p.tls THEN "tls" ELSE "none"
           ty == IF p.net = "ws" THEN "ws" ELSE Empty
           pa == IF p.net = "ws" THEN p.path ELSE Empty
           ho == IF p.net = "ws" THEN p.host ELSE Empty
           l == StreamQuery(b, p)
<1>1. /\ DOMAIN b = LinkFields /\ b.scheme = scheme /\ b.user = user /\ b.form = "url"
      /\ b.address = p.address /\ b.port = p.port /\ b.plugin = FALSE
  BY DEF BareLink, LinkFields
<1>2. l = [b EXCEPT !.security = sec, !.sni = p.sni, !.alpn = p.alpn, !.fp = p.fp, !.insecure = p.insecure,
                    !.type = ty, !.path = pa, !.host = ho, !.packet = p.packet]
  BY DEF StreamQuery
<1>3. /\ sec = (IF p.tls THEN "tls" ELSE "none")
      /\ p.net = "ws" => ty = "ws" /\ pa = p.path /\ ho = p.host
      /\ p.net # "ws" => ty = Empty /\ pa = Empty /\ ho = Empty
  OBVIOUS
<1>4. l = StreamQuery(BareLink(scheme, user, Empty, p), p)
  OBVIOUS
<1> HIDE DEF l, b, sec, ty, pa, ho
<1>5. /\ DOMAIN l = LinkFields /\ l.scheme = b.scheme /\ l.user = b.user /\ l.form = b.form
      /\ l.address = b.address /\ l.port = b.port /\ l.plugin = b.plugin
  BY <1>1, <1>2 DEF LinkFields
<1>6. /\ l.security = sec /\ l.sni = p.sni /\ l.alpn = p.alpn /\ l.fp = p.fp
  BY <1>1, <1>2 DEF LinkFields
<1>7. /\ l.insecure = p.insecure /\ l.type = ty /\ l.path = pa /\ l.host = ho /\ l.packet = p.packet
  BY <1>1, <1>2 DEF LinkFields
<1>8. PlaceWritten(l, p)
  BY <1>1, <1>5 DEF PlaceWritten
<1>9. StreamWritten(l, p)
  BY <1>3, <1>6, <1>7 DEF StreamWritten
<1> QED
  BY <1>1, <1>4, <1>5, <1>8, <1>9

\* Writing is about these fields only.
LEMMA SameWritten ==
  ASSUME NEW l, NEW b, NEW p,
         \A f \in LinkFields \ {"encryption", "flow", "padding", "authLen"} : l[f] = b[f]
  PROVE  /\ l.scheme = b.scheme /\ l.user = b.user
         /\ PlaceWritten(b, p) => PlaceWritten(l, p)
         /\ StreamWritten(b, p) => StreamWritten(l, p)
<1>1. /\ l.scheme = b.scheme /\ l.user = b.user /\ l.form = b.form /\ l.address = b.address
      /\ l.port = b.port /\ l.plugin = b.plugin
  BY DEF LinkFields
<1>2. /\ l.security = b.security /\ l.sni = b.sni /\ l.alpn = b.alpn /\ l.fp = b.fp
      /\ l.insecure = b.insecure /\ l.packet = b.packet
      /\ l.type = b.type /\ l.path = b.path /\ l.host = b.host
  BY DEF LinkFields
<1> QED
  BY <1>1, <1>2 DEF PlaceWritten, StreamWritten

\* The link of a profile.
LEMMA LinkIs ==
  ASSUME NEW p, Valid(p)
  PROVE  LET l == Link(p) IN
         /\ p.protocol = "vless" =>
               /\ l.scheme = "vless" /\ l.user = p.uuid /\ l.encryption = "none" /\ l.flow = p.flow
               /\ PlaceWritten(l, p) /\ StreamWritten(l, p)
         /\ p.protocol = "vmess" =>
               /\ l.scheme = "vmess" /\ l.user = p.uuid /\ l.padding = p.padding
               /\ l.encryption = (IF p.security = Empty THEN "auto" ELSE p.security)
               /\ PlaceWritten(l, p) /\ StreamWritten(l, p)
         /\ p.protocol = "trojan" =>
               l.scheme = "trojan" /\ l.user = p.pass /\ PlaceWritten(l, p) /\ StreamWritten(l, p)
         /\ p.protocol = "shadowsocks" =>
               l.scheme = "ss" /\ l.user = p.cipher /\ l.pass = p.pass /\ PlaceWritten(l, p)
         /\ p.protocol \in {"socks5", "http"} =>
               /\ l.scheme = p.protocol /\ l.user = p.user /\ PlaceWritten(l, p)
               /\ l.pass = (IF p.user = Empty THEN Empty ELSE p.pass)
         /\ p.protocol = "ssh" => l = Refused
<1> DEFINE l == Link(p)
<1>0. p.protocol \in Protocols /\ p.net # "grpc"
  BY DEF Valid
<1>1. ASSUME p.protocol = "vless"
      PROVE  /\ l.scheme = "vless" /\ l.user = p.uuid /\ l.encryption = "none" /\ l.flow = p.flow
             /\ PlaceWritten(l, p) /\ StreamWritten(l, p)
  <2> DEFINE b == StreamQuery(BareLink("vless", p.uuid, Empty, p), p)
  <2>1. l = [b EXCEPT !.encryption = "none", !.flow = p.flow]
    BY <1>0, <1>1 DEF Link, LinkVLESS
  <2>2. DOMAIN b = LinkFields /\ b.scheme = "vless" /\ b.user = p.uuid /\ PlaceWritten(b, p) /\ StreamWritten(b, p)
    BY StreamQueryIs
  <2> HIDE DEF l, b
  <2>3. l.encryption = "none" /\ l.flow = p.flow /\ \A f \in LinkFields \ {"encryption", "flow"} : l[f] = b[f]
    BY <2>1, <2>2 DEF LinkFields
  <2> QED
    BY <2>2, <2>3, SameWritten
<1>2. ASSUME p.protocol = "vmess"
      PROVE  /\ l.scheme = "vmess" /\ l.user = p.uuid /\ l.padding = p.padding
             /\ l.encryption = (IF p.security = Empty THEN "auto" ELSE p.security)
             /\ PlaceWritten(l, p) /\ StreamWritten(l, p)
  <2> DEFINE b == StreamQuery(BareLink("vmess", p.uuid, Empty, p), p)
             enc == IF p.security = Empty THEN "auto" ELSE p.security
  <2>1. l = [b EXCEPT !.encryption = enc, !.padding = p.padding, !.authLen = p.authLen]
    BY <1>0, <1>2 DEF Link, LinkVMess
  <2>2. DOMAIN b = LinkFields /\ b.scheme = "vmess" /\ b.user = p.uuid /\ PlaceWritten(b, p) /\ StreamWritten(b, p)
    BY StreamQueryIs
  <2> HIDE DEF l, b, enc
  <2>3. /\ l.encryption = enc /\ l.padding = p.padding
        /\ \A f \in LinkFields \ {"encryption", "flow", "padding", "authLen"} : l[f] = b[f]
    BY <2>1, <2>2 DEF LinkFields
  <2> QED
    BY <2>2, <2>3, SameWritten DEF enc
<1>3. ASSUME p.protocol = "trojan"
      PROVE  l.scheme = "trojan" /\ l.user = p.pass /\ PlaceWritten(l, p) /\ StreamWritten(l, p)
  <2>1. l = StreamQuery(BareLink("trojan", p.pass, Empty, p), p)
    BY <1>0, <1>3 DEF Link, LinkTrojan
  <2> QED
    BY <2>1, StreamQueryIs
<1>4. ASSUME p.protocol = "shadowsocks"
      PROVE  l.scheme = "ss" /\ l.user = p.cipher /\ l.pass = p.pass /\ PlaceWritten(l, p)
  <2>1. l = BareLink("ss", p.cipher, p.pass, p)
    BY <1>4 DEF Link, LinkShadowsocks
  <2> QED
    BY <2>1 DEF BareLink, PlaceWritten
<1>5. ASSUME p.protocol \in {"socks5", "http"}
      PROVE  /\ l.scheme = p.protocol /\ l.user = p.user /\ PlaceWritten(l, p)
             /\ l.pass = (IF p.user = Empty THEN Empty ELSE p.pass)
  <2> DEFINE w == IF p.user = Empty THEN Empty ELSE p.pass
  <2>1. l = BareLink(p.protocol, p.user, w, p)
    BY <1>5 DEF Link, LinkUserPass
  <2> HIDE DEF w
  <2>2. l.scheme = p.protocol /\ l.user = p.user /\ PlaceWritten(l, p) /\ l.pass = w
    BY <2>1 DEF BareLink, PlaceWritten
  <2> QED
    BY <2>2 DEF w
<1>6. ASSUME p.protocol = "ssh" PROVE l = Refused
  BY <1>6 DEF Link
<1> QED
  BY <1>1, <1>2, <1>3, <1>4, <1>5, <1>6
-----------------------------------------------------------------------------
(* What is dialled.                                                        *)

\* Each protocol dials with the options it has, and no other option matters.
Alike(p, q) ==
    /\ q.protocol = p.protocol /\ q.address = p.address /\ q.port = p.port
    /\ p.protocol \in {"vless", "vmess"} => q.uuid = p.uuid /\ q.packet = p.packet
    /\ p.protocol = "vless" => q.flow = p.flow
    /\ p.protocol = "vmess" =>
          /\ q.padding = p.padding /\ q.authLen = p.authLen
          /\ (IF q.security = Empty THEN "auto" ELSE q.security) =
             (IF p.security = Empty THEN "auto" ELSE p.security)
    /\ p.protocol \in {"trojan", "shadowsocks", "socks5", "http"} => q.pass = p.pass
    /\ p.protocol = "shadowsocks" => q.cipher = p.cipher
    /\ p.protocol \in {"socks5", "http"} => q.user = p.user
    /\ p.protocol \in {"vless", "vmess", "trojan"} => TransportIfEnabled(q) = TransportIfEnabled(p)
    /\ p.protocol \in {"vless", "vmess", "trojan", "http"} => TLSIfEnabled(q) = TLSIfEnabled(p)

\* The outbound of the core, field by field.
LEMMA CoreIs ==
  ASSUME NEW p, p.protocol \in Protocols \ {"ssh"}
  PROVE  LET ob == CoreOutbound(p) IN
         /\ ob.protocol = (IF p.protocol = "socks5" THEN "socks" ELSE p.protocol)
         /\ ob.address = p.address /\ ob.port = p.port % 65536
         /\ ob.user = p.user /\ ob.pass = p.pass /\ ob.cipher = p.cipher /\ ob.uuid = p.uuid
         /\ ob.flow = p.flow /\ ob.security = p.security /\ ob.padding = p.padding
         /\ ob.authLen = p.authLen /\ ob.packet = p.packet
         /\ ob.transport = TransportIfEnabled(p)
         /\ p.protocol \in {"vless", "vmess", "trojan", "http"} => ob.tls = TLSIfEnabled(p)
<1>1. p.protocol # "ssh"
  OBVIOUS
<1> QED
  BY <1>1 DEF CoreOutbound, EngineProtocol

\* Profiles that are alike dial alike.
LEMMA AlikeDial ==
  ASSUME NEW p, NEW q, p.protocol \in Protocols \ {"ssh"}, Alike(p, q)
  PROVE  Dials(q) = Dials(p)
<1> DEFINE a == CoreOutbound(p)
           b == CoreOutbound(q)
           ServerOf(ob, k) == [Outbound(k, "proxy") EXCEPT !.server = ob.address, !.port = ob.port]
<1>0. Dials(p) = BuildOutbound(a) /\ Dials(q) = BuildOutbound(b)
  BY DEF Dials
<1>1. /\ a.protocol = (IF p.protocol = "socks5" THEN "socks" ELSE p.protocol) /\ b.protocol = a.protocol
      /\ a.address = b.address /\ a.port = b.port
  BY CoreIs DEF Alike
<1>2. CASE p.protocol = "vless"
  <2>1. /\ a.uuid = b.uuid /\ a.flow = b.flow /\ a.packet = b.packet
        /\ a.tls = b.tls /\ a.transport = b.transport
    BY <1>2, CoreIs DEF Alike
  <2> HIDE DEF a, b
  <2> QED
    BY <1>0, <1>1, <1>2, <2>1 DEF BuildOutbound
<1>3. CASE p.protocol = "vmess"
  <2> DEFINE sa == IF a.security = Empty THEN "auto" ELSE a.security
             sb == IF b.security = Empty THEN "auto" ELSE b.security
  <2>1. /\ a.uuid = b.uuid /\ a.packet = b.packet /\ a.padding = b.padding /\ a.authLen = b.authLen
        /\ a.tls = b.tls /\ a.transport = b.transport
    BY <1>3, CoreIs DEF Alike
  <2>2. a.security = p.security /\ b.security = q.security
    BY <1>3, CoreIs DEF Alike
  <2>3. sa = sb
    BY <1>3, <2>2 DEF Alike
  <2>4. a.protocol = "vmess" /\ b.protocol = "vmess"
    BY <1>1, <1>3
  <2> HIDE DEF a, b
  <2>5. /\ BuildOutbound(a) = [ServerOf(a, a.protocol) EXCEPT !.uuid = a.uuid, !.packet = a.packet,
             !.security = sa, !.padding = a.padding, !.authLen = a.authLen, !.tls = a.tls, !.ws = a.transport]
        /\ BuildOutbound(b) = [ServerOf(b, b.protocol) EXCEPT !.uuid = b.uuid, !.packet = b.packet,
             !.security = sb, !.padding = b.padding, !.authLen = b.authLen, !.tls = b.tls, !.ws = b.transport]
    BY <2>4 DEF BuildOutbound
  <2> HIDE DEF sa, sb
  <2> QED
    BY <1>0, <1>1, <2>1, <2>3, <2>5
<1>4. CASE p.protocol = "trojan"
  <2>1. a.pass = b.pass /\ a.tls = b.tls /\ a.transport = b.transport
    BY <1>4, CoreIs DEF Alike
  <2> HIDE DEF a, b
  <2> QED
    BY <1>0, <1>1, <1>4, <2>1 DEF BuildOutbound
<1>5. CASE p.protocol = "shadowsocks"
  <2>1. a.pass = b.pass /\ a.cipher = b.cipher
    BY <1>5, CoreIs DEF Alike
  <2> HIDE DEF a, b
  <2> QED
    BY <1>0, <1>1, <1>5, <2>1 DEF BuildOutbound
<1>6. CASE p.protocol = "socks5"
  <2>1. a.pass = b.pass /\ a.user = b.user /\ a.protocol = "socks" /\ b.protocol = "socks"
    BY <1>1, <1>6, CoreIs DEF Alike
  <2> HIDE DEF a, b
  <2> QED
    BY <1>0, <1>1, <2>1 DEF BuildOutbound
<1>7. CASE p.protocol = "http"
  <2>1. a.pass = b.pass /\ a.user = b.user /\ a.tls = b.tls
    BY <1>7, CoreIs DEF Alike
  <2> HIDE DEF a, b
  <2> QED
    BY <1>0, <1>1, <1>7, <2>1 DEF BuildOutbound
<1> QED
  BY <1>2, <1>3, <1>4, <1>5, <1>6, <1>7 DEF Protocols

\* What a dialled outbound carries.
LEMMA DialsWith ==
  ASSUME NEW p, Valid(p), p.protocol # "ssh"
  PROVE  LET o == Dials(p) IN
         /\ o.uuid = (IF p.protocol \in {"vless", "vmess"} THEN p.uuid ELSE Empty)
         /\ o.method = (IF p.protocol = "shadowsocks" THEN p.cipher ELSE Empty)
         /\ o.user = (IF p.protocol \in {"socks5", "http"} THEN p.user ELSE Empty)
         /\ o.pass = (IF p.protocol \in {"trojan", "shadowsocks", "socks5", "http"} THEN p.pass ELSE Empty)
         /\ o.tls = (IF p.protocol \in {"vless", "vmess", "trojan", "http"} THEN TLSIfEnabled(p) ELSE NoTLS)
<1> DEFINE ob == CoreOutbound(p)
           Server(k) == [Outbound(k, "proxy") EXCEPT !.server = ob.address, !.port = ob.port]
<1>0. Dials(p) = BuildOutbound(ob) /\ p.protocol \in Protocols \ {"ssh"}
  BY ValidIs DEF Dials
<1>1. /\ ob.protocol = (IF p.protocol = "socks5" THEN "socks" ELSE p.protocol)
      /\ ob.user = p.user /\ ob.pass = p.pass /\ ob.cipher = p.cipher /\ ob.uuid = p.uuid
      /\ p.protocol \in {"vless", "vmess", "trojan", "http"} => ob.tls = TLSIfEnabled(p)
  BY <1>0, CoreIs
<1> HIDE DEF ob
<1>2. CASE p.protocol = "vless"
  BY <1>0, <1>1, <1>2 DEF BuildOutbound, Outbound
<1>3. CASE p.protocol = "vmess"
  <2> DEFINE sec == IF ob.security = Empty THEN "auto" ELSE ob.security
  <2>1. BuildOutbound(ob) = [Server("vmess") EXCEPT !.uuid = ob.uuid, !.packet = ob.packet,
             !.security = sec, !.padding = ob.padding, !.authLen = ob.authLen, !.tls = ob.tls, !.ws = ob.transport]
    BY <1>1, <1>3 DEF BuildOutbound
  <2> HIDE DEF sec
  <2> QED
    BY <1>0, <1>1, <1>3, <2>1 DEF Outbound
<1>4. CASE p.protocol = "trojan"
  BY <1>0, <1>1, <1>4 DEF BuildOutbound, Outbound
<1>5. CASE p.protocol = "shadowsocks"
  BY <1>0, <1>1, <1>5 DEF BuildOutbound, Outbound
<1>6. CASE p.protocol = "socks5"
  <2>1. ob.protocol = "socks"
    BY <1>1, <1>6
  <2>2. BuildOutbound(ob) = [Server("socks") EXCEPT !.user = ob.user, !.pass = ob.pass]
    BY <2>1 DEF BuildOutbound
  <2> QED
    BY <1>0, <1>1, <1>6, <2>2 DEF Outbound
<1>7. CASE p.protocol = "http"
  BY <1>0, <1>1, <1>7 DEF BuildOutbound, Outbound
<1> QED
  BY <1>0, <1>2, <1>3, <1>4, <1>5, <1>6, <1>7 DEF Protocols
-----------------------------------------------------------------------------
(* From a link to a profile and back.                                      *)

\* What a profile read from a link is like.
FromLink(p) ==
    /\ DOMAIN p = Fields /\ Valid(p) /\ p.protocol \in Protocols \ {"ssh"}
    /\ p.early = 0 /\ p.authLen = FALSE
    /\ p.protocol \in {"vless", "vmess"} =>
          /\ p.tls = TRUE \/ p.tls = FALSE
          /\ p.tls = TRUE /\ p.sni = Empty /\ p.net = "ws" => p.host = Empty
    /\ p.protocol = "trojan" => p.tls = TRUE /\ p.sni # Empty
    /\ p.protocol \in {"socks5", "http"} => p.tls = FALSE
    /\ p.protocol = "shadowsocks" => p.address # "ipv6"

\* What the parser accepts is like that.
LEMMA AcceptedIs ==
  ASSUME NEW l, NEW q, q = ParseLink(l), q # Refused
  PROVE  FromLink(q)
<1>1. CASE l.scheme = "vless"
  <2>1. /\ q = VLess(l) /\ Valid(q) /\ MadeFor(q, "vless", l, PortOr(l.port, 443)) /\ StreamRead(q, l)
    BY <1>1, VLessRead
  <2> QED
    BY <2>1 DEF FromLink, MadeFor, StreamRead, TLSRead, TransportRead, Protocols
<1>2. CASE l.scheme = "vmess"
  <2>1. /\ q = VMess(l) /\ Valid(q) /\ StreamRead(q, l)
        /\ MadeFor(q, "vmess", l, IF l.form = "b64" THEN l.port ELSE PortOr(l.port, 443))
    BY <1>2, VMessRead
  <2> QED
    BY <2>1 DEF FromLink, MadeFor, StreamRead, TLSRead, TransportRead, Protocols
<1>3. CASE l.scheme = "ss"
  <2>1. q = Shadowsocks(l) /\ Valid(q) /\ MadeFor(q, "shadowsocks", l, l.port) /\ l.address # "ipv6"
    BY <1>3, ShadowsocksRead
  <2> QED
    BY <2>1 DEF FromLink, MadeFor, Protocols
<1>4. CASE l.scheme = "trojan"
  <2>1. /\ q = Trojan(l) /\ Valid(q) /\ MadeFor(q, "trojan", l, PortOr(l.port, 443))
        /\ TLSRead(q, TRUE, l, l.address) /\ l.address # Empty
    BY <1>4, TrojanRead
  <2> QED
    BY <2>1 DEF FromLink, MadeFor, TLSRead, Protocols
<1>5. CASE l.scheme \in {"socks5", "http"}
  <2>1. /\ q = UserPass(l) /\ Valid(q) /\ MadeFor(q, l.scheme, l, PortOr(l.port, 1080)) /\ PlainRead(q)
    <3>1. MadeFor(UserPass(l), l.scheme, l, PortOr(l.port, 1080)) /\ PlainRead(UserPass(l))
      BY <1>5, UserPassRead
    <3>2. q = UserPass(l) /\ Valid(UserPass(l))
      BY <1>5, UserPassRead
    <3> QED
      BY <3>1, <3>2
  <2> QED
    BY <1>5, <2>1 DEF FromLink, MadeFor, PlainRead, Protocols
<1>6. l.scheme \in {"vless", "vmess", "ss", "trojan", "socks5", "http"}
  BY DEF ParseLink
<1> QED
  BY <1>1, <1>2, <1>3, <1>4, <1>5, <1>6

\* Storing it, enabled, changes nothing of that.
LEMMA EnabledIs ==
  ASSUME NEW q, DOMAIN q = Fields
  PROVE  LET p == [q EXCEPT !.enabled = TRUE] IN
         /\ DOMAIN p = Fields /\ (Valid(p) <=> Valid(q))
         /\ FromLink(q) => FromLink(p)
         /\ \A f \in Fields \ {"enabled"} : p[f] = q[f]
<1> DEFINE p == [q EXCEPT !.enabled = TRUE]
<1>1. DOMAIN p = Fields /\ \A f \in Fields \ {"enabled"} : p[f] = q[f]
  OBVIOUS
<1> HIDE DEF p
<1>2. /\ p.name = q.name /\ p.address = q.address /\ p.port = q.port /\ p.protocol = q.protocol
      /\ p.uuid = q.uuid /\ p.pass = q.pass /\ p.cipher = q.cipher /\ p.sshUser = q.sshUser
      /\ p.key = q.key /\ p.net = q.net /\ p.reality = q.reality
      /\ p.early = q.early /\ p.authLen = q.authLen /\ p.tls = q.tls /\ p.sni = q.sni /\ p.host = q.host
  <2>1. {"name", "address", "port", "protocol", "uuid", "pass", "cipher", "sshUser", "key", "net", "reality",
         "early", "authLen", "tls", "sni", "host"} \subseteq Fields \ {"enabled"}
    BY DEF Fields, Values
  <2> QED
    BY <1>1, <2>1
<1>3. Valid(p) <=> Valid(q)
  BY <1>2 DEF Valid
<1>4. FromLink(q) => FromLink(p)
  BY <1>1, <1>2, <1>3 DEF FromLink
<1> QED
  BY <1>1, <1>3, <1>4 DEF p

\* What was written of a stream can be read.
LEMMA StreamFits ==
  ASSUME NEW p, Valid(p), NEW l, PlaceWritten(l, p), StreamWritten(l, p)
  PROVE  /\ TransportOK(l) /\ l.address # Empty /\ l.security # "reality"
         /\ PortOr(l.port, 443) = p.port
<1>1. p.address # Empty /\ p.port # 0
  BY ValidIs
<1>2. l.security \in {"tls", "none"} /\ l.address = p.address /\ l.port = p.port
  BY DEF StreamWritten, PlaceWritten
<1>3. TransportOK(l)
  BY DEF TransportOK, StreamWritten
<1> QED
  BY <1>1, <1>2, <1>3 DEF PortOr

\* What was written of a transport is read again, but for its early data.
LEMMA TransportBack ==
  ASSUME NEW p, NEW q, NEW l, StreamWritten(l, p), TransportRead(q, l), q.early = p.early
  PROVE  /\ TransportIfEnabled(q) = TransportIfEnabled(p)
         /\ q.net \in {"nil", "ws"}
<1>1. CASE p.net = "ws"
  BY <1>1 DEF StreamWritten, TransportRead, TransportIfEnabled
<1>2. CASE p.net # "ws"
  BY <1>2 DEF StreamWritten, TransportRead, TransportIfEnabled, Empty
<1> QED
  BY <1>1, <1>2

\* An accepted link that goes out and comes back is read, and read alike.
LEMMA RoundTrip ==
  ASSUME NEW p, FromLink(p),
         ~ (p.pass # Empty /\ p.user = Empty /\ p.protocol \in {"socks5", "http"})
  PROVE  LET q == ParseLink(Link(p)) IN q # Refused /\ Alike(p, q)
<1> DEFINE l == Link(p)
           q == ParseLink(l)
<1>0. /\ Valid(p) /\ p.protocol \in Protocols \ {"ssh"} /\ p.early = 0 /\ p.authLen = FALSE
      /\ p.address # Empty /\ p.port # 0 /\ ValidPort(p.port)
  BY ValidIs DEF FromLink, Valid
<1>1. CASE p.protocol \in {"vless", "vmess"}
  <2> DEFINE r == IF p.protocol = "vless" THEN VLess(l) ELSE VMess(l)
  <2>1. /\ l.user = p.uuid /\ p.uuid # Empty /\ PlaceWritten(l, p) /\ StreamWritten(l, p)
        /\ p.protocol = "vless" => l.scheme = "vless" /\ l.encryption = "none" /\ l.flow = p.flow
        /\ p.protocol = "vmess" =>
              /\ l.scheme = "vmess" /\ l.padding = p.padding
              /\ l.encryption = (IF p.security = Empty THEN "auto" ELSE p.security)
    BY <1>0, <1>1, LinkIs DEF Valid
  <2>2. StreamOK(l) /\ PortOr(l.port, 443) = p.port /\ l.form = "url" /\ l.address = p.address
    <3> HIDE DEF l
    <3>1. /\ TransportOK(l) /\ l.address # Empty /\ l.security # "reality" /\ PortOr(l.port, 443) = p.port
      BY <1>0, <2>1, StreamFits
    <3> QED
      BY <2>1, <3>1 DEF StreamOK, PlaceWritten
  <2>3. /\ MadeFor(r, p.protocol, l, p.port) /\ StreamRead(r, l)
        /\ p.protocol = "vless" => r.flow = p.flow
        /\ p.protocol = "vmess" =>
              r.padding = p.padding /\ r.security = (IF l.encryption # Empty THEN l.encryption ELSE "auto")
        /\ Valid(r) => q = r /\ r # Refused
    <3>1. CASE p.protocol = "vless"
      <4>1. r = VLess(l)
        BY <3>1
      <4> HIDE DEF l, r
      <4> QED
        BY <2>1, <2>2, <3>1, <4>1, VLessRead
    <3>2. CASE p.protocol = "vmess"
      <4>1. r = VMess(l)
        BY <3>2
      <4> HIDE DEF l, r
      <4> QED
        BY <2>1, <2>2, <3>2, <4>1, VMessRead
    <3> QED
      BY <1>1, <3>1, <3>2
  <2> HIDE DEF l, q, r
  <2>4. r.uuid = p.uuid /\ r.packet = p.packet /\ r.early = p.early /\ r.authLen = p.authLen
    BY <1>0, <2>1, <2>3 DEF StreamRead, StreamWritten, MadeFor
  <2>5. TransportIfEnabled(r) = TransportIfEnabled(p) /\ r.net \in {"nil", "ws"}
    BY <2>1, <2>3, <2>4, TransportBack DEF StreamRead
  <2>6. Valid(r)
    BY <1>0, <1>1, <2>1, <2>2, <2>3, <2>4, <2>5 DEF Valid, MadeFor
  <2>7. TLSIfEnabled(r) = TLSIfEnabled(p)
    <3>1. TLSRead(r, l.security = "tls", l, l.host)
      BY <2>3 DEF StreamRead
    <3>2. CASE p.tls = TRUE
      <4>1. l.security = "tls" /\ l.sni = p.sni /\ (p.sni = Empty => l.host = Empty)
        BY <1>1, <2>1, <3>2 DEF StreamWritten, FromLink
      <4>2. r.tls = TRUE /\ r.sni = p.sni /\ r.alpn = p.alpn /\ r.fp = p.fp /\ r.insecure = p.insecure
        BY <2>1, <3>1, <4>1 DEF TLSRead, StreamWritten
      <4> QED
        BY <3>2, <4>2 DEF TLSIfEnabled
    <3>3. CASE p.tls = FALSE
      <4>1. l.security = "none"
        BY <2>1, <3>3 DEF StreamWritten
      <4>2. r.tls = FALSE
        BY <3>1, <4>1 DEF TLSRead
      <4> QED
        BY <3>3, <4>2 DEF TLSIfEnabled
    <3> QED
      BY <1>1, <3>2, <3>3 DEF FromLink
  <2>8. p.protocol = "vmess" => (IF r.security = Empty THEN "auto" ELSE r.security) =
                                (IF p.security = Empty THEN "auto" ELSE p.security)
    BY <2>1, <2>3 DEF Empty
  <2>9. Alike(p, r)
    BY <1>1, <2>2, <2>3, <2>4, <2>5, <2>7, <2>8 DEF Alike, MadeFor
  <2> QED
    BY <2>3, <2>6, <2>9 DEF q, l
<1>2. CASE p.protocol = "trojan"
  <2>1. /\ l.scheme = "trojan" /\ l.user = p.pass /\ p.pass # Empty
        /\ PlaceWritten(l, p) /\ StreamWritten(l, p)
    BY <1>0, <1>2, LinkIs DEF Valid
  <2>2. /\ TransportOK(l) /\ PortOr(l.port, 443) = p.port /\ l.address = p.address
    <3> HIDE DEF l
    <3>1. TransportOK(l) /\ PortOr(l.port, 443) = p.port
      BY <1>0, <2>1, StreamFits
    <3> QED
      BY <2>1, <3>1 DEF PlaceWritten
  <2> DEFINE r == Trojan(l)
  <2> HIDE DEF l
  <2>3. /\ MadeFor(r, "trojan", l, p.port) /\ r.pass = p.pass
        /\ TLSRead(r, TRUE, l, l.address) /\ TransportRead(r, l)
        /\ Valid(r) => q = r /\ r # Refused
    <3>1. /\ MadeFor(r, "trojan", l, PortOr(l.port, 443)) /\ r.pass = l.user
          /\ TLSRead(r, TRUE, l, l.address) /\ TransportRead(r, l)
      BY <2>1, TrojanRead
    <3>2. Valid(r) => q = r /\ r # Refused
      BY <1>0, <2>1, <2>2, TrojanRead
    <3> QED
      BY <2>1, <2>2, <3>1, <3>2
  <2> HIDE DEF q, r
  <2>4. TransportIfEnabled(r) = TransportIfEnabled(p) /\ r.net \in {"nil", "ws"}
    BY <1>0, <2>1, <2>3, TransportBack DEF MadeFor
  <2>5. Valid(r)
    BY <1>0, <2>1, <2>2, <2>3, <2>4 DEF Valid, MadeFor, Protocols
  <2>6. TLSIfEnabled(r) = TLSIfEnabled(p)
    <3>1. p.tls = TRUE /\ l.sni = p.sni /\ p.sni # Empty
      BY <1>2, <2>1 DEF FromLink, StreamWritten
    <3>2. r.tls = TRUE /\ r.sni = p.sni /\ r.alpn = p.alpn /\ r.fp = p.fp /\ r.insecure = p.insecure
      BY <2>1, <2>3, <3>1 DEF TLSRead, StreamWritten
    <3> QED
      BY <3>1, <3>2 DEF TLSIfEnabled
  <2>7. Alike(p, r)
    BY <1>2, <2>2, <2>3, <2>4, <2>6 DEF Alike, MadeFor
  <2> QED
    BY <2>3, <2>5, <2>7 DEF q, l
<1>3. CASE p.protocol = "shadowsocks"
  <2>1. /\ l.scheme = "ss" /\ l.user = p.cipher /\ l.pass = p.pass /\ PlaceWritten(l, p)
        /\ p.cipher # Empty /\ p.pass # Empty /\ p.address # "ipv6"
    BY <1>0, <1>3, LinkIs DEF Valid, FromLink
  <2>2. l.address = p.address /\ l.port = p.port /\ l.plugin = FALSE
    BY <2>1 DEF PlaceWritten
  <2> DEFINE r == Shadowsocks(l)
  <2> HIDE DEF l
  <2>3. /\ MadeFor(r, "shadowsocks", l, p.port) /\ r.pass = p.pass /\ r.cipher = p.cipher /\ r.net = "nil"
        /\ Valid(r) => q = r /\ r # Refused
    BY <1>0, <2>1, <2>2, ShadowsocksRead
  <2> HIDE DEF q, r
  <2>4. Valid(r)
    BY <1>0, <2>1, <2>2, <2>3 DEF Valid, MadeFor, Protocols
  <2>5. Alike(p, r)
    BY <1>3, <2>2, <2>3 DEF Alike, MadeFor
  <2> QED
    BY <2>3, <2>4, <2>5 DEF q, l
<1>4. CASE p.protocol \in {"socks5", "http"}
  <2>1. /\ l.scheme = p.protocol /\ l.user = p.user /\ PlaceWritten(l, p) /\ l.pass = p.pass
    BY <1>0, <1>4, LinkIs
  <2>2. l.address = p.address /\ l.port = p.port /\ PortOr(l.port, 1080) = p.port
    BY <1>0, <2>1 DEF PlaceWritten, PortOr
  <2> DEFINE r == UserPass(l)
  <2> HIDE DEF l
  <2>3. /\ MadeFor(r, p.protocol, l, p.port) /\ r.pass = p.pass /\ r.user = p.user
        /\ PlainRead(r)
        /\ Valid(r) => q = r /\ r # Refused
    <3>0. l.scheme \in {"socks5", "http"}
      BY <1>4, <2>1
    <3>1. /\ MadeFor(r, l.scheme, l, PortOr(l.port, 1080)) /\ r.pass = l.pass /\ r.user = l.user
          /\ PlainRead(r)
      BY <3>0, UserPassRead
    <3>2. Valid(r) => q = r /\ r # Refused
      BY <1>0, <2>2, <3>0, UserPassRead
    <3> QED
      BY <2>1, <2>2, <3>1, <3>2
  <2> HIDE DEF q, r
  <2>4. Valid(r)
    BY <1>0, <1>4, <2>2, <2>3 DEF Valid, MadeFor, PlainRead
  <2>5. TLSIfEnabled(r) = TLSIfEnabled(p)
    BY <1>4, <2>3 DEF FromLink, TLSIfEnabled, PlainRead
  <2>6. Alike(p, r)
    BY <1>4, <2>2, <2>3, <2>5 DEF Alike, MadeFor
  <2> QED
    BY <2>3, <2>4, <2>6 DEF q, l
<1> QED
  BY <1>0, <1>1, <1>2, <1>3, <1>4 DEF Protocols
-----------------------------------------------------------------------------
(* Out and back.                                                           *)

\* Outbound n is no less safe than o: NeverWeakened, of one profile.
NotWeaker(o, n) ==
    /\ n.type = o.type /\ n.server = o.server /\ n.port = o.port
    /\ n.uuid = o.uuid /\ n.method = o.method /\ n.user = o.user
    /\ o.pass # n.pass => o.user = Empty /\ o.type \in {"socks", "http"}
    /\ o.tls.on /\ o.type # "http" =>
          /\ n.tls.on
          /\ n.tls.insecure => o.tls.insecure
          /\ o.tls.sni # Empty => n.tls.sni = o.tls.sni

\* The options of TLS that are not lost on the way.
TLSKept(p, q) ==
    p.tls = TRUE => /\ q.tls = TRUE /\ q.insecure = p.insecure
                    /\ p.sni # Empty => q.sni = p.sni

\* Two profiles with the same credentials, of which one has the other's TLS.
LEMMA KeptIsSafe ==
  ASSUME NEW p, Valid(p), NEW q, Valid(q), p.protocol # "ssh",
         q.protocol = p.protocol, q.address = p.address, q.port = p.port,
         p.tls = TRUE \/ p.tls = FALSE, p.insecure = TRUE \/ p.insecure = FALSE,
         p.protocol \in {"vless", "vmess"} => q.uuid = p.uuid,
         p.protocol = "shadowsocks" => q.cipher = p.cipher,
         p.protocol \in {"socks5", "http"} => q.user = p.user /\ (p.user = Empty \/ q.pass = p.pass),
         p.protocol \in {"trojan", "shadowsocks"} => q.pass = p.pass,
         p.protocol \in {"vless", "vmess", "trojan"} => TLSKept(p, q)
  PROVE  NotWeaker(Dials(p), Dials(q))
<1> DEFINE o == Dials(p)
           n == Dials(q)
           ty == IF p.protocol = "socks5" THEN "socks" ELSE p.protocol
<1>1. o.type = ty /\ n.type = ty /\ n.server = o.server /\ n.port = o.port
  BY DialsOwnServer
<1>2. /\ o.uuid = (IF p.protocol \in {"vless", "vmess"} THEN p.uuid ELSE Empty)
      /\ o.method = (IF p.protocol = "shadowsocks" THEN p.cipher ELSE Empty)
      /\ o.user = (IF p.protocol \in {"socks5", "http"} THEN p.user ELSE Empty)
      /\ o.pass = (IF p.protocol \in {"trojan", "shadowsocks", "socks5", "http"} THEN p.pass ELSE Empty)
      /\ o.tls = (IF p.protocol \in {"vless", "vmess", "trojan", "http"} THEN TLSIfEnabled(p) ELSE NoTLS)
  BY DialsWith
<1>3. /\ n.uuid = (IF p.protocol \in {"vless", "vmess"} THEN q.uuid ELSE Empty)
      /\ n.method = (IF p.protocol = "shadowsocks" THEN q.cipher ELSE Empty)
      /\ n.user = (IF p.protocol \in {"socks5", "http"} THEN q.user ELSE Empty)
      /\ n.pass = (IF p.protocol \in {"trojan", "shadowsocks", "socks5", "http"} THEN q.pass ELSE Empty)
      /\ n.tls = (IF p.protocol \in {"vless", "vmess", "trojan", "http"} THEN TLSIfEnabled(q) ELSE NoTLS)
  BY DialsWith
<1> HIDE DEF o, n
<1>4. n.uuid = o.uuid /\ n.method = o.method /\ n.user = o.user
  BY <1>2, <1>3
<1>5. o.pass # n.pass => o.user = Empty /\ o.type \in {"socks", "http"}
  BY <1>1, <1>2, <1>3
<1>6. ASSUME o.tls.on, o.type # "http"
      PROVE  n.tls.on /\ (n.tls.insecure => o.tls.insecure) /\ (o.tls.sni # Empty => n.tls.sni = o.tls.sni)
  <2>1. p.protocol \in {"vless", "vmess", "trojan"}
    BY <1>1, <1>2, <1>6 DEF NoTLS
  <2>2. p.tls = TRUE
    BY <1>2, <1>6, <2>1 DEF TLSIfEnabled, NoTLS
  <2>3. q.tls = TRUE /\ q.insecure = p.insecure /\ (p.sni # Empty => q.sni = p.sni)
    BY <2>1, <2>2 DEF TLSKept
  <2>4. o.tls.sni = p.sni /\ n.tls.sni = q.sni /\ n.tls.on = TRUE
    BY <1>2, <1>3, <2>1, <2>2, <2>3 DEF TLSIfEnabled
  <2>5. o.tls.insecure = p.insecure /\ n.tls.insecure = p.insecure
    BY <1>2, <1>3, <2>1, <2>2, <2>3 DEF TLSIfEnabled
  <2> QED
    BY <2>3, <2>4, <2>5
<1>7. NotWeaker(o, n)
  BY <1>1, <1>4, <1>5, <1>6 DEF NotWeaker
<1> QED
  BY <1>7 DEF o, n

\* A profile that goes out as a link and is accepted when it comes back is not
\* weaker.
LEMMA LinkIsSafe ==
  ASSUME NEW p, Valid(p), Link(p) # Refused, NEW q, q = ParseLink(Link(p)), q # Refused,
         p.tls = TRUE \/ p.tls = FALSE, p.insecure = TRUE \/ p.insecure = FALSE
  PROVE  NotWeaker(Dials(p), Dials(q))
<1> DEFINE l == Link(p)
<1>0. p.protocol \in Protocols \ {"ssh"} /\ p.port # 0 /\ Valid(q)
  <2>1. p.protocol \in Protocols /\ p.port # 0
    BY ValidIs
  <2>2. p.protocol # "ssh"
    BY LinkIs
  <2>3. FromLink(q)
    BY AcceptedIs
  <2> QED
    BY <2>1, <2>2, <2>3 DEF FromLink
<1>1. CASE p.protocol \in {"vless", "vmess"}
  <2>1. /\ l.user = p.uuid /\ PlaceWritten(l, p) /\ StreamWritten(l, p) /\ l.scheme = p.protocol
    BY <1>1, LinkIs
  <2> HIDE DEF l
  <2>2. PortOr(l.port, 443) = p.port /\ l.form = "url" /\ l.address = p.address
    BY <1>0, <2>1 DEF PlaceWritten, PortOr
  <2>3. MadeFor(q, p.protocol, l, p.port) /\ StreamRead(q, l)
    <3>1. CASE p.protocol = "vless"
      BY <2>1, <2>2, <3>1, VLessRead DEF l
    <3>2. CASE p.protocol = "vmess"
      BY <2>1, <2>2, <3>2, VMessRead DEF l
    <3> QED
      BY <1>1, <3>1, <3>2
  <2>4. q.protocol = p.protocol /\ q.address = p.address /\ q.port = p.port /\ q.uuid = p.uuid
    BY <2>1, <2>2, <2>3 DEF MadeFor, StreamRead
  <2>5. TLSKept(p, q)
    <3>1. SUFFICES ASSUME p.tls = TRUE
                   PROVE  q.tls = TRUE /\ q.insecure = p.insecure /\ (p.sni # Empty => q.sni = p.sni)
      BY DEF TLSKept
    <3>2. l.security = "tls" /\ l.sni = p.sni /\ l.insecure = p.insecure
      BY <2>1, <3>1 DEF StreamWritten
    <3> QED
      BY <2>3, <3>2 DEF StreamRead, TLSRead
  <2> QED
    BY <1>0, <1>1, <2>4, <2>5, KeptIsSafe
<1>2. CASE p.protocol = "trojan"
  <2>1. l.scheme = "trojan" /\ l.user = p.pass /\ PlaceWritten(l, p) /\ StreamWritten(l, p)
    BY <1>2, LinkIs
  <2> HIDE DEF l
  <2>2. PortOr(l.port, 443) = p.port /\ l.address = p.address
    BY <1>0, <2>1 DEF PlaceWritten, PortOr
  <2>3. MadeFor(q, "trojan", l, p.port) /\ q.pass = l.user /\ TLSRead(q, TRUE, l, l.address)
    BY <2>1, <2>2, TrojanRead DEF l
  <2>4. q.protocol = p.protocol /\ q.address = p.address /\ q.port = p.port /\ q.pass = p.pass
    BY <1>2, <2>1, <2>2, <2>3 DEF MadeFor
  <2>5. TLSKept(p, q)
    BY <2>1, <2>3 DEF TLSKept, TLSRead, StreamWritten
  <2> QED
    BY <1>0, <1>2, <2>4, <2>5, KeptIsSafe
<1>3. CASE p.protocol = "shadowsocks"
  <2>1. l.scheme = "ss" /\ l.user = p.cipher /\ l.pass = p.pass /\ PlaceWritten(l, p)
    BY <1>3, LinkIs
  <2> HIDE DEF l
  <2>2. MadeFor(q, "shadowsocks", l, l.port) /\ q.cipher = l.user /\ q.pass = l.pass
    BY <2>1, ShadowsocksRead DEF l
  <2>3. /\ q.protocol = p.protocol /\ q.address = p.address /\ q.port = p.port
        /\ q.pass = p.pass /\ q.cipher = p.cipher
    BY <1>3, <2>1, <2>2 DEF MadeFor, PlaceWritten
  <2> QED
    BY <1>0, <1>3, <2>3, KeptIsSafe
<1>4. CASE p.protocol \in {"socks5", "http"}
  <2>1. /\ l.scheme = p.protocol /\ l.user = p.user /\ PlaceWritten(l, p)
        /\ l.pass = (IF p.user = Empty THEN Empty ELSE p.pass)
    BY <1>4, LinkIs
  <2> HIDE DEF l
  <2>2. PortOr(l.port, 1080) = p.port /\ l.address = p.address /\ l.scheme \in {"socks5", "http"}
    BY <1>0, <1>4, <2>1 DEF PlaceWritten, PortOr
  <2>3. MadeFor(q, l.scheme, l, PortOr(l.port, 1080)) /\ q.user = l.user /\ q.pass = l.pass
    BY <2>2, UserPassRead DEF l
  <2>4. /\ q.protocol = p.protocol /\ q.address = p.address /\ q.port = p.port
        /\ q.user = p.user /\ (p.user = Empty \/ q.pass = p.pass)
    BY <2>1, <2>2, <2>3 DEF MadeFor
  <2> QED
    BY <1>0, <1>4, <2>4, KeptIsSafe
<1> QED
  BY <1>0, <1>1, <1>2, <1>3, <1>4 DEF Protocols

\* The switch that enables a profile does not reach the engine.
LEMMA EnabledDials ==
  ASSUME NEW q, DOMAIN q = Fields
  PROVE  Dials([q EXCEPT !.enabled = TRUE]) = Dials(q)
<1> DEFINE p == [q EXCEPT !.enabled = TRUE]
<1>1. \A f \in Fields \ {"enabled"} : p[f] = q[f]
  BY EnabledIs
<1>2. {"protocol", "address", "port", "user", "sshUser", "pass", "cipher", "uuid", "flow", "security", "padding",
       "authLen", "packet", "net", "path", "host", "early", "tls", "sni", "insecure", "alpn", "fp", "key",
       "hostKey"} \subseteq Fields \ {"enabled"}
  BY DEF Fields, Values
<1> HIDE DEF p
<1>3. /\ p.protocol = q.protocol /\ p.address = q.address /\ p.port = q.port /\ p.user = q.user
      /\ p.sshUser = q.sshUser /\ p.pass = q.pass /\ p.cipher = q.cipher /\ p.uuid = q.uuid
      /\ p.flow = q.flow /\ p.security = q.security /\ p.padding = q.padding /\ p.authLen = q.authLen
      /\ p.packet = q.packet /\ p.key = q.key /\ p.hostKey = q.hostKey
  BY <1>1, <1>2
<1>4. TransportIfEnabled(p) = TransportIfEnabled(q)
  <2>1. p.net = q.net /\ p.path = q.path /\ p.host = q.host /\ p.early = q.early
    BY <1>1, <1>2
  <2> QED
    BY <2>1 DEF TransportIfEnabled
<1>5. TLSIfEnabled(p) = TLSIfEnabled(q)
  <2>1. p.tls = q.tls /\ p.sni = q.sni /\ p.insecure = q.insecure /\ p.alpn = q.alpn /\ p.fp = q.fp
    BY <1>1, <1>2
  <2> QED
    BY <2>1 DEF TLSIfEnabled
<1>6. CoreOutbound(p) = CoreOutbound(q)
  BY <1>3, <1>4, <1>5 DEF CoreOutbound
<1> QED
  BY <1>6 DEF Dials, p

\* A profile that comes back as it is, is not weaker.
LEMMA SameIsSafe == ASSUME NEW o PROVE NotWeaker(o, o)
BY DEF NotWeaker
-----------------------------------------------------------------------------
(* The text and what is read of it.                                        *)

\* A text nobody touched holds what was exported: links and envelopes of
\* servers of the repository.
TextIsExport ==
    ~ foreign => \A i \in DOMAIN clip.items : \E k \in DOMAIN servers :
        \/ Link(servers[k]) # Refused /\ clip.items[i] = LinkItem(Link(servers[k]))
        \/ clip.items[i] = EnvItem(servers[k])

\* What came in as a link is a profile a link can hold.
LinksAreRead ==
    \A i \in DOMAIN inbox : inbox[i][1] = "link" => FromLink(inbox[i][2])

\* What was read of an untouched text is as safe as a server of the repository.
InboxIsNotWeaker ==
    ~ foreign => \A i \in DOMAIN inbox : \E k \in DOMAIN servers :
        NotWeaker(Dials(servers[k]), Dials(inbox[i][2]))

LinkInv == TextIsExport /\ LinksAreRead /\ InboxIsNotWeaker

\* What ParseImportData finds is of a link it accepts or of an envelope.
LEMMA ParsedIs ==
  ASSUME NEW shape, NEW items, NEW i \in DOMAIN ParseImportData(shape, items).parsed
  PROVE  LET x == ParseImportData(shape, items).parsed[i] IN
         /\ i \in DOMAIN items
         /\ \/ /\ x[1] = "link" /\ items[i].kind = "link"
               /\ x[2] = ParseLink(items[i].link) /\ x[2] # Refused
            \/ x[1] = "env" /\ items[i].kind = "env" /\ x[2] = items[i].server
<1> DEFINE r     == ParseImportData(shape, items)
           lines == ParsedLines(items)
           Right(j, x) ==
             /\ j \in DOMAIN items
             /\ \/ /\ x[1] = "link" /\ items[j].kind = "link"
                   /\ x[2] = ParseLink(items[j].link) /\ x[2] # Refused
                \/ x[1] = "env" /\ items[j].kind = "env" /\ x[2] = items[j].server
<1>1. r.parsed = <<>> \/ r = ParseEnvelopes(items) \/ r.parsed = lines
  BY DEF ParseImportData
<1>2. CASE r.parsed = <<>>
  BY <1>2
<1>3. CASE r = ParseEnvelopes(items) /\ r.parsed # <<>>
  <2>1. /\ \A j \in DOMAIN items : EnvelopeOK(items[j])
        /\ r.parsed = [j \in DOMAIN items |-> <<"env", items[j].server>>]
    BY <1>3 DEF ParseEnvelopes
  <2> HIDE DEF r
  <2>2. Right(i, r.parsed[i])
    BY <2>1 DEF EnvelopeOK, r
  <2> QED
    BY <2>2 DEF r
<1>4. CASE r.parsed = lines
  <2>1. /\ i \in DOMAIN items /\ ParseLine(items[i]) # Refused
        /\ lines[i] = <<items[i].kind, ParseLine(items[i])>>
    BY <1>4 DEF ParsedLines
  <2>2. \/ items[i].kind = "link" /\ ParseLine(items[i]) = ParseLink(items[i].link)
        \/ items[i].kind = "env" /\ ParseLine(items[i]) = items[i].server
    BY <2>1 DEF ParseLine
  <2> HIDE DEF lines, r
  <2>3. Right(i, lines[i])
    BY <2>1, <2>2
  <2> QED
    BY <1>4, <2>3 DEF r
<1> QED
  BY <1>1, <1>2, <1>3, <1>4

\* What Create stores is what was parsed, enabled.
LEMMA CreatedOf ==
  ASSUME NEW parsed, NEW i \in DOMAIN Created(parsed)
  PROVE  /\ i \in DOMAIN parsed /\ Created(parsed)[i][1] = parsed[i][1]
         /\ Created(parsed)[i][2] = [parsed[i][2] EXCEPT !.enabled = TRUE]
BY DEF Created

\* The servers of the repository are valid and their flags are flags.
LEMMA ServersAre ==
  ASSUME ExInv, NEW k \in DOMAIN servers
  PROVE  /\ DOMAIN servers[k] = Fields /\ Valid(servers[k])
         /\ servers[k].tls = TRUE \/ servers[k].tls = FALSE
         /\ servers[k].insecure = TRUE \/ servers[k].insecure = FALSE
<1>1. servers[k] \in Drafts /\ Valid(servers[k])
  BY DEF ExInv, ValidDrafts
<1>2. DOMAIN servers[k] = Fields /\ \A f \in Fields : servers[k][f] \in Values[f]
  BY <1>1 DEF Drafts
<1>3. /\ "tls" \in Fields /\ "insecure" \in Fields
      /\ Values["tls"] = BOOLEAN /\ Values["insecure"] = BOOLEAN
  BY DEF Fields, Values
<1>4. servers[k]["tls"] \in BOOLEAN /\ servers[k]["insecure"] \in BOOLEAN
  BY <1>2, <1>3
<1> QED
  BY <1>1, <1>2, <1>4

\* An import reads links and envelopes, and makes nothing weaker.
LEMMA ImportIsSafe == ASSUME ExInv, LinkInv, ImportServers PROVE LinkInv'
<1> DEFINE kept  == {j \in DOMAIN clip.items : clip.items[j].kind # "blank"}
           items == [i \in kept |-> clip.items[i]]
           r     == ParseImportData(clip.shape, items)
           new   == Created(r.parsed)
<1>1. inbox' = new /\ UNCHANGED <<draft, changes, servers, clip, foreign>>
  BY DEF ImportServers
<1>2. \A i \in DOMAIN items : i \in DOMAIN clip.items /\ items[i] = clip.items[i]
  OBVIOUS
<1>3. TextIsExport'
  BY <1>1 DEF LinkInv, TextIsExport
<1>4. ASSUME NEW i \in DOMAIN new
      PROVE  /\ new[i][1] = "link" => FromLink(new[i][2])
             /\ ~ foreign => \E k \in DOMAIN servers : NotWeaker(Dials(servers[k]), Dials(new[i][2]))
  <2> DEFINE t == clip.items[i]
             q == r.parsed[i][2]
  <2>1. /\ i \in DOMAIN r.parsed /\ new[i][1] = r.parsed[i][1]
        /\ new[i][2] = [q EXCEPT !.enabled = TRUE]
    BY CreatedOf
  <2> HIDE DEF items
  <2>2. /\ i \in DOMAIN items
        /\ \/ /\ r.parsed[i][1] = "link" /\ items[i].kind = "link"
              /\ q = ParseLink(items[i].link) /\ q # Refused
           \/ r.parsed[i][1] = "env" /\ items[i].kind = "env" /\ q = items[i].server
    BY <2>1, ParsedIs
  <2>3. /\ i \in DOMAIN clip.items
        /\ \/ /\ new[i][1] = "link" /\ t.kind = "link" /\ q = ParseLink(t.link) /\ q # Refused
           \/ new[i][1] = "env" /\ t.kind = "env" /\ q = t.server
    BY <1>2, <2>1, <2>2
  <2> HIDE DEF r, new, q, t
  <2>4. ASSUME new[i][1] = "link" PROVE FromLink(new[i][2])
    <3>1. FromLink(q)
      BY <2>3, <2>4, AcceptedIs
    <3>2. DOMAIN q = Fields
      BY <3>1 DEF FromLink
    <3>3. FromLink([q EXCEPT !.enabled = TRUE])
      BY <3>1, <3>2, EnabledIs
    <3> QED
      BY <2>1, <3>3
  <2>5. ASSUME ~ foreign PROVE \E k \in DOMAIN servers : NotWeaker(Dials(servers[k]), Dials(new[i][2]))
    <3>1. PICK k \in DOMAIN servers :
            \/ Link(servers[k]) # Refused /\ t = LinkItem(Link(servers[k]))
            \/ t = EnvItem(servers[k])
      BY <2>3, <2>5 DEF LinkInv, TextIsExport, t
    <3>2. /\ DOMAIN servers[k] = Fields /\ Valid(servers[k])
          /\ servers[k].tls = TRUE \/ servers[k].tls = FALSE
          /\ servers[k].insecure = TRUE \/ servers[k].insecure = FALSE
      BY ServersAre
    <3>3. CASE Link(servers[k]) # Refused /\ t = LinkItem(Link(servers[k]))
      <4>1. t.kind = "link" /\ t.link = Link(servers[k])
        BY <3>3 DEF LinkItem, Item
      <4>2. q = ParseLink(Link(servers[k])) /\ q # Refused
        BY <2>3, <4>1
      <4>3. NotWeaker(Dials(servers[k]), Dials(q))
        BY <3>2, <3>3, <4>2, LinkIsSafe
      <4>4. DOMAIN q = Fields
        BY <4>2, ParseLinkShape
      <4> QED
        BY <2>1, <4>3, <4>4, EnabledDials
    <3>4. CASE t = EnvItem(servers[k])
      <4>1. t.kind = "env" /\ t.server = servers[k]
        BY <3>4 DEF EnvItem, Item
      <4>2. q = servers[k]
        BY <2>3, <4>1
      <4> QED
        BY <2>1, <3>2, <4>2, EnabledDials, SameIsSafe
    <3> QED
      BY <3>1, <3>3, <3>4
  <2> QED
    BY <2>4, <2>5
<1> HIDE DEF new
<1>5. LinksAreRead'
  BY <1>1, <1>4 DEF LinksAreRead
<1>6. InboxIsNotWeaker'
  BY <1>1, <1>4 DEF InboxIsNotWeaker
<1> QED
  BY <1>3, <1>5, <1>6 DEF LinkInv

\* What the app exports, and what is done to the text, does not touch the inbox.
LEMMA TextIsSafe ==
  ASSUME LinkInv,
         \/ \E ids \in SUBSET DOMAIN servers : ExportLinks(ids) \/ ExportServers(ids)
         \/ \E items : Changed(items)
  PROVE  LinkInv'
<1>1. ASSUME NEW ids \in SUBSET DOMAIN servers, ExportLinks(ids) PROVE LinkInv'
  <2>1. /\ \A i \in ids : Link(servers[i]) # Refused
        /\ clip' = [shape |-> "lines", items |-> [i \in ids |-> LinkItem(Link(servers[i]))]]
        /\ UNCHANGED <<draft, changes, servers, foreign, inbox, report>>
    BY <1>1 DEF ExportLinks, Exported
  <2>2. DOMAIN clip'.items = ids /\ \A i \in ids : clip'.items[i] = LinkItem(Link(servers[i]))
    BY <2>1
  <2>3. TextIsExport'
    BY <2>1, <2>2 DEF TextIsExport
  <2> QED
    BY <2>1, <2>3 DEF LinkInv, LinksAreRead, InboxIsNotWeaker
<1>2. ASSUME NEW ids \in SUBSET DOMAIN servers, ExportServers(ids) PROVE LinkInv'
  <2>1. PICK shape : /\ clip' = [shape |-> shape, items |-> [i \in ids |-> EnvItem(servers[i])]]
                     /\ UNCHANGED <<draft, changes, servers, foreign, inbox, report>>
    BY <1>2 DEF ExportServers, Exported
  <2>2. DOMAIN clip'.items = ids /\ \A i \in ids : clip'.items[i] = EnvItem(servers[i])
    BY <2>1
  <2>3. TextIsExport'
    BY <2>1, <2>2 DEF TextIsExport
  <2> QED
    BY <2>1, <2>3 DEF LinkInv, LinksAreRead, InboxIsNotWeaker
<1>3. ASSUME NEW items, Changed(items) PROVE LinkInv'
  <2>1. foreign' = TRUE /\ UNCHANGED <<servers, inbox>>
    BY <1>3 DEF Changed
  <2> QED
    BY <2>1 DEF LinkInv, TextIsExport, LinksAreRead, InboxIsNotWeaker
<1> QED
  BY <1>1, <1>2, <1>3

\* Every step keeps what is said of texts and links.
LEMMA LinksAreInductive == ExInv /\ LinkInv /\ [Next]_vars => LinkInv'
<1> SUFFICES ASSUME ExInv, LinkInv, [Next]_vars PROVE LinkInv'
  OBVIOUS
<1>1. CASE UNCHANGED <<servers, clip, foreign, inbox>>
  BY <1>1 DEF LinkInv, TextIsExport, LinksAreRead, InboxIsNotWeaker
<1>2. CASE AddServer
  <2>1. servers' = Append(servers, draft) /\ UNCHANGED <<clip, foreign, inbox>>
    BY <1>2 DEF AddServer
  <2>2. servers \in Seq(ValidDrafts)
    BY DEF ExInv
  <2>3. \A k \in DOMAIN servers : k \in DOMAIN servers' /\ servers'[k] = servers[k]
    BY <2>1, <2>2
  <2>4. TextIsExport'
    BY <2>1, <2>3 DEF LinkInv, TextIsExport
  <2>5. LinksAreRead'
    BY <2>1 DEF LinkInv, LinksAreRead
  <2>6. InboxIsNotWeaker'
    BY <2>1, <2>3 DEF LinkInv, InboxIsNotWeaker
  <2> QED
    BY <2>4, <2>5, <2>6 DEF LinkInv
<1>3. CASE \E ids \in SUBSET DOMAIN servers \ {{}} : ExportLinks(ids) \/ ExportServers(ids)
  BY <1>3, TextIsSafe
<1>4. CASE \E item \in ForeignItems : Paste(item)
  BY <1>4, TextIsSafe DEF Paste
<1>5. CASE \E i \in DOMAIN clip.items : \E f \in DOMAIN LinkValues :
             \E v \in LinkValues[f] : EditLink(i, f, v)
  BY <1>5, TextIsSafe DEF EditLink
<1>6. CASE ImportServers
  BY <1>6, ImportIsSafe
<1>7. CASE \E f \in Fields : \E v \in Values[f] : Edit(f, v)
  BY <1>1, <1>7 DEF Edit
<1>8. CASE UNCHANGED vars
  BY <1>1, <1>8 DEF vars
<1> QED
  BY <1>2, <1>3, <1>4, <1>5, <1>6, <1>7, <1>8 DEF Next

\* So it always holds.
LEMMA LinksHold == Spec => []LinkInv
<1>1. Init => LinkInv
  <2> SUFFICES ASSUME Init PROVE LinkInv
    OBVIOUS
  <2>1. clip.items = <<>> /\ inbox = <<>>
    BY DEF Init
  <2> QED
    BY <2>1 DEF LinkInv, TextIsExport, LinksAreRead, InboxIsNotWeaker
<1> QED
  BY <1>1, LinksAreInductive, ExHolds, PTL DEF Spec

\* A profile that goes out and comes back untouched is refused or comes back at
\* least as safe.
THEOREM LinksNeverWeaken == Spec => []NeverWeakened
<1>1. ASSUME LinkInv PROVE NeverWeakened
  <2> SUFFICES ASSUME ~ foreign, NEW i \in DOMAIN inbox
               PROVE  \E p \in {servers[k] : k \in DOMAIN servers} :
                        NotWeaker(Dials(p), Dials(inbox[i][2]))
    BY DEF NeverWeakened, NotWeaker
  <2> QED
    BY <1>1 DEF LinkInv, InboxIsNotWeaker
<1> QED
  BY <1>1, LinksHold, PTL

\* What an accepted link was stored as dials the same when it went out and came
\* back.
THEOREM AcceptedLinksReturn == Spec => []AcceptedLinksRoundTrip
<1>1. ASSUME LinkInv PROVE AcceptedLinksRoundTrip
  <2> SUFFICES ASSUME NEW i \in DOMAIN inbox, NEW p, p = inbox[i][2], inbox[i][1] = "link",
                      ~ (p.pass # Empty /\ p.user = Empty /\ p.protocol \in {"socks5", "http"})
               PROVE  ParseLink(Link(p)) # Refused /\ Dials(ParseLink(Link(p))) = Dials(p)
    BY DEF AcceptedLinksRoundTrip
  <2>1. FromLink(p)
    BY <1>1 DEF LinkInv, LinksAreRead
  <2> DEFINE q == ParseLink(Link(p))
  <2>2. q # Refused /\ Alike(p, q)
    BY <2>1, RoundTrip
  <2> HIDE DEF q
  <2>3. p.protocol \in Protocols \ {"ssh"}
    BY <2>1 DEF FromLink
  <2>4. Dials(q) = Dials(p)
    BY <2>2, <2>3, AlikeDial
  <2> QED
    BY <2>2, <2>4 DEF q
<1> QED
  BY <1>1, LinksHold, PTL
=============================================================================
