----------------------------- MODULE ShareLinks -----------------------------
(***************************************************************************)
(* Native share links: Link (core/server/linkgen.go) writes a profile as a *)
(* vless:// vmess:// ss:// trojan:// socks5:// http:// link and ParseLink  *)
(* (core/server/links.go) reads one.  A link is the record of what its     *)
(* text carries: a query parameter that is not there is Empty, as in the   *)
(* maps of url.Values, and port 0 is a link without one.  Escaping is left *)
(* out where reading undoes writing; the two places where it does not are  *)
(* the fragment and the bracketed host of an ss:// link.                   *)
(***************************************************************************)
EXTENDS Profiles

\* A parse or an export that failed.
Refused == [protocol |-> "refused"]

\* A link without query.  form "b64" is the older text of vmess and ss links:
\* everything inside one base64 blob.
BareLink(scheme, user, pass, p) ==
    [scheme |-> scheme, form |-> "url", user |-> user, pass |-> pass,
     address |-> p.address, port |-> p.port, name |-> p.name,
     security |-> Empty, sni |-> Empty, alpn |-> Empty, fp |-> Empty, insecure |-> FALSE,
     type |-> Empty, path |-> Empty, host |-> Empty, packet |-> Empty, encryption |-> Empty,
     flow |-> Empty, padding |-> FALSE, authLen |-> FALSE, plugin |-> FALSE]

-----------------------------------------------------------------------------
(* linkgen.go                                                              *)

\* Mutant: the TLS switch is not written.
StreamQueryNoTLS(l, p) ==
    [l EXCEPT !.security = "none", !.sni = p.sni, !.packet = p.packet,
              !.type = IF p.net = "ws" THEN "ws" ELSE Empty]

\* streamQuery, of a profile whose transport can be exported.
StreamQuery(l, p) ==
    [l EXCEPT !.security = IF p.tls THEN "tls" ELSE "none",
              !.sni = p.sni, !.alpn = p.alpn, !.fp = p.fp, !.insecure = p.insecure,
              !.type = IF p.net = "ws" THEN "ws" ELSE Empty,
              !.path = IF p.net = "ws" THEN p.path ELSE Empty,
              !.host = IF p.net = "ws" THEN p.host ELSE Empty,
              !.packet = p.packet]

\* Mutant: the flow is not written.
LinkVLESSNoFlow(p) == [StreamQuery(BareLink("vless", p.uuid, Empty, p), p) EXCEPT !.encryption = "none"]

LinkVLESS(p) ==
    [StreamQuery(BareLink("vless", p.uuid, Empty, p), p) EXCEPT !.encryption = "none", !.flow = p.flow]

LinkVMess(p) ==
    [StreamQuery(BareLink("vmess", p.uuid, Empty, p), p) EXCEPT
        !.encryption = IF p.security = Empty THEN "auto" ELSE p.security,
        !.padding = p.padding, !.authLen = p.authLen]

\* The user part is base64(method:password).
LinkShadowsocks(p) == BareLink("ss", p.cipher, p.pass, p)

LinkTrojan(p) == StreamQuery(BareLink("trojan", p.pass, Empty, p), p)

\* A password without a user name is not written.
LinkUserPass(p) ==
    BareLink(p.protocol, p.user, IF p.user = Empty THEN Empty ELSE p.pass, p)

\* Link
Link(p) ==
    CASE p.net = "grpc" /\ p.protocol \in {"vless", "vmess", "trojan"} -> Refused
      [] p.protocol = "vless" -> LinkVLESS(p)
      [] p.protocol = "vmess" -> LinkVMess(p)
      [] p.protocol = "shadowsocks" -> LinkShadowsocks(p)
      [] p.protocol = "trojan" -> LinkTrojan(p)
      [] p.protocol \in {"socks5", "http"} -> LinkUserPass(p)
      [] OTHER -> Refused

-----------------------------------------------------------------------------
(* links.go                                                                *)

\* splitFragment unescapes the name as a query: a '+', which the writer left
\* alone, is read as a space.
SplitFragment(name) == IF name = "plus" THEN "spaced" ELSE name

\* portOr, for the forms that have a default port.
PortOr(port, fallback) == IF port = 0 THEN fallback ELSE port

\* newProfile copies these options of what was parsed, and only these.
NewProfile(protocol, name, l, port, x) ==
    LET p == [Blank(protocol) EXCEPT
                !.name = IF name = Empty THEN "generated" ELSE name,
                !.address = l.address, !.port = port,
                !.user = x.user, !.pass = x.pass, !.cipher = x.cipher, !.uuid = x.uuid,
                !.flow = x.flow, !.security = x.security,
                !.tls = x.tls, !.insecure = x.insecure, !.sni = x.sni, !.alpn = x.alpn, !.fp = x.fp,
                !.net = x.net, !.path = x.path, !.host = x.host,
                !.padding = x.padding, !.packet = x.packet, !.enabled = FALSE]
    IN IF Valid(p) THEN p ELSE Refused

\* What a parser has found so far: nothing.
Found == [Blank("other") EXCEPT !.pass = Empty, !.cipher = Empty, !.uuid = Empty, !.sshUser = Empty]

\* transportFromNetwork
TransportOK(l) ==
    \/ l.type \in {Empty, "tcp"} /\ l.host = Empty /\ l.path = Empty
    \/ l.type = "ws"

Transport(x, l) ==
    IF l.type = "ws" THEN [x EXCEPT !.net = "ws", !.path = l.path, !.host = l.host] ELSE x

\* tlsFromFields
TLS(x, enabled, l, fallback) ==
    IF ~ enabled THEN x
    ELSE [x EXCEPT !.tls = TRUE, !.sni = IF l.sni # Empty THEN l.sni ELSE fallback,
                   !.alpn = l.alpn, !.fp = l.fp, !.insecure = l.insecure]

\* The part that vless and both forms of vmess share: a uuid and a host, no
\* reality, a transport that is known; TLS falls back to the ws host.
Stream(l) == Transport(TLS([Found EXCEPT !.uuid = l.user, !.packet = l.packet],
                           l.security = "tls", l, l.host), l)

StreamOK(l) == l.address # Empty /\ l.user # Empty /\ l.security # "reality" /\ TransportOK(l)

\* parseVMess, the base64 form: no default for the port or the cipher, and a
\* name that is not escaped.
ParseVMess(l) ==
    IF StreamOK(l) /\ ValidPort(l.port)
    THEN NewProfile("vmess", l.name, l, l.port,
                    [Stream(l) EXCEPT !.security = l.encryption, !.padding = l.padding])
    ELSE Refused

ParseVMessSIP002(l) ==
    IF StreamOK(l)
    THEN NewProfile("vmess", SplitFragment(l.name), l, PortOr(l.port, 443),
                    [Stream(l) EXCEPT !.security = IF l.encryption = Empty THEN "auto" ELSE l.encryption,
                                      !.padding = l.padding, !.authLen = l.authLen])
    ELSE Refused

ParseVLess(l) ==
    IF StreamOK(l) /\ l.encryption \in {Empty, "none", "auto"}
    THEN NewProfile("vless", SplitFragment(l.name), l, PortOr(l.port, 443), [Stream(l) EXCEPT !.flow = l.flow])
    ELSE Refused

\* parseShadowsocks and parseShadowsocksFull: host and port are cut at the
\* first colon, so a bracketed IPv6 host leaves no port that can be read.  The
\* older form does not look at the query.
ParseShadowsocks(l) ==
    IF /\ l.address # "ipv6" /\ ValidPort(l.port)
       /\ l.user # Empty /\ l.pass # Empty
       /\ l.plugin => l.form = "b64"
    THEN NewProfile("shadowsocks", SplitFragment(l.name), l, l.port, [Found EXCEPT !.cipher = l.user, !.pass = l.pass])
    ELSE Refused

\* parseTrojan: always TLS; the server name falls back to the host.
ParseTrojan(l) ==
    IF l.address # Empty /\ l.user # Empty /\ TransportOK(l)
    THEN NewProfile("trojan", SplitFragment(l.name), l, PortOr(l.port, 443),
                    Transport(TLS([Found EXCEPT !.pass = l.user], TRUE, l, l.address), l))
    ELSE Refused

ParseUserPass(l) ==
    IF l.address # Empty
    THEN NewProfile(l.scheme, SplitFragment(l.name), l, PortOr(l.port, 1080), [Found EXCEPT !.user = l.user, !.pass = l.pass])
    ELSE Refused

\* ParseLink
ParseLink(l) ==
    CASE l.scheme = "vmess" -> IF l.form = "b64" THEN ParseVMess(l) ELSE ParseVMessSIP002(l)
      [] l.scheme = "vless" -> ParseVLess(l)
      [] l.scheme = "ss" -> ParseShadowsocks(l)
      [] l.scheme = "trojan" -> ParseTrojan(l)
      [] l.scheme \in {"socks5", "http"} -> ParseUserPass(l)
      [] OTHER -> Refused
=============================================================================
