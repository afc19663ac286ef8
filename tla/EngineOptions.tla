---------------------------- MODULE EngineOptions ----------------------------
(***************************************************************************)
(* From a profile to the configuration of sing-box: BuildEngineOptions     *)
(* (core/tunnel/options.go) and buildOptions (engine/config.go), and then  *)
(* what sing-box does with a packet or a name under that configuration     *)
(* (external: modelled from the rules this code writes for it).            *)
(***************************************************************************)
EXTENDS Profiles, Sequences

Modes     == {"vpn", "proxy"}
IPv6Modes == {"auto", "prefer_ipv4", "disable_ipv6", "enable_ipv6"}

-----------------------------------------------------------------------------
(* core/tunnel/options.go                                                  *)

\* ipv6ModeFor, and the default that buildOptions gives an invalid mode.
IPv6ModeFor(m) == IF m \in IPv6Modes THEN m ELSE "prefer_ipv4"

NoTLS == [on |-> FALSE, sni |-> Empty, insecure |-> FALSE, alpn |-> Empty, fp |-> Empty]
NoWS  == [on |-> FALSE, path |-> Empty, host |-> Empty, early |-> 0]

\* tlsIfEnabled and tlsContainer
TLSIfEnabled(p) ==
    IF p.tls THEN [on |-> TRUE, sni |-> p.sni, insecure |-> p.insecure,
                   alpn |-> p.alpn, fp |-> p.fp]
    ELSE NoTLS

\* transportIfEnabled and buildTransport: anything but WebSocket is plain TCP.
TransportIfEnabled(p) ==
    IF p.net = "ws" THEN [on |-> TRUE, path |-> p.path, host |-> p.host, early |-> p.early]
    ELSE NoWS

\* Mutant: the SOCKS name of the core is handed to the engine as it is.
EngineProtocolAsIs(k) == k

\* The names the two protocol enumerations give the same protocol.
EngineProtocol(k) == IF k = "socks5" THEN "socks" ELSE k

\* buildOutbound of the core, an engine.Outbound; the port is cut to 16 bits.
CoreOutbound(p) ==
    [protocol |-> EngineProtocol(p.protocol),
     address |-> p.address, port |-> p.port % 65536,
     user |-> IF p.protocol = "ssh" THEN p.sshUser ELSE p.user,
     pass |-> p.pass, cipher |-> p.cipher, uuid |-> p.uuid, flow |-> p.flow,
     security |-> p.security, padding |-> p.padding, authLen |-> p.authLen,
     packet |-> p.packet, transport |-> TransportIfEnabled(p),
     tls |-> IF p.protocol \in {"vless", "vmess", "trojan", "http"} THEN TLSIfEnabled(p) ELSE NoTLS,
     key |-> IF p.protocol = "ssh" THEN p.key ELSE Empty,
     hostKey |-> IF p.protocol = "ssh" THEN p.hostKey ELSE Empty]

-----------------------------------------------------------------------------
(* engine/config.go                                                        *)

\* An outbound of the sing-box configuration, with every option unset.
Outbound(type, tag) ==
    [type |-> type, tag |-> tag, server |-> Empty, port |-> 0, user |-> Empty, pass |-> Empty,
     method |-> Empty, uuid |-> Empty, flow |-> Empty, security |-> Empty, padding |-> FALSE,
     authLen |-> FALSE, packet |-> Empty, tls |-> NoTLS, ws |-> NoWS, key |-> Empty, hostKey |-> Empty]

\* buildOutbound of the engine: each protocol takes the options it has.
BuildOutbound(ob) ==
    LET Server == [Outbound(ob.protocol, "proxy") EXCEPT !.server = ob.address, !.port = ob.port]
    IN CASE ob.protocol = "vless" ->
                [Server EXCEPT !.uuid = ob.uuid, !.flow = ob.flow, !.packet = ob.packet,
                               !.tls = ob.tls, !.ws = ob.transport]
         [] ob.protocol = "vmess" ->
                [Server EXCEPT !.uuid = ob.uuid, !.packet = ob.packet,
                               !.security = IF ob.security = Empty THEN "auto" ELSE ob.security,
                               !.padding = ob.padding, !.authLen = ob.authLen,
                               !.tls = ob.tls, !.ws = ob.transport]
         [] ob.protocol = "trojan" ->
                [Server EXCEPT !.pass = ob.pass, !.tls = ob.tls, !.ws = ob.transport]
         [] ob.protocol = "shadowsocks" ->
                [Server EXCEPT !.method = ob.cipher, !.pass = ob.pass]
         [] ob.protocol = "socks" -> [Server EXCEPT !.user = ob.user, !.pass = ob.pass]
         [] ob.protocol = "http" ->
                [Server EXCEPT !.user = ob.user, !.pass = ob.pass, !.tls = ob.tls]
         [] ob.protocol = "ssh" ->
                [Server EXCEPT !.user = ob.user, !.pass = ob.pass, !.key = ob.key,
                               !.hostKey = ob.hostKey]
         [] OTHER -> Outbound("direct", "proxy")

\* What the tunnel to profile p dials, and how.
Dials(p) == BuildOutbound(CoreOutbound(p))

\* dnsStrategy
DnsStrategy(m) ==
    CASE m = "prefer_ipv4" -> "prefer_ipv4"
      [] m = "disable_ipv6" -> "ipv4_only"
      [] m = "enable_ipv6" -> "prefer_ipv6"
      [] OTHER -> "as_is"

\* Mutant: no rule for the lookups of outbounds.
DNSOptionsNoRule(strategy) ==
    [servers |-> {[tag |-> "dns-proxy", detour |-> "proxy"], [tag |-> "dns-local", detour |-> Empty]},
     rules |-> <<>>, final |-> "dns-proxy", strategy |-> strategy]

\* buildDNSOptions.  A rule sends the names that outbound "from" looks up to
\* a server; an Empty detour is the dialer of the physical network.
DNSOptions(strategy) ==
    [servers |-> {[tag |-> "dns-proxy", detour |-> "proxy"], [tag |-> "dns-local", detour |-> Empty]},
     rules |-> <<[from |-> "any", server |-> "dns-local"]>>,
     final |-> "dns-proxy",
     strategy |-> strategy]

NoDNS == [servers |-> {}, rules |-> <<>>, final |-> Empty, strategy |-> "as_is"]

DnsHijackRule == [match |-> "dns", action |-> "hijack-dns", outbound |-> Empty]
BlockIPv6Rule == [match |-> "ipv6", action |-> "route", outbound |-> "block"]

\* Mutant: no rule for IPv6.
RulesNoBlock(mode, m) == IF mode # "vpn" THEN <<>> ELSE <<DnsHijackRule>>

\* The route rules of buildOptions, in order.
Rules(mode, m) ==
    IF mode # "vpn" THEN <<>>
    ELSE IF m = "disable_ipv6" THEN <<DnsHijackRule, BlockIPv6Rule>> ELSE <<DnsHijackRule>>

\* BuildEngineOptions leaves TunOptions zero; the defaults are autoRoute() and
\* addresses().
ZeroTun == [address |-> {}, autoRoute |-> FALSE, strictRoute |-> FALSE]

AutoRoute(t) == t.autoRoute \/ ~ t.strictRoute

Addresses(t) == IF t.address # {} THEN t.address ELSE {"v4", "v6"}

\* The inbound: the TUN device, or a SOCKS and HTTP port on the loopback.
Inbound(mode) ==
    IF mode = "vpn" THEN [type |-> "tun", address |-> Addresses(ZeroTun), autoRoute |-> AutoRoute(ZeroTun)]
    ELSE [type |-> "mixed", address |-> {}, autoRoute |-> FALSE]

\* Options.validate
Startable(p, mode) ==
    /\ mode \in Modes
    /\ CoreOutbound(p).address # Empty
    /\ CoreOutbound(p).port # 0

\* buildOptions
Config(p, mode, mode6) ==
    LET m == IPv6ModeFor(mode6)
    IN [outbounds |-> {Outbound("direct", "direct"), Dials(p)} \cup
                        (IF mode = "vpn" /\ m = "disable_ipv6"
                         THEN {Outbound("block", "block")} ELSE {}),
        rules |-> Rules(mode, m),
        final |-> "proxy",
        dns |-> IF mode = "vpn" THEN DNSOptions(DnsStrategy(m)) ELSE NoDNS,
        inbound |-> Inbound(mode),
        autoDetectInterface |-> mode = "vpn"]

-----------------------------------------------------------------------------
(* sing-box.                                                               *)

\* What a client sends into the inbound.
Packets == [dns : BOOLEAN, v6 : BOOLEAN]

\* Whether rule i of the configuration matches.  The router knows that a packet
\* is DNS only once an earlier rule has sniffed it, and buildOptions writes no
\* such rule: dnsHijackRule, the first, never matches.
Matches(c, i, pk) ==
    IF c.rules[i].match = "dns"
    THEN pk.dns /\ \E j \in 1 .. i - 1 : c.rules[j].action = "sniff"
    ELSE pk.v6

\* The least of a set of positions.
First(S) == CHOOSE i \in S : \A j \in S : i <= j

\* The router: the first rule that matches decides, else the final outbound.
Verdict(c, pk) ==
    LET hits == {i \in DOMAIN c.rules : Matches(c, i, pk)}
        rule == c.rules[First(hits)]
    IN IF hits = {} THEN [action |-> "route", outbound |-> c.final]
       ELSE [action |-> rule.action, outbound |-> rule.outbound]

\* The outbounds a packet can leave through.
Exits(c, pk) ==
    LET v == Verdict(c, pk)
    IN IF v.action # "route" THEN {} ELSE {o \in c.outbounds : o.tag = v.outbound}

\* The DNS server for a name that asker, a client or an outbound, looks up.
Resolver(c, asker) ==
    LET tag == IF asker # "client" /\ c.dns.rules # <<>> THEN Head(c.dns.rules).server
               ELSE c.dns.final
    IN CHOOSE s \in c.dns.servers : s.tag = tag
=============================================================================
