------------------------------ MODULE Exchange ------------------------------
(***************************************************************************)
(* Servers in, servers out: Facade.AddServer, ExportServers (envelopes or  *)
(* share links) and ImportServers (core/server/exchange.go, links.go), on  *)
(* a repository that is here just the sequence of its profiles (module     *)
(* ServerStore has its steps and faults).  Between an export and an import *)
(* the text may be edited, or come from another client.  Every stored      *)
(* profile can be connected to: the properties ask what the engine would   *)
(* do for it, in every mode.                                               *)
(***************************************************************************)
EXTENDS EngineOptions, ShareLinks, Integers, FiniteSets

CONSTANTS
    Stored,     \* protocols one of which the user may have a server of already
    MaxChanges  \* bound: fields filled in on the form, and changes made to
                \* the text before it is imported, together

ASSUME ExchangeAssumption ==
    /\ Stored \subseteq Protocols
    /\ MaxChanges \in Nat

VARIABLES
    draft,    \* the profile in the form
    changes,  \* number of fields filled in and changes made to the text
    servers,  \* the profiles of the repository
    clip,     \* the text exported last, as changed since
    foreign,  \* whether it was changed
    inbox,    \* the profiles the import created, with the kind of their item,
              \* by its place in the text
    report    \* the import's answer

vars == <<draft, changes, servers, clip, foreign, inbox, report>>

\* An item of the text: a line, or an element of a JSON array.  A text has
\* them at places that are integers, in this order but not without gaps.  "env" is an
\* envelope; good says that its format and version are the current ones.
Item(kind, link, server, good) == [kind |-> kind, link |-> link, server |-> server, good |-> good]

LinkItem(l)   == Item("link", l, Refused, TRUE)
EnvItem(p)    == Item("env", Refused, p, TRUE)
BlankItem     == Item("blank", Refused, Refused, TRUE)
JunkItem      == Item("junk", Refused, Refused, TRUE)   \* no scheme we know

\* What a text from elsewhere may hold beside what was exported.
ForeignItems ==
    {BlankItem, JunkItem,
     Item("env", Refused, Blank("http"), FALSE),             \* another version
     EnvItem(Refused),                                       \* no server in it
     EnvItem([Blank("socks5") EXCEPT !.port = WidePort]),
     EnvItem(Blank("other"))}

\* What other clients write differently.
LinkValues ==
    [form |-> {"b64"}, security |-> {Empty, "reality"}, type |-> {"tcp", "grpc"}, port |-> {0, WidePort},
     encryption |-> {Empty, "auto", "aes"}, name |-> {Empty}, sni |-> {Empty}, user |-> {Empty}, flow |-> {"vision"}, plugin |-> {TRUE}]

NoReport == [added |-> 0, failed |-> 0, items |-> 0]

Templates ==
    {Blank(k) : k \in Protocols \cup {"other"}} \cup
    {[Blank(k) EXCEPT !.tls = TRUE, !.net = "ws", !.host = "cdn"] : k \in {"vless", "vmess", "trojan"}}

Init ==
    /\ draft \in Templates
    /\ changes = 0
    /\ servers \in {<<>>} \cup {<<Blank(k)>> : k \in Stored}
    /\ clip = [shape |-> "lines", items |-> <<>>]
    /\ foreign = FALSE
    /\ inbox = <<>>
    /\ report = NoReport

-----------------------------------------------------------------------------
(* The form.                                                               *)

\* A field of the profile that an addServer request will carry is filled in.
\* The app's form has most of the fields, the request all of them; the form's
\* own checks are a part of Validate's.
Edit(f, v) ==
    /\ changes < MaxChanges /\ clip.items = <<>> /\ draft \notin {servers[i] : i \in DOMAIN servers}
    /\ f \in TransportFields => draft.net # "nil"
    /\ draft[f] # v
    /\ draft' = [draft EXCEPT ![f] = v]
    /\ changes' = changes + 1
    /\ UNCHANGED <<servers, clip, foreign, inbox, report>>

\* Facade.AddServer; a profile that is not valid changes nothing.
AddServer ==
    /\ Valid(draft) /\ clip.items = <<>>
    /\ Len(servers) < 2 /\ draft \notin {servers[i] : i \in DOMAIN servers}
    /\ servers' = Append(servers, draft)
    /\ UNCHANGED <<draft, changes, clip, foreign, inbox, report>>

-----------------------------------------------------------------------------
(* Export.                                                                 *)

Exported(shape, items) ==
    /\ clip.items = <<>>
    /\ clip' = [shape |-> shape, items |-> items]
    /\ UNCHANGED <<draft, changes, servers, foreign, inbox, report>>

\* Manager.ExportLinks of some servers, in the order of the list: one profile
\* that has no link fails the whole export.
ExportLinks(ids) ==
    /\ \A i \in ids : Link(servers[i]) # Refused
    /\ Exported("lines", [i \in ids |-> LinkItem(Link(servers[i]))])

\* Manager.ExportServers: one envelope, or an array of them.
ExportServers(ids) ==
    Exported(IF Cardinality(ids) > 1 THEN "array" ELSE "lines", [i \in ids |-> EnvItem(servers[i])])

-----------------------------------------------------------------------------
(* The text outside of the app.                                            *)

Changed(items) ==
    /\ changes < MaxChanges /\ report = NoReport
    /\ changes' = changes + 1
    /\ foreign' = TRUE
    /\ clip' = [clip EXCEPT !.items = items]
    /\ UNCHANGED <<draft, servers, inbox, report>>

Last(S) == CHOOSE i \in S : \A j \in S : j <= i

\* Before the first item or behind the last; of an array, inside the brackets.
Paste(item) ==
    /\ clip.items # <<>>
    /\ \E k \in {First(DOMAIN clip.items) - 1, Last(DOMAIN clip.items) + 1} :
          Changed([i \in DOMAIN clip.items \cup {k} |-> IF i = k THEN item ELSE clip.items[i]])

EditLink(i, f, v) ==
    /\ clip.items[i].kind = "link"
    /\ f = "form" => clip.items[i].link.scheme \in {"vmess", "ss"}
    /\ clip.items[i].link[f] # v
    /\ Changed([clip.items EXCEPT ![i].link[f] = v])

-----------------------------------------------------------------------------
(* Import.                                                                 *)

\* validateEnvelope, and the profile that must be there.
EnvelopeOK(item) == item.kind = "env" /\ item.good /\ item.server # Refused

\* One line: ParseEnvelopes of a single envelope, or ParseLink.
ParseLine(item) ==
    CASE item.kind = "env" -> IF EnvelopeOK(item) THEN item.server ELSE Refused
      [] item.kind = "link" -> ParseLink(item.link)
      [] OTHER -> Refused

\* ParseEnvelopes of a JSON text: all of its envelopes, or none.
ParseEnvelopes(items) ==
    IF \A i \in DOMAIN items : EnvelopeOK(items[i])
    THEN [parsed |-> [i \in DOMAIN items |-> <<"env", items[i].server>>], failed |-> 0]
    ELSE [parsed |-> <<>>, failed |-> 1]

\* The lines that parse.
ParsedLines(items) ==
    LET good == {i \in DOMAIN items : ParseLine(items[i]) # Refused}
    IN [i \in good |-> <<items[i].kind, ParseLine(items[i])>>]

\* Mutant: a line that does not parse is skipped.
ParseImportDataSkips(shape, items) == [parsed |-> ParsedLines(items), failed |-> 0]

\* ParseImportData, of the items that are not blank: a text that starts with a
\* brace or a bracket is one JSON value and must be so to its end; any other
\* text is read line by line.
ParseImportData(shape, items) ==
    IF DOMAIN items = {} THEN [parsed |-> <<>>, failed |-> 1]
    ELSE IF shape = "array" THEN ParseEnvelopes(items)
    ELSE IF items[First(DOMAIN items)].kind = "env"
         THEN IF Cardinality(DOMAIN items) = 1 THEN ParseEnvelopes(items)
              ELSE [parsed |-> <<>>, failed |-> 1]
    ELSE [parsed |-> ParsedLines(items),
          failed |-> Cardinality(DOMAIN items \ DOMAIN ParsedLines(items))]

\* Repository.Create of each: it validates.  Imports are always enabled.
Created(parsed) ==
    LET Profile(i) == [parsed[i][2] EXCEPT !.enabled = TRUE]
    IN [i \in {j \in DOMAIN parsed : Valid(Profile(j))} |-> <<parsed[i][1], Profile(i)>>]

\* Manager.ImportServers
ImportServers ==
    LET items == [i \in {j \in DOMAIN clip.items : clip.items[j].kind # "blank"} |-> clip.items[i]]
        r     == ParseImportData(clip.shape, items)
        new   == Created(r.parsed)
    IN /\ clip.items # <<>> /\ report = NoReport
       /\ inbox' = new
       /\ report' = [added |-> Cardinality(DOMAIN new),
                     failed |-> r.failed + Cardinality(DOMAIN r.parsed \ DOMAIN new),
                     items |-> Cardinality(DOMAIN items)]
       /\ UNCHANGED <<draft, changes, servers, clip, foreign>>

-----------------------------------------------------------------------------

Next ==
    \/ \E f \in Fields : \E v \in Values[f] : Edit(f, v)
    \/ AddServer
    \/ \E ids \in SUBSET DOMAIN servers \ {{}} : ExportLinks(ids) \/ ExportServers(ids)
    \/ \E item \in ForeignItems : Paste(item)
    \/ \E i \in DOMAIN clip.items : \E f \in DOMAIN LinkValues :
          \E v \in LinkValues[f] : EditLink(i, f, v)
    \/ ImportServers

Spec == Init /\ [][Next]_vars
-----------------------------------------------------------------------------
(* Properties.                                                             *)

\* The profiles the app holds once the import is done.
Held == {servers[i] : i \in DOMAIN servers} \cup {inbox[i][2] : i \in DOMAIN inbox}

\* The types, and what every stored profile has passed: Validate.
TypeOK ==
    /\ changes \in 0 .. MaxChanges /\ foreign \in BOOLEAN
    /\ DOMAIN draft = Fields /\ \A f \in Fields : draft[f] \in Values[f]
    /\ \A p \in Held : DOMAIN p = Fields /\ Valid(p)
    /\ clip.shape \in {"lines", "array"}
    /\ report.added = Cardinality(DOMAIN inbox)

\* Whatever way a profile came in, every packet a client sends into the tunnel
\* is dropped or leaves through an outbound of the profile's own protocol to its
\* own server and port: buildOutbound's default, a direct connection under the
\* tag "proxy", is never what is dialled, and the 16 bit port is the port of the
\* profile.  And the names that outbounds look up do not wait for the proxy: the
\* lookup of the proxy's own address would wait for itself.
NoBypass ==
    \A p \in Held, mode \in Modes, m \in IPv6Modes \cup {Empty} :
        LET c == Config(p, mode, m) IN
        /\ Startable(p, mode)
        /\ \A pk \in Packets :
              /\ Verdict(c, pk).action = "route" => Exits(c, pk) # {}
              /\ \A o \in Exits(c, pk) :
                    \/ o.type = "block"
                    \/ /\ o.type = (IF p.protocol = "socks5" THEN "socks" ELSE p.protocol)
                       /\ o.server = p.address /\ o.port = p.port
        /\ mode = "vpn" => \A o \in c.outbounds : Resolver(c, o.tag).detour # "proxy"

\* With IPv6 disabled no IPv6 packet of a client leaves the device: the TUN takes
\* them all in and the router drops them, the DNS queries among them too.
Ipv6StaysOff ==
    \A p \in Held, pk \in Packets :
        LET c == Config(p, "vpn", "disable_ipv6") IN
        /\ "v6" \in c.inbound.address /\ c.inbound.autoRoute
        /\ pk.v6 => \A o \in Exits(c, pk) : o.type = "block"

\* No item of an import is dropped in silence: what was not added is reported,
\* be it one line among many or one envelope of an array.
ImportAccountsForAll ==
    report # NoReport =>
        /\ report.added <= report.items
        /\ report.added < report.items => report.failed > 0

\* What an import stores has passed Validate, and what it does not store it
\* reports.
ImportInv == TypeOK /\ ImportAccountsForAll

\* A profile that goes out and comes back with nobody touching the text is
\* refused or comes back at least as safe: the same server with the same
\* credentials, TLS where there was TLS to a name the user gave or the server's
\* own, and no certificate check switched off.  (An http link has no TLS
\* options, so an http profile comes back without.)
NeverWeakened ==
    ~ foreign /\ report # NoReport =>
        \A i \in DOMAIN inbox :
            \E p \in {servers[k] : k \in DOMAIN servers} :
                LET o == Dials(p)  n == Dials(inbox[i][2]) IN
                /\ n.type = o.type /\ n.server = o.server /\ n.port = o.port
                /\ n.uuid = o.uuid /\ n.method = o.method /\ n.user = o.user
                /\ o.pass # n.pass => o.user = Empty /\ o.type \in {"socks", "http"}
                /\ o.tls.on /\ o.type # "http" =>
                      /\ n.tls.on
                      /\ n.tls.insecure => o.tls.insecure
                      /\ o.tls.sni # Empty => n.tls.sni = o.tls.sni

\* A link the parser accepts is understood: what is stored for it, exported and
\* imported again, makes the engine dial the same.  One thing gets lost, a
\* password without a user name, which linkUserPass does not write.
AcceptedLinksRoundTrip ==
    \A i \in DOMAIN inbox :
        LET p == inbox[i][2] IN
        inbox[i][1] = "link" /\ ~ (p.pass # Empty /\ p.user = Empty /\ p.protocol \in {"socks5", "http"}) =>
            LET q == ParseLink(Link(p)) IN q # Refused /\ Dials(q) = Dials(p)
=============================================================================
