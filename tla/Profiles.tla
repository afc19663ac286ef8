------------------------------ MODULE Profiles ------------------------------
(***************************************************************************)
(* models.ServerProfile (core/models/server.go): the fields that the share *)
(* links and the engine options read, and Validate, which every profile    *)
(* passes on its way into the repository.                                  *)
(*                                                                         *)
(* A text is Empty (or blank, where the code trims) or a token for some    *)
(* non-empty value; the few distinctions a conversion makes are tokens of  *)
(* their own.  The nested TLS, SSH and Transport records are flattened:    *)
(* net is Transport.Type, "nil" when the profile has no Transport.         *)
(***************************************************************************)
EXTENDS Integers

Empty    == "empty"   \* the empty text
WidePort == 65979     \* a port that a 16 bit conversion turns into 443

Protocols == {"vless", "vmess", "shadowsocks", "trojan", "socks5", "http", "ssh"}

\* The values a field may be given by the form, or arrive with in an
\* envelope.  "other" is a protocol, and "grpc" a transport, that is not
\* supported.
Values ==
    [protocol |-> Protocols \cup {"other"},
     name     |-> {Empty, "plain", "plus"},      \* "plus": the name has a '+'
     address  |-> {Empty, "domain", "ipv6"},
     port     |-> {0, 443, 8080, WidePort},
     user     |-> {Empty, "user"},
     pass     |-> {Empty, "pw"},
     cipher   |-> {Empty, "aes"},
     uuid     |-> {Empty, "id"},
     flow     |-> {Empty, "vision"},
     security |-> {Empty, "aes"},
     tls      |-> BOOLEAN,
     insecure |-> BOOLEAN,
     sni      |-> {Empty, "sni"},
     alpn     |-> {Empty, "h2"},
     fp       |-> {Empty, "chrome"},
     sshUser  |-> {Empty, "root"},
     key      |-> {Empty, "pem"},
     hostKey  |-> {Empty, "hk"},
     net      |-> {"nil", "tcp", "ws", "grpc"},
     path     |-> {Empty, "/ws"},
     host     |-> {Empty, "cdn"},
     early    |-> {0, 2048},
     padding  |-> BOOLEAN,
     authLen  |-> BOOLEAN,
     packet   |-> {Empty, "xudp"},
     enabled  |-> BOOLEAN,
     reality  |-> BOOLEAN]

Fields == DOMAIN Values

\* The fields of *TransportConfig: they exist when there is one.
TransportFields == {"path", "host", "early"}

\* A profile of protocol k with nothing filled in beyond what it needs.
Blank(k) ==
    [protocol |-> k, name |-> "plain", address |-> "domain", port |-> 443,
     user |-> Empty, pass |-> IF k \in {"shadowsocks", "trojan", "ssh"} THEN "pw" ELSE Empty,
     cipher |-> IF k = "shadowsocks" THEN "aes" ELSE Empty,
     uuid |-> IF k \in {"vless", "vmess"} THEN "id" ELSE Empty,
     flow |-> Empty, security |-> Empty,
     tls |-> FALSE, insecure |-> FALSE, sni |-> Empty, alpn |-> Empty, fp |-> Empty,
     sshUser |-> IF k = "ssh" THEN "root" ELSE Empty, key |-> Empty, hostKey |-> Empty,
     net |-> "nil", path |-> Empty, host |-> Empty, early |-> 0,
     padding |-> FALSE, authLen |-> FALSE, packet |-> Empty,
     enabled |-> TRUE, reality |-> FALSE]

ValidPort(n) == n \in Int /\ 1 <= n /\ n <= 65535

\* ServerProfile.Validate
Valid(p) ==
    /\ p.name # Empty /\ p.address # Empty /\ ValidPort(p.port)
    /\ p.protocol \in Protocols
    /\ p.protocol \in {"vless", "vmess"} => p.uuid # Empty
    /\ p.protocol \in {"shadowsocks", "trojan"} => p.pass # Empty
    /\ p.protocol = "shadowsocks" => p.cipher # Empty
    /\ p.protocol = "ssh" => p.sshUser # Empty /\ (p.key # Empty \/ p.pass # Empty)
    /\ p.net \in {"nil", "tcp", "ws"}
    /\ ~ p.reality
=============================================================================
