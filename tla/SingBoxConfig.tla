---------------------------- MODULE SingBoxConfig ----------------------------
(***************************************************************************)
(* From a share link or a profile of the application to a sing-box         *)
(* configuration: import_server (src/import.rs), validate (in              *)
(* src/protocols.rs), generate_sing_box_config (src/config.rs) and         *)
(* OlcRtcConfig (src/olcrtc/mod.rs), as operators, and the steps that      *)
(* apply them one after another.                                           *)
(*                                                                         *)
(* Texts are abstracted to what the code tells apart: a field is absent,   *)
(* empty, some text, or a 64-digit hexadecimal key (of characters that     *)
(* percent decoding leaves alone); a DNS server contains ':', is blank, or *)
(* is neither: an IPv4 address or a host name.  A packet is known by its   *)
(* network, its port, whether its protocol was recognised as DNS, and the  *)
(* lists of addresses its destination is in.  Of TLS and transport options *)
(* only the presence counts; MTU and stack are left out.                   *)
(***************************************************************************)
EXTENDS Integers, Sequences, FiniteSetsExt

CONSTANTS
    Platforms,      \* of "linux", "windows", "macos", "android", "ios"
    Schemes,        \* schemes of the links that are imported
    Protocols,      \* protocols of the profiles the application passes in
    Secrets,        \* values of a field of such a profile
    DnsLists,       \* the lists in DnsOptions.servers
    BypassLists     \* the sets in route_bypass_cidrs, of "cidr" and "blank"

AllProtocols == {"vless", "vmess", "trojan", "shadowsocks", "wireguard", "hysteria",
                 "hysteria2", "tuic", "tun", "mixed", "socks", "http", "olcrtc"}
AllSecrets == {"absent", "empty", "text", "hex64"}

ASSUME ConfigAssumption ==
    /\ Platforms \subseteq {"linux", "windows", "macos", "android", "ios"}
    /\ Schemes \subseteq AllProtocols \ {"tun", "mixed"}
    /\ Protocols \subseteq AllProtocols
    /\ Secrets \subseteq AllSecrets
    /\ DnsLists \subseteq Seq({"v4", "w4", "v6", "blank"})
    /\ BypassLists \subseteq SUBSET {"cidr", "blank"}

VARIABLES
    link,       \* the link that was imported, if any
    profile,    \* the profile
    options,    \* the options connect gets with it
    stage,      \* "start", "profile", "config" or "error"
    config      \* the generated configuration

vars == <<link, profile, options, stage, config>>

\* TransportKind; the options of a transport and of TLS (without alpn and insecure).
Kinds == {"tcp", "ws", "grpc", "httpupgrade", "xhttp", "quic"}
TransportParameters == {"path", "host", "service"}
TlsParameters == {"sni", "fp"}

NoTls == [enabled |-> FALSE, has |-> {}]
Tcp == [kind |-> "tcp", has |-> {}]

NoLink == [scheme |-> "none", host |-> FALSE, user |-> "empty", password |-> "absent",
           uuid |-> "absent", key |-> "absent", provider |-> "wb_stream",
           type |-> "absent", security |-> "absent", query |-> {}]

\* One field per thing validate and outbound_for_profile look at; no provider
\* is wb_stream, the default.
Blank == [protocol |-> "tun", named |-> TRUE, uuid |-> "absent", password |-> "absent",
          method |-> "absent", username |-> "absent", wireguard |-> "absent", reality |-> FALSE,
          provider |-> "wb_stream", key |-> "absent", tls |-> NoTls, transport |-> Tcp]

-----------------------------------------------------------------------------
(* import_server.                                                          *)

\* A vmess:// link carries the id as user, an ss:// link method and password;
\* the other schemes a user, a password and query parameters.  The links are of
\* two kinds, which are enough because credentials and wire options do not meet:
\* all credentials with a plain wire, one credential with all wires.  In a vmess
\* link type is called net, and security tls.
CredentialLinks ==
    [scheme : Schemes, host : BOOLEAN, user : {"empty", "text", "hex64"},
     password : AllSecrets, uuid : {"absent", "empty", "text"}, key : AllSecrets,
     provider : {"wb_stream", "blank", "other"},
     type : {"absent"}, security : {"absent"}, query : {{}}]
WireLinks ==
    [scheme : Schemes, host : {TRUE}, user : {"text"}, password : {"text"},
     uuid : {"absent"}, key : {"hex64"}, provider : {"wb_stream"}, type : Kinds \cup {"absent"},
     security : {"absent", "tls", "reality"}, query : SUBSET (TransportParameters \cup TlsParameters)]
Links == CredentialLinks \cup WireLinks

\* Option::or on texts.
Or(x, y) == IF x = "absent" THEN y ELSE x
NonEmpty(x) == IF x = "empty" THEN "absent" ELSE x

\* vmess:// and ss:// are not read by parse_url_profile.
OwnParser == {"vmess", "shadowsocks"}

\* parse_shadowsocks insists on method:password, parse_url_profile on a host or
\* a room.
ImportFails(l) ==
    \/ l.scheme = "shadowsocks" /\ l.password = "absent"
    \/ l.scheme \notin OwnParser /\ ~l.host

\* No credential: AuthOptions::default.
NoAuth == [uuid |-> "absent", password |-> "absent", method |-> "absent", username |-> "absent"]

\* The credentials of parse_url_profile, parse_vmess and parse_shadowsocks.
\* Url::password gives None for an empty password.
\* A fault: the user part of a proxy link becomes the password, as in a Trojan link.
ImportedAuthOneArm(l) ==
    CASE l.scheme \in {"vless", "vmess"} ->
           [NoAuth EXCEPT !.uuid = l.user]
      [] l.scheme = "shadowsocks" ->
           [NoAuth EXCEPT !.method = l.user, !.password = l.password]
      [] l.scheme = "olcrtc" ->
           [NoAuth EXCEPT !.password = Or(l.key, Or(NonEmpty(l.password), NonEmpty(l.user)))]
      [] OTHER ->
           [NoAuth EXCEPT !.uuid = l.uuid, !.password = l.user]
ImportedAuth(l) ==
    CASE l.scheme \in {"vless", "vmess"} ->
           [NoAuth EXCEPT !.uuid = l.user]
      [] l.scheme \in {"trojan", "hysteria", "hysteria2", "tuic"} ->
           [NoAuth EXCEPT !.uuid = l.uuid, !.password = l.user]
      [] l.scheme = "shadowsocks" ->
           [NoAuth EXCEPT !.method = l.user, !.password = l.password]
      [] l.scheme \in {"socks", "http"} ->
           [NoAuth EXCEPT !.username = NonEmpty(l.user), !.password = NonEmpty(l.password)]
      [] l.scheme = "olcrtc" ->
           [NoAuth EXCEPT !.password = Or(l.key, Or(NonEmpty(l.password), NonEmpty(l.user)))]
      [] l.scheme = "wireguard" ->
           [NoAuth EXCEPT !.password = Or(NonEmpty(l.password), l.user)]

\* parse_transport and the transport of parse_vmess, whose path is also the name
\* of a gRPC service; parse_shadowsocks has none.  A link without type may name
\* the transport in security.
ImportedTransport(l) ==
    LET asked == IF l.scheme = "vmess" THEN l.type ELSE Or(l.type, l.security)
        given == l.query \cap TransportParameters
    IN  IF l.scheme = "shadowsocks" THEN Tcp
        ELSE [kind |-> IF asked \in Kinds THEN asked ELSE "tcp",
              has |-> IF l.scheme # "vmess" THEN given
                      ELSE (given \ {"service"}) \cup {x \in {"service"} : "path" \in given}]

\* parse_tls and the TLS options of parse_vmess, where the host is the name if
\* there is no other.
ImportedTls(l) ==
    LET secured == l.security \in {"tls", "reality"}
        given == l.query \cap TlsParameters
    IN  CASE l.scheme = "shadowsocks" -> NoTls
          [] l.scheme = "vmess" ->
               [enabled |-> secured,
                has |-> given \cup {x \in {"sni"} : "host" \in l.query}]
          [] OTHER ->
               IF secured \/ "sni" \in given THEN [enabled |-> TRUE, has |-> given] ELSE NoTls

\* parse_reality.
ImportedReality(l) == l.scheme \notin OwnParser /\ l.security = "reality"

\* The rest of the profile: no importer fills in WireGuard options.
Imported(l) ==
    LET auth == ImportedAuth(l) IN
    [Blank EXCEPT !.protocol = l.scheme, !.named = l.host, !.uuid = auth.uuid,
                  !.password = auth.password, !.method = auth.method,
                  !.username = auth.username,
                  !.reality = ImportedReality(l), !.tls = ImportedTls(l),
                  !.transport = ImportedTransport(l),
                  !.key = IF l.scheme \in OwnParser THEN "absent" ELSE l.key,
                  !.provider = IF l.scheme \in OwnParser THEN "wb_stream" ELSE l.provider]

-----------------------------------------------------------------------------
(* validate.                                                               *)

Filled(x) == x \notin {"absent", "empty"}

\* What the protocol asks for; a fault: the cipher method is not asked for.
CredentialsValidNoMethod(p) ==
    CASE p.protocol \in {"vless", "vmess"} -> Filled(p.uuid)
      [] p.protocol \in {"trojan", "hysteria", "hysteria2", "tuic", "shadowsocks"} -> Filled(p.password)
      [] p.protocol = "wireguard" -> p.wireguard # "absent"
      [] p.protocol \in {"tun", "mixed"} -> FALSE
      [] p.protocol \in {"socks", "http"} -> TRUE
      [] p.protocol = "olcrtc" -> p.password = "hex64" /\ p.provider = "wb_stream"
CredentialsValid(p) ==
    CASE p.protocol \in {"vless", "vmess"} -> Filled(p.uuid)
      [] p.protocol \in {"trojan", "hysteria", "hysteria2", "tuic"} -> Filled(p.password)
      [] p.protocol = "shadowsocks" -> Filled(p.password) /\ Filled(p.method)
      [] p.protocol = "wireguard" -> p.wireguard # "absent"
      [] p.protocol \in {"tun", "mixed"} -> FALSE
      [] p.protocol \in {"socks", "http"} -> TRUE
      [] p.protocol = "olcrtc" -> p.password = "hex64" /\ p.provider = "wb_stream"

Valid(p) ==
    /\ p.named          \* name, server and port are given
    /\ CredentialsValid(p)
    /\ p.reality => p.protocol = "vless"

-----------------------------------------------------------------------------
(* OlcRtcConfig::from_profile and outbound_for_profile.                    *)

\* The key in extra goes before the password; a blank one does not count.
OlcKey(p) == Or(NonEmpty(p.key), p.password)
OlcConfigOK(p) ==
    /\ p.provider # "other"         \* a blank one is the default
    /\ OlcKey(p) = "hex64"

\* The outbound can be written.
OutboundOK(p) ==
    CASE p.protocol \in {"vless", "vmess"} -> Filled(p.uuid)
      [] p.protocol \in {"trojan", "hysteria", "hysteria2", "tuic"} -> Filled(p.password)
      [] p.protocol = "shadowsocks" -> Filled(p.method) /\ Filled(p.password)
      [] p.protocol = "wireguard" -> p.wireguard = "v4"
      [] p.protocol \in {"socks", "http"} -> TRUE
      [] p.protocol = "olcrtc" -> OlcConfigOK(p)
      [] p.protocol \in {"tun", "mixed"} -> FALSE

\* The credentials that outbound_for_profile writes: a TUIC uuid and the name and
\* password of a proxy may be null, the others are required.
OutboundAuth(p) ==
    CASE p.protocol \in {"vless", "vmess"} -> [NoAuth EXCEPT !.uuid = p.uuid]
      [] p.protocol \in {"trojan", "hysteria", "hysteria2"} ->
           [NoAuth EXCEPT !.password = p.password]
      [] p.protocol = "shadowsocks" ->
           [NoAuth EXCEPT !.method = p.method, !.password = p.password]
      [] p.protocol = "tuic" ->
           [NoAuth EXCEPT !.uuid = p.uuid, !.password = p.password]
      [] p.protocol \in {"socks", "http"} ->
           [NoAuth EXCEPT !.username = p.username, !.password = p.password]
      [] OTHER -> NoAuth

\* add_tls: REALITY replaces what was written for TLS before, and a protocol on
\* QUIC gets no imitated fingerprint (supports_utls).
OutboundTls(p) ==
    LET utls == IF p.protocol \in {"hysteria", "hysteria2", "tuic"} THEN {}
                ELSE p.tls.has \cap {"fp"}
    IN  CASE p.reality -> [enabled |-> TRUE, reality |-> TRUE,
                           has |-> (p.tls.has \cap {"sni"}) \cup utls]
          [] ~p.reality /\ p.tls.enabled ->
               [enabled |-> TRUE, reality |-> FALSE, has |-> (p.tls.has \ {"fp"}) \cup utls]
          [] OTHER -> [enabled |-> FALSE, reality |-> FALSE, has |-> {}]

\* add_transport; the headers of a WebSocket are not filled in by any importer.
OutboundTransport(p) ==
    LET written == CASE p.transport.kind = "ws" -> {"path"}
                     [] p.transport.kind = "grpc" -> {"service"}
                     [] p.transport.kind \in {"httpupgrade", "xhttp"} -> {"path", "host"}
                     [] OTHER -> {}
    IN  [p.transport EXCEPT !.has = @ \cap written]

-----------------------------------------------------------------------------
(* The DNS section.                                                        *)

Mobile(platform) == platform \in {"android", "ios"}

TunAddress(platform) == IF platform = "ios" THEN {"v4", "v6"} ELSE {"v4"}
DnsStrategy(platform) == IF platform = "ios" THEN "prefer_ipv4" ELSE "ipv4_only"

\* The configured servers without the blank and the IPv6 ones, in their order.
KeptServers(servers) ==
    LET among[n \in 0..Len(servers)] ==     \* of the first n
            IF n = 0 THEN <<>>
            ELSE IF servers[n] \in {"v6", "blank"} THEN among[n - 1]
                                                  ELSE Append(among[n - 1], servers[n])
    IN  among[Len(servers)]

\* A fault: no fallback when no server is left.
DnsUpstreamsNoFallback(servers) == KeptServers(servers)
\* dns_upstreams_for_options, with the fallback of 1.1.1.1 and 8.8.8.8.
DnsUpstreams(servers) ==
    IF KeptServers(servers) = <<>> THEN <<"1.1.1.1", "8.8.8.8">> ELSE KeptServers(servers)

\* dns_servers_for_upstreams: the bootstrap server, dialled directly, and one
\* server per upstream, dialled through the proxy.  Servers are tagged by their
\* index, "final" names index 0.
DnsServers(upstreams) ==
    [bootstrap |-> IF upstreams = <<>> THEN "1.1.1.1" ELSE Head(upstreams),
     tagged |-> [i \in 0..(Len(upstreams) - 1) |-> upstreams[i + 1]]]

-----------------------------------------------------------------------------
(* The route rules, and what sing-box does with them.                      *)

Nets == {"tcp", "udp", "icmp"}
Ports == {53, 443, 3478, 7880}     \* 5349 is treated like 3478
\* Address lists a destination may be in; "wb" is a host of WB Stream.
Lists == {"local", "bypass", "upstream", "wb"}
Packets == [net : Nets, port : Ports, dns : BOOLEAN, in : SUBSET Lists]

\* A rule matches a packet of its networks and ports, in its address list if it
\* names one, recognised as DNS if it asks for that.
Any == [net |-> Nets, port |-> Ports, list |-> "any", dns |-> FALSE, act |-> "proxy"]
Matches(rule, packet) ==
    /\ packet.net \in rule.net
    /\ rule.port # Ports => packet.net # "icmp" /\ packet.port \in rule.port
    /\ rule.list # "any" => rule.list \in packet.in
    /\ rule.dns => packet.dns

\* Rules only some configurations have.
DnsUpstreamRule(platform) ==
    IF Mobile(platform)
    THEN <<[Any EXCEPT !.net = {"tcp", "udp"}, !.port = {53}, !.list = "upstream",
                       !.act = "direct"]>>
    ELSE <<>>
HijackRules ==
    <<[Any EXCEPT !.dns = TRUE, !.act = "hijack"],
      [Any EXCEPT !.net = {"udp"}, !.port = {53}, !.act = "hijack"]>>
LocalRule == <<[Any EXCEPT !.list = "local", !.act = "direct"]>>
BypassRule(bypass) ==
    IF "cidr" \in bypass THEN <<[Any EXCEPT !.list = "bypass", !.act = "direct"]>> ELSE <<>>
ProxyRules ==
    <<[Any EXCEPT !.net = {"icmp"}, !.act = "reject"],
      [Any EXCEPT !.net = {"tcp", "udp"}, !.act = "proxy"]>>
OlcRules(protocol) ==
    IF protocol = "olcrtc"
    THEN <<[Any EXCEPT !.list = "wb", !.act = "direct"],
           [Any EXCEPT !.net = {"tcp", "udp"}, !.port = {3478}, !.act = "direct"],
           [Any EXCEPT !.net = {"tcp"}, !.port = {7880}, !.act = "direct"],
           [Any EXCEPT !.net = {"udp"}, !.act = "reject"]>>
    ELSE <<>>

\* route_rules_for_profile.  A fault: hijacking first.
RouteRulesHijackFirst(platform, protocol, bypass) ==
    HijackRules \o DnsUpstreamRule(platform) \o LocalRule \o BypassRule(bypass)
    \o ProxyRules \o OlcRules(protocol)
RouteRules(platform, protocol, bypass) ==
    DnsUpstreamRule(platform) \o HijackRules \o LocalRule \o BypassRule(bypass)
    \o ProxyRules \o OlcRules(protocol)

\* sing-box applies the first rule that matches, or "final".
Route(rules, packet) ==
    LET hits == {i \in DOMAIN rules : Matches(rules[i], packet)}
    IN  IF hits = {} THEN "proxy" ELSE rules[Min(hits)].act

-----------------------------------------------------------------------------
(* generate_sing_box_config.                                               *)

NoConfig == [tun |-> {}, strategy |-> "", dns |-> DnsServers(<<>>), rules |-> <<>>,
             auth |-> NoAuth, tls |-> OutboundTls(Blank), transport |-> Tcp]

Generated(p, o) ==
    [tun |-> TunAddress(o.platform), strategy |-> DnsStrategy(o.platform),
     dns |-> DnsServers(DnsUpstreams(o.servers)),
     rules |-> RouteRules(o.platform, p.protocol, o.bypass),
     auth |-> OutboundAuth(p), tls |-> OutboundTls(p), transport |-> OutboundTransport(p)]

\* The platform is the one the plugin was built for; the rest is given to connect.
Options == [platform : Platforms, servers : DnsLists, bypass : BypassLists]
NoOptions == [platform |-> "none", servers |-> <<>>, bypass |-> {}]
\* A key is a text like any other where uuid and method are read; TLS and
\* transport are those of WireLinks; a user name and WireGuard options are only
\* given where they are read.
Profiles ==
    {p \in [protocol : Protocols, named : BOOLEAN, uuid : Secrets \ {"hex64"},
            password : Secrets, method : Secrets \ {"hex64"},
            username : (Secrets \ {"hex64"}) \cup {"absent"},
            wireguard : {"absent", "v4", "v6"}, reality : BOOLEAN,
            provider : {"wb_stream", "blank", "other"}, key : Secrets,
            tls : {NoTls}, transport : {Tcp}] :
        /\ p.wireguard = "absent" \/ p.protocol = "wireguard"
        /\ p.username = "absent" \/ p.protocol \in {"socks", "http"}}

Init ==
    /\ link = NoLink /\ profile = Blank /\ options = NoOptions
    /\ stage = "start" /\ config = NoConfig

\* import_server, and a profile from the application.
ImportServer(l) ==
    /\ stage = "start"
    /\ link' = l
    /\ IF ImportFails(l) THEN stage' = "error" /\ UNCHANGED profile
                         ELSE stage' = "profile" /\ profile' = Imported(l)
    /\ UNCHANGED <<options, config>>

FromApplication(p) ==
    /\ stage = "start"
    /\ profile' = p /\ stage' = "profile"
    /\ UNCHANGED <<options, link, config>>

\* generate_sing_box_config, which refuses a profile whatever the options are.
Refuse ==
    /\ stage = "profile" /\ ~(Valid(profile) /\ OutboundOK(profile))
    /\ stage' = "error"
    /\ UNCHANGED <<link, profile, options, config>>

Generate(o) ==
    /\ stage = "profile" /\ Valid(profile) /\ OutboundOK(profile)
    /\ stage' = "config" /\ options' = o /\ config' = Generated(profile, o)
    /\ UNCHANGED <<link, profile>>

Next ==
    \/ stage = "start" /\ \E l \in Links : ImportServer(l)
    \/ stage = "start" /\ \E p \in Profiles : FromApplication(p)
    \/ Refuse
    \/ \E o \in Options : Generate(o)

Spec == Init /\ [][Next]_vars

-----------------------------------------------------------------------------
(* Properties.                                                             *)

\* validate and outbound_for_profile agree (protocols.rs:41, config.rs:325): a
\* profile validate_profile calls valid is refused by connect only for what
\* validate does not look at, WireGuard addresses and the key of an OLC RTC
\* profile that is kept in extra.
ValidConnects ==
    stage = "error" /\ Valid(profile) =>
        \/ profile.protocol = "wireguard" /\ profile.wireguard = "v6"
        \/ profile.protocol = "olcrtc" /\ Filled(profile.key)

\* The link has what validation and generation ask of its scheme (of a TUIC link
\* no uuid), and nothing the scheme cannot use; of the places for the key of an
\* OLC RTC link the first that is used counts.
Carries(l) ==
    /\ l.host
    /\ l.security = "reality" => l.scheme \in OwnParser \cup {"vless"}
    /\ CASE l.scheme = "wireguard" -> FALSE
         [] l.scheme \in {"socks", "http"} -> TRUE
         [] l.scheme = "shadowsocks" -> l.user # "empty" /\ Filled(l.password)
         [] l.scheme = "olcrtc" ->
              /\ l.provider = "wb_stream"
              /\ \/ l.key = "hex64"
                 \/ l.key = "absent" /\ l.password = "hex64"
                 \/ l.key = "absent" /\ ~Filled(l.password) /\ l.user = "hex64"
         [] OTHER -> l.user # "empty"

\* The credentials sing-box is told are those of the link, each where the
\* protocol looks for it (the secret of an OLC RTC link is for the plugin's own
\* client).  Two are not kept: a Trojan, Hysteria, Hysteria2 or TUIC link loses
\* its password part, because the user part becomes the password (import.rs:77),
\* and a TUIC outbound has the uuid of the link's query, null if there is none
\* (config.rs:404): tuic://uuid:password connects with neither in its place.
AuthKept(l) ==
    LET told == config.auth
        user == NonEmpty(l.user)
        password == NonEmpty(l.password)
    IN  /\ told.uuid = CASE l.scheme \in {"vless", "vmess"} -> user
                         [] l.scheme = "tuic" -> l.uuid
                         [] OTHER -> "absent"
        /\ told.password = CASE l.scheme \in {"shadowsocks", "socks", "http"} -> password
                             [] l.scheme \in {"trojan", "hysteria", "hysteria2", "tuic"} -> user
                             [] OTHER -> "absent"
        /\ told.method = IF l.scheme = "shadowsocks" THEN user ELSE "absent"
        /\ told.username = IF l.scheme \in {"socks", "http"} THEN user ELSE "absent"

\* What the link says of the wire is what sing-box is told: the transport it
\* names with the parameters that belong to it, TLS exactly if it asks for it (or
\* names a server for it), REALITY exactly if it is a VLESS link that asks for
\* it, a server name if there is one, a fingerprint unless the protocol is on
\* QUIC.  Not kept is the host of a WebSocket.
WireKept(l) ==
    LET secured == l.security \in {"tls", "reality"}
        named == "sni" \in l.query
        path == {x \in {"path"} : x \in l.query}
        service == IF l.scheme = "vmess" THEN "path" ELSE "service"
    IN  /\ config.tls.enabled <=> secured \/ (named /\ l.scheme # "vmess")
        /\ config.tls.reality <=> l.security = "reality" /\ l.scheme = "vless"
        /\ config.tls.enabled /\ named => "sni" \in config.tls.has
        /\ config.tls.enabled =>
              ("fp" \in config.tls.has <=>
                  "fp" \in l.query /\ l.scheme \notin {"hysteria", "hysteria2", "tuic"})
        /\ config.transport.kind = IF l.type = "absent" THEN "tcp" ELSE l.type
        /\ config.transport.kind = "ws" => config.transport.has = path
        /\ config.transport.kind = "grpc" =>
              ("service" \in config.transport.has <=> service \in l.query)
        /\ config.transport.kind \in {"httpupgrade", "xhttp"} =>
              config.transport.has = l.query \cap {"path", "host"}

\* A link of any scheme but WireGuard's that has what is asked of its scheme
\* imports to a profile that connect accepts, and no other link does
\* (import.rs:33).  Then sing-box is told the credentials of the link, but for
\* those AuthKept names, and the TLS and transport it asks for (a Shadowsocks
\* link asks for none): importer, validation and generator agree on where each
\* is kept.
LinkConnects ==
    link # NoLink =>
        /\ stage = "error" => ~Carries(link)
        /\ stage = "config" => Carries(link) /\ AuthKept(link)
        /\ stage = "config" /\ link.scheme # "shadowsocks" => WireKept(link)

\* Whatever DNS servers are configured, there is a server for "final", the one
\* that is dialled directly, and none of them is blank or an IPv6 address
\* (config.rs:121); an IPv4 address and a host name are passed on alike.
DnsUsable ==
    stage = "config" =>
        /\ 0 \in DOMAIN config.dns.tagged
        /\ config.dns.bootstrap = config.dns.tagged[0]
        /\ \A i \in DOMAIN config.dns.tagged : config.dns.tagged[i] \notin {"v6", "blank"}

Sent(packet) == Route(config.rules, packet)
Bypassed(packet) ==
    "local" \in packet.in \/ ("cidr" \in options.bypass /\ "bypass" \in packet.in)
IsDns(packet) == packet.dns \/ (packet.net = "udp" /\ packet.port = 53)
ToBootstrap(packet) ==
    /\ Mobile(options.platform) /\ "upstream" \in packet.in
    /\ packet.port = 53 /\ packet.net \in {"tcp", "udp"}

\* What the last rules of an OLC RTC profile are for: its own transport.
OlcTransport(packet) ==
    /\ profile.protocol = "olcrtc"
    /\ \/ "wb" \in packet.in
       \/ packet.net \in {"tcp", "udp"} /\ packet.port = 3478
       \/ packet.net = "tcp" /\ packet.port = 7880

\* Traffic that is local or exempted by the application, ping included and DNS
\* excluded, and DNS to the configured upstreams on a mobile system leave
\* outside the tunnel, and nothing else may but the transport of an OLC RTC
\* profile (config.rs:196): no rule in front shadows those exemptions, none lets
\* other traffic slip, and the bootstrap does not loop into the tunnel.  Whether
\* the OLC RTC transport does leave is asked by TransportBypassed.
DirectAsExempted ==
    stage = "config" =>
        \A packet \in Packets :
            /\ ToBootstrap(packet) \/ (Bypassed(packet) /\ ~IsDns(packet)) =>
                  Sent(packet) = "direct"
            /\ Sent(packet) = "direct" =>
                  \/ ToBootstrap(packet)
                  \/ ~IsDns(packet) /\ (Bypassed(packet) \/ OlcTransport(packet))

\* The test generates_olcrtc_transport_bypass_rules asks for rules that send
\* the traffic of the OLC RTC transport direct.
TransportBypassed ==
    stage = "config" /\ profile.protocol = "olcrtc" =>
        \A packet \in Packets :
            "wb" \in packet.in /\ packet.net = "tcp" /\ ~packet.dns =>
                Sent(packet) = "direct"
=============================================================================
