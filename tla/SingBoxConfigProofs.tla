------------------------ MODULE SingBoxConfigProofs ------------------------
(***************************************************************************)
(* Proofs about SingBoxConfig: for any platforms, schemes, protocols, any  *)
(* lists of DNS servers and any bypass lists.                              *)
(***************************************************************************)
EXTENDS SingBoxConfig, WellFoundedInduction, SequenceTheorems, TLAPS

\* A set of numbers that is not empty has a least element, which is its Min.
LEMMA MinExists ==
    ASSUME NEW S \in SUBSET Nat, S # {}
    PROVE  Min(S) \in S /\ \A y \in S : Min(S) <= y
<1> DEFINE R == OpToRel(<, Nat)
<1>1. R = {ss \in Nat \X Nat : ss[1] < ss[2]}
    BY DEF OpToRel
<1>2. IsWellFoundedOn(R, Nat)
    BY NatLessThanWellFounded
<1> HIDE DEF R
<1>3. PICK x \in S : \A y \in S : ~ (<<y, x>> \in R)
    BY <1>2, WFMin
<1>4. \A y \in S : x <= y
  <2>1. ASSUME NEW y \in S, y < x PROVE FALSE
    <3>1. <<y, x>> \in Nat \X Nat /\ <<y, x>>[1] = y /\ <<y, x>>[2] = x
        OBVIOUS
    <3>2. <<y, x>> \in R
        BY <1>1, <2>1, <3>1, Zenon
    <3> QED
        BY <1>3, <3>2
  <2> QED
      BY <2>1
<1> QED
    BY <1>4 DEF Min

-----------------------------------------------------------------------------
(* The DNS servers.                                                        *)

Texts == {"v4", "w4", "v6", "blank"}

\* What KeptServers computes of the first n servers.
IsAmong(f, servers, n) ==
    /\ f \in [0..n -> Seq({"v4", "w4"})]
    /\ f[0] = <<>>
    /\ \A m \in 1..n : f[m] = IF servers[m] \in {"v6", "blank"}
                                THEN f[m - 1] ELSE Append(f[m - 1], servers[m])

\* There is such a function for every n: none is the least without one.
LEMMA AmongExists ==
    ASSUME NEW servers \in Seq(Texts), NEW n \in 0..Len(servers)
    PROVE  \E f : IsAmong(f, servers, n)
<1> DEFINE Without == {m \in 0..Len(servers) : ~ \E f : IsAmong(f, servers, m)}
<1>1. Len(servers) \in Nat
    OBVIOUS
<1>2. SUFFICES ASSUME Without # {} PROVE FALSE
    OBVIOUS
<1> DEFINE least == Min(Without)
<1>3. least \in Without /\ \A m \in Without : least <= m
  <2>1. Without \in SUBSET Nat
      BY <1>1
  <2> HIDE DEF Without
  <2> QED
      BY <1>2, <2>1, MinExists
<1>4. least \in 0..Len(servers) /\ ~ \E f : IsAmong(f, servers, least)
    BY <1>3
<1> HIDE DEF least
<1>5. least # 0
  <2>1. IsAmong([m \in 0..0 |-> <<>>], servers, 0)
      BY DEF IsAmong
  <2> QED
      BY <1>4, <2>1
<1>6. PICK f : IsAmong(f, servers, least - 1)
  <2>1. least - 1 \in 0..Len(servers) /\ ~ (least <= least - 1)
      BY <1>1, <1>4, <1>5
  <2> QED
      BY <1>3, <2>1
<1> DEFINE next == IF servers[least] \in {"v6", "blank"} THEN f[least - 1]
                                                       ELSE Append(f[least - 1], servers[least])
           g    == [m \in 0..least |-> IF m = least THEN next ELSE f[m]]
<1>7. next \in Seq({"v4", "w4"})
  <2>1. f[least - 1] \in Seq({"v4", "w4"})
      BY <1>1, <1>4, <1>5, <1>6 DEF IsAmong
  <2>2. servers[least] \in Texts
      BY <1>1, <1>4, <1>5
  <2> QED
      BY <2>1, <2>2 DEF Texts
<1> HIDE DEF next
<1>8. g \in [0..least -> Seq({"v4", "w4"})]
    BY <1>1, <1>4, <1>6, <1>7 DEF IsAmong
<1>9. g[0] = <<>>
    BY <1>1, <1>4, <1>5, <1>6 DEF IsAmong
<1>10. ASSUME NEW m \in 1..least
       PROVE  g[m] = IF servers[m] \in {"v6", "blank"}
                       THEN g[m - 1] ELSE Append(g[m - 1], servers[m])
  <2>1. m - 1 \in 0..least /\ m - 1 # least /\ g[m - 1] = f[m - 1] /\ m \in 0..least
      BY <1>1, <1>4
  <2>2. CASE m = least
      BY <2>1, <2>2 DEF next
  <2>3. CASE m # least
    <3>1. m \in 1..(least - 1) /\ g[m] = f[m]
        BY <1>1, <1>4, <2>1, <2>3
    <3> QED
        BY <1>6, <2>1, <3>1 DEF IsAmong
  <2> QED
      BY <2>2, <2>3
<1>11. IsAmong(g, servers, least)
    BY <1>8, <1>9, <1>10 DEF IsAmong
<1> QED
    BY <1>4, <1>11

\* Only servers that are neither blank nor IPv6 are left.
LEMMA KeptServersType ==
    ASSUME NEW servers \in Seq(Texts)
    PROVE  KeptServers(servers) \in Seq({"v4", "w4"})
<1> DEFINE n == Len(servers)
           body(h) == [m \in 0..Len(servers) |->
                          IF m = 0 THEN <<>>
                          ELSE IF servers[m] \in {"v6", "blank"} THEN h[m - 1]
                                                                ELSE Append(h[m - 1], servers[m])]
           among == CHOOSE h : h = body(h)
<1>1. n \in Nat
    OBVIOUS
<1>2. PICK f : IsAmong(f, servers, n)
    BY <1>1, AmongExists
<1>3. f = body(f)
  <2>1. f = [m \in 0..n |-> f[m]]
      BY <1>2 DEF IsAmong
  <2>2. ASSUME NEW m \in 0..n PROVE f[m] = body(f)[m]
    <3>1. CASE m = 0
        BY <1>2, <3>1 DEF IsAmong
    <3>2. CASE m # 0
      <4>1. m \in 1..n
          BY <1>1, <3>2
      <4> QED
          BY <1>2, <3>2, <4>1 DEF IsAmong
    <3> QED
        BY <3>1, <3>2
  <2>3. body(f) = [m \in 0..n |-> body(f)[m]]
      OBVIOUS
  <2> HIDE DEF body
  <2> QED
      BY <2>1, <2>2, <2>3
<1>4. among = body(among)
    BY <1>3
<1>5. /\ among[0] = <<>>
      /\ \A m \in 1..n : among[m] = IF servers[m] \in {"v6", "blank"}
                                      THEN among[m - 1] ELSE Append(among[m - 1], servers[m])
  <2>1. \A h : \A m \in 0..n :
            body(h)[m] = IF m = 0 THEN <<>>
                         ELSE IF servers[m] \in {"v6", "blank"} THEN h[m - 1]
                                                               ELSE Append(h[m - 1], servers[m])
      OBVIOUS
  <2> HIDE DEF among, body
  <2>2. \A m \in 0..n :
            among[m] = IF m = 0 THEN <<>>
                       ELSE IF servers[m] \in {"v6", "blank"}
                              THEN among[m - 1] ELSE Append(among[m - 1], servers[m])
      BY <1>4, <2>1, Zenon
  <2> QED
      BY <1>1, <2>2
<1>6. KeptServers(servers) = among[n]
    BY DEF KeptServers
<1> DEFINE Wrong == {m \in 0..n : among[m] \notin Seq({"v4", "w4"})}
           least == Min(Wrong)
<1> HIDE DEF among, body
<1>7. ASSUME Wrong # {} PROVE FALSE
  <2>1. Wrong \in SUBSET Nat
      BY <1>1
  <2>2. least \in Wrong /\ \A m \in Wrong : least <= m
    <3> HIDE DEF Wrong
    <3> QED
        BY <1>7, <2>1, MinExists
  <2> HIDE DEF least
  <2>least. least \in 0..n /\ among[least] \notin Seq({"v4", "w4"})
      BY <2>2
  <2>positive. least # 0
    <3>1. <<>> \in Seq({"v4", "w4"})
        OBVIOUS
    <3> QED
        BY <1>5, <2>least, <3>1
  <2> HIDE DEF n
  <2>3. least \in 1..n /\ least - 1 \in 0..n /\ ~ (least <= least - 1)
      BY <1>1, <2>least, <2>positive
  <2>4. among[least - 1] \in Seq({"v4", "w4"})
      BY <2>2, <2>3
  <2>5. servers[least] \in Texts
      BY <2>3 DEF n
  <2>6. among[least] = IF servers[least] \in {"v6", "blank"}
                         THEN among[least - 1] ELSE Append(among[least - 1], servers[least])
      BY <1>5, <2>3
  <2>7. CASE servers[least] \in {"v6", "blank"}
      BY <2>least, <2>4, <2>6, <2>7
  <2>8. CASE servers[least] \notin {"v6", "blank"}
    <3>1. servers[least] \in {"v4", "w4"}
        BY <2>5, <2>8 DEF Texts
    <3>2. Append(among[least - 1], servers[least]) \in Seq({"v4", "w4"})
        BY <2>4, <3>1
    <3> QED
        BY <2>least, <2>6, <2>8, <3>2
  <2> QED
      BY <2>7, <2>8
<1> QED
    BY <1>1, <1>6, <1>7

-----------------------------------------------------------------------------
(* The steps.                                                              *)

\* A profile that came from a link is what the importer made of it.
FromLink == link # NoLink => ~ImportFails(link) /\ profile = Imported(link)

\* What each stage says of the link, the profile and the configuration.
ConfigInv ==
    /\ stage \in {"start", "profile", "config", "error"}
    /\ link # NoLink => link \in Links
    /\ profile.protocol \in AllProtocols
    /\ profile.wireguard \in {"absent", "v4", "v6"}
    /\ stage = "start" => link = NoLink /\ profile = Blank
    /\ stage = "profile" => FromLink
    /\ stage = "config" =>
          /\ FromLink /\ Valid(profile) /\ OutboundOK(profile)
          /\ options \in Options /\ config = Generated(profile, options)
    /\ stage = "error" =>
          \/ link # NoLink /\ ImportFails(link) /\ profile = Blank
          \/ FromLink /\ ~(Valid(profile) /\ OutboundOK(profile))

\* The fields of an imported profile.
LEMMA ImportedFields ==
    ASSUME NEW l
    PROVE  LET p == Imported(l)
           IN  /\ p.protocol = l.scheme /\ p.named = l.host
               /\ p.uuid = ImportedAuth(l).uuid /\ p.password = ImportedAuth(l).password
               /\ p.method = ImportedAuth(l).method /\ p.username = ImportedAuth(l).username
               /\ p.wireguard = "absent" /\ p.reality = ImportedReality(l)
               /\ p.tls = ImportedTls(l) /\ p.transport = ImportedTransport(l)
               /\ p.key = IF l.scheme \in OwnParser THEN "absent" ELSE l.key
               /\ p.provider = IF l.scheme \in OwnParser THEN "wb_stream" ELSE l.provider
<1>1. ASSUME NEW a, NEW b, NEW c, NEW d, NEW e, NEW f, NEW g, NEW h, NEW i, NEW j, NEW k
      PROVE  LET p == [Blank EXCEPT !.protocol = a, !.named = b, !.uuid = c, !.password = d,
                                    !.method = e, !.username = k, !.reality = f, !.tls = g, !.transport = h,
                                    !.key = i, !.provider = j]
             IN  /\ p.protocol = a /\ p.named = b /\ p.uuid = c /\ p.password = d
                 /\ p.method = e /\ p.username = k /\ p.reality = f /\ p.tls = g /\ p.transport = h
                 /\ p.key = i /\ p.provider = j /\ p.wireguard = "absent"
    BY DEF Blank
<1> QED
    BY <1>1 DEF Imported

\* The scheme of a link is the protocol of its profile.
LEMMA LinkScheme ==
    ASSUME NEW l \in Links
    PROVE  l.scheme \in AllProtocols \ {"tun", "mixed"}
    BY ConfigAssumption DEF Links, CredentialLinks, WireLinks

\* Nothing ever connects with the profile of a link that was not imported.
LEMMA BlankInvalid == ~Valid(Blank)
    BY DEF Valid, CredentialsValid, Blank

\* Importing, validating and generating keep the invariant.
LEMMA ConfigStep == ConfigInv /\ [Next]_vars => ConfigInv'
<1> SUFFICES ASSUME ConfigInv, [Next]_vars PROVE ConfigInv'
    OBVIOUS
<1>1. ASSUME stage = "start", NEW l \in Links, ImportServer(l) PROVE ConfigInv'
  <2>1. link' = l /\ l \in Links
      BY <1>1 DEF ImportServer
  <2>2. CASE ImportFails(l)
    <3>1. stage' = "error" /\ profile' = Blank
        BY <1>1, <2>2 DEF ImportServer, ConfigInv
    <3>2. l # NoLink
        BY LinkScheme DEF NoLink, AllProtocols
    <3> QED
        BY <2>1, <2>2, <3>1, <3>2 DEF ConfigInv, FromLink, Blank, AllProtocols
  <2>3. CASE ~ImportFails(l)
    <3>1. stage' = "profile" /\ profile' = Imported(l)
        BY <1>1, <2>3 DEF ImportServer
    <3>2. Imported(l).protocol \in AllProtocols /\ Imported(l).wireguard = "absent"
        BY ImportedFields, LinkScheme
    <3> QED
        BY <2>1, <2>3, <3>1, <3>2 DEF ConfigInv, FromLink
  <2> QED
      BY <2>2, <2>3
<1>2. ASSUME stage = "start", NEW p \in Profiles, FromApplication(p) PROVE ConfigInv'
  <2>1. p.protocol \in AllProtocols /\ p.wireguard \in {"absent", "v4", "v6"}
      BY ConfigAssumption DEF Profiles
  <2>2. stage' = "profile" /\ profile' = p /\ link' = NoLink
      BY <1>2 DEF FromApplication, ConfigInv
  <2> QED
      BY <2>1, <2>2 DEF ConfigInv, FromLink
<1>3. CASE Refuse
    BY <1>3 DEF Refuse, ConfigInv, FromLink
<1>4. ASSUME NEW o \in Options, Generate(o) PROVE ConfigInv'
  <2>1. /\ stage = "profile" /\ stage' = "config" /\ options' = o /\ config' = Generated(profile, o)
        /\ Valid(profile) /\ OutboundOK(profile) /\ link' = link /\ profile' = profile
      BY <1>4 DEF Generate
  <2> QED
      BY <2>1 DEF ConfigInv, FromLink
<1>5. CASE UNCHANGED vars
    BY <1>5 DEF vars, ConfigInv, FromLink
<1> QED
    BY <1>1, <1>2, <1>3, <1>4, <1>5 DEF Next

\* The inductive invariant holds in every state.
LEMMA ConfigInvariant == Spec => []ConfigInv
<1>1. Init => ConfigInv
    BY DEF Init, ConfigInv, FromLink, Blank, AllProtocols
<1> QED
    BY <1>1, ConfigStep, PTL DEF Spec

-----------------------------------------------------------------------------
(* Validation and generation agree.                                        *)

\* What generation refuses of a valid profile.
LEMMA ValidOutbound ==
    ASSUME NEW p, p.protocol \in AllProtocols, p.wireguard \in {"absent", "v4", "v6"},
           Valid(p), ~OutboundOK(p)
    PROVE  \/ p.protocol = "wireguard" /\ p.wireguard = "v6"
           \/ p.protocol = "olcrtc" /\ Filled(p.key)
    BY DEF AllProtocols, Valid, CredentialsValid, OutboundOK, OlcConfigOK, OlcKey, Or,
           NonEmpty, Filled

\* A profile validate accepts is refused by connect only for what validate does
\* not look at.
THEOREM ConfigValidConnects == Spec => []ValidConnects
<1>1. ConfigInv => ValidConnects
    BY BlankInvalid, ValidOutbound DEF ConfigInv, ValidConnects
<1> QED
    BY <1>1, ConfigInvariant, PTL

-----------------------------------------------------------------------------
(* The DNS section.                                                        *)

\* There is an upstream and none of them is blank or IPv6.
LEMMA DnsUpstreamsUsable ==
    ASSUME NEW servers \in Seq(Texts)
    PROVE  LET up == DnsUpstreams(servers)
           IN  up \in Seq({"v4", "w4", "1.1.1.1", "8.8.8.8"}) /\ up # <<>>
<1> DEFINE All == {"v4", "w4", "1.1.1.1", "8.8.8.8"}
           left == KeptServers(servers)
<1>1. left \in Seq({"v4", "w4"})
    BY KeptServersType
<1>2. DnsUpstreams(servers) = IF left = <<>> THEN <<"1.1.1.1", "8.8.8.8">> ELSE left
    BY DEF DnsUpstreams
<1> HIDE DEF left
<1>3. left \in Seq(All)
    BY <1>1
<1>4. <<"1.1.1.1", "8.8.8.8">> \in Seq(All) /\ <<"1.1.1.1", "8.8.8.8">> # <<>>
    OBVIOUS
<1> QED
    BY <1>2, <1>3, <1>4

\* Whatever DNS servers are configured, there is a server for "final", which is
\* the bootstrap server too, and none of them is blank or IPv6.
THEOREM ConfigDnsUsable == Spec => []DnsUsable
<1>1. ASSUME NEW o \in Options, NEW p
      PROVE  LET dns == Generated(p, o).dns
             IN  /\ 0 \in DOMAIN dns.tagged
                 /\ dns.bootstrap = dns.tagged[0]
                 /\ \A i \in DOMAIN dns.tagged : dns.tagged[i] \notin {"v6", "blank"}
  <2>1. o.servers \in Seq(Texts)
      BY ConfigAssumption DEF Options, Texts
  <2> DEFINE up == DnsUpstreams(o.servers)
  <2>2. up \in Seq({"v4", "w4", "1.1.1.1", "8.8.8.8"}) /\ up # <<>>
      BY <2>1, DnsUpstreamsUsable
  <2>3. Generated(p, o).dns = DnsServers(up)
      BY DEF Generated
  <2> HIDE DEF up
  <2>4. Len(up) \in Nat \ {0} /\ Head(up) = up[1]
      BY <2>2
  <2>5. \A i \in 0..(Len(up) - 1) : up[i + 1] \in {"v4", "w4", "1.1.1.1", "8.8.8.8"}
      BY <2>2, <2>4
  <2> QED
      BY <2>2, <2>3, <2>4, <2>5 DEF DnsServers
<1>2. ConfigInv => DnsUsable
    BY <1>1 DEF ConfigInv, DnsUsable
<1> QED
    BY <1>2, ConfigInvariant, PTL

-----------------------------------------------------------------------------
(* The route rules.                                                        *)

\* A list, of rules of any kind.
List(rules) == \E R : rules \in Seq(R)

\* Some rule of the list matches.
Hit(rules, packet) == \E i \in DOMAIN rules : Matches(rules[i], packet)

\* The first rule that matches decides.
LEMMA RouteFirst ==
    ASSUME NEW R, NEW rules \in Seq(R), NEW packet, NEW i \in DOMAIN rules,
           Matches(rules[i], packet),
           \A j \in DOMAIN rules : j < i => ~Matches(rules[j], packet)
    PROVE  Route(rules, packet) = rules[i].act
<1> DEFINE hits == {k \in DOMAIN rules : Matches(rules[k], packet)}
<1>1. hits \in SUBSET Nat /\ i \in hits
    OBVIOUS
<1>2. Min(hits) \in hits /\ \A k \in hits : Min(hits) <= k
  <2> HIDE DEF hits
  <2> QED
      BY <1>1, MinExists
<1>3. Min(hits) = i
  <2>1. Min(hits) \in DOMAIN rules /\ Matches(rules[Min(hits)], packet) /\ Min(hits) <= i
      BY <1>1, <1>2
  <2> HIDE DEF hits
  <2> QED
      BY <1>1, <2>1
<1>4. hits # {}
    BY <1>1
<1> QED
    BY <1>3, <1>4 DEF Route

\* Where there is a match there is a first one.
LEMMA FirstHit ==
    ASSUME NEW R, NEW rules \in Seq(R), NEW packet, Hit(rules, packet)
    PROVE  \E i \in DOMAIN rules :
              /\ Matches(rules[i], packet)
              /\ \A j \in DOMAIN rules : j < i => ~Matches(rules[j], packet)
<1> DEFINE hits == {k \in DOMAIN rules : Matches(rules[k], packet)}
<1>1. hits \in SUBSET Nat /\ hits # {}
    BY DEF Hit
<1>2. Min(hits) \in hits /\ \A k \in hits : Min(hits) <= k
  <2> HIDE DEF hits
  <2> QED
      BY <1>1, MinExists
<1> DEFINE first == Min(hits)
<1>3. first \in DOMAIN rules /\ Matches(rules[first], packet)
    BY <1>2
<1>4. \A j \in DOMAIN rules : j < first => ~Matches(rules[j], packet)
  <2> HIDE DEF first
  <2> SUFFICES ASSUME NEW j \in DOMAIN rules, j < first, Matches(rules[j], packet) PROVE FALSE
      OBVIOUS
  <2>1. first <= j
      BY <1>2 DEF first
  <2> QED
      BY <1>3, <2>1
<1> QED
    BY <1>3, <1>4

\* Of two lists of rules the second decides only when none of the first matches.
LEMMA RouteCat ==
    ASSUME NEW a, NEW b, List(a), List(b), NEW packet
    PROVE  /\ List(a \o b)
           /\ Hit(a \o b, packet) <=> Hit(a, packet) \/ Hit(b, packet)
           /\ Hit(a, packet) => Route(a \o b, packet) = Route(a, packet)
           /\ ~Hit(a, packet) /\ Hit(b, packet) => Route(a \o b, packet) = Route(b, packet)
<1> PICK R : a \in Seq(R) /\ b \in Seq(R)
  <2>1. PICK A : a \in Seq(A)
      BY DEF List
  <2>2. PICK B : b \in Seq(B)
      BY DEF List
  <2>3. a \in Seq(A \cup B) /\ b \in Seq(A \cup B)
      BY <2>1, <2>2
  <2> QED
      BY <2>3
<1>1. /\ a \o b \in Seq(R) /\ Len(a) \in Nat /\ Len(b) \in Nat
      /\ DOMAIN a = 1..Len(a) /\ DOMAIN b = 1..Len(b) /\ DOMAIN (a \o b) = 1..(Len(a) + Len(b))
      /\ \A i \in 1..Len(a) : (a \o b)[i] = a[i]
      /\ \A i \in 1..Len(b) : (a \o b)[Len(a) + i] = b[i]
  <2>1. a \o b \in Seq(R) /\ Len(a) \in Nat /\ Len(b) \in Nat /\ Len(a \o b) = Len(a) + Len(b)
      OBVIOUS
  <2> QED
      BY <2>1
<1> DEFINE c == a \o b
<1> HIDE DEF c
<1>2. /\ \A i \in DOMAIN a : i \in DOMAIN c /\ c[i] = a[i]
      /\ \A i \in DOMAIN b : Len(a) + i \in DOMAIN c /\ c[Len(a) + i] = b[i]
      /\ \A i \in DOMAIN c : i \in DOMAIN a \/ (i - Len(a) \in DOMAIN b /\ c[i] = b[i - Len(a)])
    BY <1>1 DEF c
<1>3. Hit(c, packet) <=> Hit(a, packet) \/ Hit(b, packet)
    BY <1>2 DEF Hit
<1>4. ASSUME Hit(a, packet) PROVE Route(c, packet) = Route(a, packet)
  <2>1. PICK i \in DOMAIN a : /\ Matches(a[i], packet)
                              /\ \A j \in DOMAIN a : j < i => ~Matches(a[j], packet)
      BY <1>4, FirstHit
  <2>2. \A j \in DOMAIN c : j < i => j \in DOMAIN a
      BY <1>1 DEF c
  <2>3. Route(c, packet) = c[i].act
      BY <1>1, <1>2, <2>1, <2>2, RouteFirst DEF c
  <2>4. Route(a, packet) = a[i].act
      BY <2>1, RouteFirst
  <2> QED
      BY <1>2, <2>3, <2>4
<1>5. ASSUME ~Hit(a, packet), Hit(b, packet) PROVE Route(c, packet) = Route(b, packet)
  <2>1. PICK i \in DOMAIN b : /\ Matches(b[i], packet)
                              /\ \A j \in DOMAIN b : j < i => ~Matches(b[j], packet)
      BY <1>5, FirstHit
  <2>2. \A j \in DOMAIN c : j < Len(a) + i => ~Matches(c[j], packet)
    <3> SUFFICES ASSUME NEW j \in DOMAIN c, j < Len(a) + i PROVE ~Matches(c[j], packet)
        OBVIOUS
    <3>1. CASE j \in DOMAIN a
        BY <1>2, <1>5, <3>1 DEF Hit
    <3>2. CASE j - Len(a) \in DOMAIN b /\ c[j] = b[j - Len(a)]
      <4>1. j - Len(a) < i
          BY <1>1, <3>2 DEF c
      <4> QED
          BY <2>1, <3>2, <4>1
    <3> QED
        BY <1>2, <3>1, <3>2
  <2>3. Len(a) + i \in DOMAIN c /\ c[Len(a) + i] = b[i]
      BY <1>2
  <2>4. Route(c, packet) = c[Len(a) + i].act
      BY <1>1, <2>1, <2>2, <2>3, RouteFirst DEF c
  <2>5. Route(b, packet) = b[i].act
      BY <2>1, RouteFirst
  <2> QED
      BY <2>3, <2>4, <2>5
<1> QED
    BY <1>1, <1>3, <1>4, <1>5 DEF c, List

\* A rule for port 53 is not one for all ports.
LEMMA OnePort == {53} # Ports
<1>1. 443 \in Ports /\ 443 \notin {53}
    BY DEF Ports
<1> QED
    BY <1>1

\* A list of no rule, of one and of two.
LEMMA FewRules ==
    ASSUME NEW packet
    PROVE  /\ List(<<>>) /\ ~Hit(<<>>, packet)
           /\ \A rule :
                 /\ List(<<rule>>)
                 /\ Hit(<<rule>>, packet) <=> Matches(rule, packet)
                 /\ Hit(<<rule>>, packet) => Route(<<rule>>, packet) = rule.act
           /\ \A first, second :
                 /\ List(<<first, second>>)
                 /\ Hit(<<first, second>>, packet) <=> Matches(first, packet) \/ Matches(second, packet)
                 /\ Matches(first, packet) => Route(<<first, second>>, packet) = first.act
                 /\ ~Matches(first, packet) /\ Matches(second, packet) =>
                       Route(<<first, second>>, packet) = second.act
<1>1. List(<<>>) /\ ~Hit(<<>>, packet)
  <2>1. <<>> \in Seq({})
      OBVIOUS
  <2> QED
      BY <2>1 DEF List, Hit
<1>2. ASSUME NEW rule
      PROVE  /\ List(<<rule>>)
             /\ Hit(<<rule>>, packet) <=> Matches(rule, packet)
             /\ Hit(<<rule>>, packet) => Route(<<rule>>, packet) = rule.act
  <2> DEFINE rules == <<rule>>
  <2>1. rules \in Seq({rule}) /\ DOMAIN rules = {1} /\ rules[1] = rule
      OBVIOUS
  <2> HIDE DEF rules
  <2>2. Hit(rules, packet) <=> Matches(rule, packet)
      BY <2>1 DEF Hit
  <2>3. ASSUME Matches(rule, packet) PROVE Route(rules, packet) = rule.act
    <3>1. \A j \in DOMAIN rules : j < 1 => ~Matches(rules[j], packet)
        BY <2>1
    <3> QED
        BY <2>1, <2>3, <3>1, RouteFirst
  <2> QED
      BY <2>1, <2>2, <2>3 DEF rules, List
<1>3. ASSUME NEW first, NEW second
      PROVE  /\ List(<<first, second>>)
             /\ Hit(<<first, second>>, packet) <=> Matches(first, packet) \/ Matches(second, packet)
             /\ Matches(first, packet) => Route(<<first, second>>, packet) = first.act
             /\ ~Matches(first, packet) /\ Matches(second, packet) =>
                   Route(<<first, second>>, packet) = second.act
  <2> DEFINE rules == <<first, second>>
  <2>1. /\ rules \in Seq({first, second}) /\ DOMAIN rules = {1, 2}
        /\ rules[1] = first /\ rules[2] = second
      OBVIOUS
  <2> HIDE DEF rules
  <2>2. Hit(rules, packet) <=> Matches(first, packet) \/ Matches(second, packet)
      BY <2>1 DEF Hit
  <2>3. ASSUME Matches(first, packet) PROVE Route(rules, packet) = first.act
    <3>1. \A j \in DOMAIN rules : j < 1 => ~Matches(rules[j], packet)
        BY <2>1
    <3> QED
        BY <2>1, <2>3, <3>1, RouteFirst
  <2>4. ASSUME ~Matches(first, packet), Matches(second, packet)
        PROVE  Route(rules, packet) = second.act
    <3>1. \A j \in DOMAIN rules : j < 2 => ~Matches(rules[j], packet)
        BY <2>1, <2>4
    <3> QED
        BY <2>1, <2>4, <3>1, RouteFirst
  <2> QED
      BY <2>1, <2>2, <2>3, <2>4 DEF rules, List
<1> QED
    BY <1>1, <1>2, <1>3

\* DNS to the configured upstreams goes direct on a mobile system.
LEMMA DnsUpstreamRuleHit ==
    ASSUME NEW platform, NEW packet \in Packets
    PROVE  LET rules == DnsUpstreamRule(platform)
           IN  /\ List(rules)
               /\ Hit(rules, packet) <=> /\ Mobile(platform) /\ "upstream" \in packet.in
                                         /\ packet.port = 53 /\ packet.net \in {"tcp", "udp"}
               /\ Hit(rules, packet) => Route(rules, packet) = "direct"
<1> DEFINE rule == [Any EXCEPT !.net = {"tcp", "udp"}, !.port = {53}, !.list = "upstream",
                               !.act = "direct"]
<1>1. /\ rule.net = {"tcp", "udp"} /\ rule.port = {53} /\ rule.list = "upstream"
      /\ rule.dns = FALSE /\ rule.act = "direct"
    BY DEF Any
<1>4. Matches(rule, packet) <=> /\ "upstream" \in packet.in
                                /\ packet.port = 53 /\ packet.net \in {"tcp", "udp"}
  <2> HIDE DEF rule
  <2> QED
      BY <1>1, OnePort DEF Matches
<1> HIDE DEF rule
<1>5. DnsUpstreamRule(platform) = IF Mobile(platform) THEN <<rule>> ELSE <<>>
    BY DEF DnsUpstreamRule, rule
<1> QED
    BY <1>1, <1>4, <1>5, FewRules

\* Other DNS is hijacked.
LEMMA HijackRulesHit ==
    ASSUME NEW packet \in Packets
    PROVE  /\ List(HijackRules)
           /\ Hit(HijackRules, packet) <=> packet.dns \/ (packet.net = "udp" /\ packet.port = 53)
           /\ Hit(HijackRules, packet) => Route(HijackRules, packet) = "hijack"
<1> DEFINE known == [Any EXCEPT !.dns = TRUE, !.act = "hijack"]
           plain == [Any EXCEPT !.net = {"udp"}, !.port = {53}, !.act = "hijack"]
<1>1. /\ known.net = Nets /\ known.port = Ports /\ known.list = "any" /\ known.dns = TRUE
      /\ known.act = "hijack"
      /\ plain.net = {"udp"} /\ plain.port = {53} /\ plain.list = "any" /\ plain.dns = FALSE
      /\ plain.act = "hijack"
    BY DEF Any
<1>3. packet.net \in Nets
    BY DEF Packets
<1>4. HijackRules = <<known, plain>>
    BY DEF HijackRules
<1> HIDE DEF known, plain
<1>5. Matches(known, packet) <=> packet.dns
    BY <1>1, <1>3 DEF Matches
<1>6. Matches(plain, packet) <=> packet.net = "udp" /\ packet.port = 53
    BY <1>1, OnePort DEF Matches
<1> QED
    BY <1>1, <1>4, <1>5, <1>6, FewRules

\* What is local or exempted goes direct.
LEMMA BypassRulesHit ==
    ASSUME NEW bypass, NEW packet \in Packets
    PROVE  /\ List(LocalRule) /\ List(BypassRule(bypass))
           /\ Hit(LocalRule, packet) <=> "local" \in packet.in
           /\ Hit(LocalRule, packet) => Route(LocalRule, packet) = "direct"
           /\ Hit(BypassRule(bypass), packet) <=> "cidr" \in bypass /\ "bypass" \in packet.in
           /\ Hit(BypassRule(bypass), packet) => Route(BypassRule(bypass), packet) = "direct"
<1> DEFINE rule(list) == [Any EXCEPT !.list = list, !.act = "direct"]
<1>1. ASSUME NEW list \in {"local", "bypass"}
      PROVE  /\ rule(list).act = "direct"
             /\ Matches(rule(list), packet) <=> list \in packet.in
  <2>1. /\ rule(list).net = Nets /\ rule(list).port = Ports /\ rule(list).list = list
        /\ rule(list).dns = FALSE /\ rule(list).act = "direct"
      BY DEF Any
  <2>3. packet.net \in Nets
      BY DEF Packets
  <2>4. list # "any"
      OBVIOUS
  <2> HIDE DEF rule
  <2> QED
      BY <2>1, <2>3, <2>4 DEF Matches
<1>2. LocalRule = <<rule("local")>>
    BY DEF LocalRule
<1>3. BypassRule(bypass) = IF "cidr" \in bypass THEN <<rule("bypass")>> ELSE <<>>
    BY DEF BypassRule
<1> HIDE DEF rule
<1> QED
    BY <1>1, <1>2, <1>3, FewRules

\* Everything else is rejected or goes through the proxy.
LEMMA ProxyRulesHit ==
    ASSUME NEW packet \in Packets
    PROVE  /\ List(ProxyRules) /\ Hit(ProxyRules, packet)
           /\ Route(ProxyRules, packet) \in {"reject", "proxy"}
<1> DEFINE ping  == [Any EXCEPT !.net = {"icmp"}, !.act = "reject"]
           other == [Any EXCEPT !.net = {"tcp", "udp"}, !.act = "proxy"]
<1>1. /\ ping.net = {"icmp"} /\ ping.port = Ports /\ ping.list = "any" /\ ping.dns = FALSE
      /\ ping.act = "reject"
      /\ other.net = {"tcp", "udp"} /\ other.port = Ports /\ other.list = "any"
      /\ other.dns = FALSE /\ other.act = "proxy"
    BY DEF Any
<1>3. ProxyRules = <<ping, other>>
    BY DEF ProxyRules
<1>4. packet.net \in {"tcp", "udp", "icmp"}
    BY DEF Packets, Nets
<1> HIDE DEF ping, other
<1>5. Matches(ping, packet) <=> packet.net = "icmp"
    BY <1>1 DEF Matches
<1>6. Matches(other, packet) <=> packet.net \in {"tcp", "udp"}
    BY <1>1 DEF Matches
<1> QED
    BY <1>1, <1>3, <1>4, <1>5, <1>6, FewRules

\* The rules for the OLC RTC transport, behind all that, never decide.
LEMMA OlcRulesType ==
    ASSUME NEW protocol
    PROVE  List(OlcRules(protocol))
<1> DEFINE hosts == [Any EXCEPT !.list = "wb", !.act = "direct"]
           stun  == [Any EXCEPT !.net = {"tcp", "udp"}, !.port = {3478}, !.act = "direct"]
           rtc   == [Any EXCEPT !.net = {"tcp"}, !.port = {7880}, !.act = "direct"]
           rest  == [Any EXCEPT !.net = {"udp"}, !.act = "reject"]
<1>1. OlcRules(protocol) = IF protocol = "olcrtc" THEN <<hosts, stun, rtc, rest>> ELSE <<>>
    BY DEF OlcRules
<1> HIDE DEF hosts, stun, rtc, rest
<1>2. <<hosts, stun, rtc, rest>> \in Seq({hosts, stun, rtc, rest}) /\ <<>> \in Seq({})
    OBVIOUS
<1> QED
    BY <1>1, <1>2 DEF List

\* The route of a packet through all the rules.
LEMMA RouteRulesDirect ==
    ASSUME NEW platform, NEW protocol, NEW bypass, NEW packet \in Packets
    PROVE  Route(RouteRules(platform, protocol, bypass), packet) = "direct" <=>
              \/ /\ Mobile(platform) /\ "upstream" \in packet.in
                 /\ packet.port = 53 /\ packet.net \in {"tcp", "udp"}
              \/ /\ "local" \in packet.in \/ ("cidr" \in bypass /\ "bypass" \in packet.in)
                 /\ ~(packet.dns \/ (packet.net = "udp" /\ packet.port = 53))
<1> DEFINE u == DnsUpstreamRule(platform)
           h == HijackRules
           l == LocalRule
           b == BypassRule(bypass)
           p == ProxyRules
           o == OlcRules(protocol)
<1>1. RouteRules(platform, protocol, bypass) = ((((u \o h) \o l) \o b) \o p) \o o
    BY DEF RouteRules
<1>2. /\ List(u) /\ List(h) /\ List(l) /\ List(b) /\ List(p) /\ List(o)
      /\ Hit(u, packet) <=> /\ Mobile(platform) /\ "upstream" \in packet.in
                            /\ packet.port = 53 /\ packet.net \in {"tcp", "udp"}
      /\ Hit(u, packet) => Route(u, packet) = "direct"
      /\ Hit(h, packet) <=> packet.dns \/ (packet.net = "udp" /\ packet.port = 53)
      /\ Hit(h, packet) => Route(h, packet) = "hijack"
      /\ Hit(l, packet) <=> "local" \in packet.in
      /\ Hit(l, packet) => Route(l, packet) = "direct"
      /\ Hit(b, packet) <=> "cidr" \in bypass /\ "bypass" \in packet.in
      /\ Hit(b, packet) => Route(b, packet) = "direct"
      /\ Hit(p, packet) /\ Route(p, packet) \in {"reject", "proxy"}
    BY DnsUpstreamRuleHit, HijackRulesHit, BypassRulesHit, ProxyRulesHit, OlcRulesType
<1> HIDE DEF u, h, l, b, p, o
<1> DEFINE uh == u \o h
           uhl == uh \o l
           uhlb == uhl \o b
           uhlbp == uhlb \o p
<1>3. /\ List(uh)
      /\ Hit(uh, packet) <=> Hit(u, packet) \/ Hit(h, packet)
      /\ Hit(u, packet) => Route(uh, packet) = Route(u, packet)
      /\ ~Hit(u, packet) /\ Hit(h, packet) => Route(uh, packet) = Route(h, packet)
    BY <1>2, RouteCat
<1> HIDE DEF uh
<1>4. /\ List(uhl)
      /\ Hit(uhl, packet) <=> Hit(uh, packet) \/ Hit(l, packet)
      /\ Hit(uh, packet) => Route(uhl, packet) = Route(uh, packet)
      /\ ~Hit(uh, packet) /\ Hit(l, packet) => Route(uhl, packet) = Route(l, packet)
    BY <1>2, <1>3, RouteCat
<1> HIDE DEF uhl
<1>5. /\ List(uhlb)
      /\ Hit(uhlb, packet) <=> Hit(uhl, packet) \/ Hit(b, packet)
      /\ Hit(uhl, packet) => Route(uhlb, packet) = Route(uhl, packet)
      /\ ~Hit(uhl, packet) /\ Hit(b, packet) => Route(uhlb, packet) = Route(b, packet)
    BY <1>2, <1>4, RouteCat
<1> HIDE DEF uhlb
<1>6. /\ List(uhlbp) /\ Hit(uhlbp, packet)
      /\ Hit(uhlb, packet) => Route(uhlbp, packet) = Route(uhlb, packet)
      /\ ~Hit(uhlb, packet) => Route(uhlbp, packet) = Route(p, packet)
    BY <1>2, <1>5, RouteCat
<1> HIDE DEF uhlbp
<1>7. Route(uhlbp \o o, packet) = Route(uhlbp, packet)
    BY <1>2, <1>6, RouteCat
<1>8. RouteRules(platform, protocol, bypass) = uhlbp \o o
    BY <1>1 DEF uhlbp, uhlb, uhl, uh
<1> QED
    BY <1>2, <1>3, <1>4, <1>5, <1>6, <1>7, <1>8

\* Traffic that is local or exempted, DNS excluded, and DNS to the configured
\* upstreams on a mobile system leave outside the tunnel, and nothing else does
\* but, at most, the OLC RTC transport.
THEOREM ConfigDirectAsExempted == Spec => []DirectAsExempted
<1>1. ASSUME ConfigInv PROVE DirectAsExempted
  <2> SUFFICES ASSUME stage = "config", NEW packet \in Packets
               PROVE  Sent(packet) = "direct" <=>
                         ToBootstrap(packet) \/ (Bypassed(packet) /\ ~IsDns(packet))
      BY DEF DirectAsExempted
  <2>1. config.rules = RouteRules(options.platform, profile.protocol, options.bypass)
      BY <1>1 DEF ConfigInv, Generated
  <2> QED
      BY <2>1, RouteRulesDirect DEF Sent, ToBootstrap, Bypassed, IsDns
<1> QED
    BY <1>1, ConfigInvariant, PTL

-----------------------------------------------------------------------------
(* Links.                                                                  *)

\* What the fields of a link may be.
LEMMA LinkFields ==
    ASSUME NEW l \in Links
    PROVE  /\ l.scheme \in AllProtocols \ {"tun", "mixed"} /\ l.host \in BOOLEAN
           /\ l.user \in {"empty", "text", "hex64"}
           /\ l.password \in AllSecrets /\ l.key \in AllSecrets
           /\ l.provider \in {"wb_stream", "blank", "other"}
           /\ l.type \in Kinds \cup {"absent"} /\ l.security \in {"absent", "tls", "reality"}
           /\ l.query \in SUBSET (TransportParameters \cup TlsParameters)
<1>1. CASE l \in CredentialLinks
    BY <1>1, ConfigAssumption DEF CredentialLinks, AllSecrets
<1>2. CASE l \in WireLinks
    BY <1>2, ConfigAssumption DEF WireLinks, AllSecrets
<1> QED
    BY <1>1, <1>2 DEF Links

\* The credentials of an imported link satisfy validation and generation exactly
\* if the link carries what its scheme needs.
LEMMA CarriesConnects ==
    ASSUME NEW l \in Links, ~ImportFails(l)
    PROVE  Valid(Imported(l)) /\ OutboundOK(Imported(l)) <=> Carries(l)
<1> DEFINE p == Imported(l)
<1>1. /\ p.protocol = l.scheme /\ p.named = l.host
      /\ p.uuid = ImportedAuth(l).uuid /\ p.password = ImportedAuth(l).password
      /\ p.method = ImportedAuth(l).method
      /\ p.wireguard = "absent" /\ p.reality = ImportedReality(l)
      /\ p.key = IF l.scheme \in OwnParser THEN "absent" ELSE l.key
      /\ p.provider = IF l.scheme \in OwnParser THEN "wb_stream" ELSE l.provider
    BY ImportedFields
<1> HIDE DEF p
<1>2. /\ l.scheme \in AllProtocols \ {"tun", "mixed"} /\ l.host \in BOOLEAN
      /\ l.user \in {"empty", "text", "hex64"}
      /\ l.password \in AllSecrets /\ l.key \in AllSecrets
      /\ l.provider \in {"wb_stream", "blank", "other"}
    BY LinkFields
<1>3. Valid(p) <=> /\ l.host /\ CredentialsValid(p)
                   /\ l.security = "reality" => l.scheme \in OwnParser \cup {"vless"}
    BY <1>1 DEF Valid, ImportedReality
<1>4. CASE l.scheme \in {"vless", "vmess"}
  <2>1. p.uuid = l.user
      BY <1>1, <1>4 DEF ImportedAuth
  <2> QED
      BY <1>1, <1>2, <1>3, <1>4, <2>1 DEF CredentialsValid, OutboundOK, Carries, Filled, p
<1>5. CASE l.scheme \in {"trojan", "hysteria", "hysteria2", "tuic"}
  <2>1. p.password = l.user
      BY <1>1, <1>5 DEF ImportedAuth
  <2> QED
      BY <1>1, <1>2, <1>3, <1>5, <2>1 DEF CredentialsValid, OutboundOK, Carries, Filled, p
<1>6. CASE l.scheme = "shadowsocks"
  <2>1. p.password = l.password /\ p.method = l.user
      BY <1>1, <1>6 DEF ImportedAuth, NoAuth
  <2> QED
      BY <1>1, <1>2, <1>3, <1>6, <2>1 DEF CredentialsValid, OutboundOK, Carries, Filled, p
<1>7. CASE l.scheme \in {"socks", "http"}
    BY <1>1, <1>2, <1>3, <1>7 DEF CredentialsValid, OutboundOK, Carries, p
<1>8. CASE l.scheme = "wireguard"
    BY <1>1, <1>2, <1>3, <1>8 DEF CredentialsValid, OutboundOK, Carries, p
<1>9. CASE l.scheme = "olcrtc"
  <2>1. p.password = Or(l.key, Or(NonEmpty(l.password), NonEmpty(l.user)))
      BY <1>1, <1>9 DEF ImportedAuth, NoAuth
  <2>2. p.key = l.key /\ p.provider = l.provider
      BY <1>1, <1>9 DEF OwnParser
  <2>3. CredentialsValid(p) /\ OutboundOK(p) <=>
            /\ p.password = "hex64" /\ l.provider = "wb_stream"
            /\ Or(NonEmpty(l.key), p.password) = "hex64"
      BY <1>1, <1>9, <2>2 DEF CredentialsValid, OutboundOK, OlcConfigOK, OlcKey
  <2>4. p.password = "hex64" <=>
            \/ l.key = "hex64"
            \/ l.key = "absent" /\ l.password = "hex64"
            \/ l.key = "absent" /\ ~Filled(l.password) /\ l.user = "hex64"
      BY <1>2, <2>1 DEF AllSecrets, Or, NonEmpty, Filled
  <2>5. p.password = "hex64" => Or(NonEmpty(l.key), p.password) = "hex64"
      BY <1>2, <2>4 DEF AllSecrets, Or, NonEmpty
  <2> QED
      BY <1>3, <1>9, <2>3, <2>4, <2>5 DEF Carries, p
<1> QED
    BY <1>2, <1>4, <1>5, <1>6, <1>7, <1>8, <1>9 DEF AllProtocols

\* The credentials of the outbound of an imported link.
LEMMA AuthOfLink ==
    ASSUME NEW l \in Links, Carries(l), config.auth = OutboundAuth(Imported(l))
    PROVE  AuthKept(l)
<1> DEFINE p == Imported(l)
<1>1. /\ p.protocol = l.scheme
      /\ p.uuid = ImportedAuth(l).uuid /\ p.password = ImportedAuth(l).password
      /\ p.method = ImportedAuth(l).method /\ p.username = ImportedAuth(l).username
    BY ImportedFields
<1>2. config.auth = OutboundAuth(p)
    OBVIOUS
<1> HIDE DEF p
<1>3. l.scheme \in AllProtocols \ {"tun", "mixed", "wireguard"}
    BY LinkFields DEF Carries
<1>4. CASE l.scheme \in {"vless", "vmess"}
  <2>1. config.auth = [NoAuth EXCEPT !.uuid = l.user] /\ l.user # "empty"
      BY <1>1, <1>2, <1>4 DEF OutboundAuth, ImportedAuth, NoAuth, Carries
  <2> QED
      BY <1>4, <2>1 DEF AuthKept, NoAuth, NonEmpty
<1>5. CASE l.scheme \in {"trojan", "hysteria", "hysteria2"}
  <2>1. config.auth = [NoAuth EXCEPT !.password = l.user] /\ l.user # "empty"
      BY <1>1, <1>2, <1>5 DEF OutboundAuth, ImportedAuth, NoAuth, Carries
  <2> QED
      BY <1>5, <2>1 DEF AuthKept, NoAuth, NonEmpty
<1>6. CASE l.scheme = "tuic"
  <2>1. config.auth = [NoAuth EXCEPT !.uuid = l.uuid, !.password = l.user] /\ l.user # "empty"
      BY <1>1, <1>2, <1>6 DEF OutboundAuth, ImportedAuth, NoAuth, Carries
  <2> QED
      BY <1>6, <2>1 DEF AuthKept, NoAuth, NonEmpty
<1>7. CASE l.scheme = "shadowsocks"
  <2>1. /\ config.auth = [NoAuth EXCEPT !.method = l.user, !.password = l.password]
        /\ l.user # "empty" /\ l.password # "empty"
      BY <1>1, <1>2, <1>7 DEF OutboundAuth, ImportedAuth, NoAuth, Carries, Filled
  <2> QED
      BY <1>7, <2>1 DEF AuthKept, NoAuth, NonEmpty
<1>8. CASE l.scheme \in {"socks", "http"}
  <2>1. config.auth = [NoAuth EXCEPT !.username = NonEmpty(l.user), !.password = NonEmpty(l.password)]
      BY <1>1, <1>2, <1>8 DEF OutboundAuth, ImportedAuth, NoAuth
  <2> QED
      BY <1>8, <2>1 DEF AuthKept, NoAuth
<1>9. CASE l.scheme = "olcrtc"
  <2>1. config.auth = NoAuth
      BY <1>1, <1>2, <1>9 DEF OutboundAuth
  <2> QED
      BY <1>9, <2>1 DEF AuthKept, NoAuth
<1> QED
    BY <1>3, <1>4, <1>5, <1>6, <1>7, <1>8, <1>9 DEF AllProtocols

\* A link that cannot be imported does not carry what its scheme needs.
LEMMA ImportFailsNotCarries ==
    ASSUME NEW l \in Links, ImportFails(l)
    PROVE  ~Carries(l)
    BY LinkFields DEF ImportFails, Carries, Filled

\* What the importer reads of TLS.
LEMMA ImportedTlsFields ==
    ASSUME NEW l \in Links, l.scheme # "shadowsocks"
    PROVE  LET t == ImportedTls(l)
               secured == l.security \in {"tls", "reality"}
           IN  /\ t.enabled \in BOOLEAN
               /\ t.enabled <=> secured \/ ("sni" \in l.query /\ l.scheme # "vmess")
               /\ t.enabled /\ "sni" \in l.query => "sni" \in t.has
               /\ t.enabled => ("fp" \in t.has <=> "fp" \in l.query)
<1> DEFINE secured == l.security \in {"tls", "reality"}
           given == l.query \cap TlsParameters
<1>1. /\ "sni" \in given <=> "sni" \in l.query
      /\ "fp" \in given <=> "fp" \in l.query
    BY DEF TlsParameters
<1>bool. secured \in BOOLEAN
    OBVIOUS
<1>2. CASE l.scheme = "vmess"
  <2> DEFINE has == given \cup {x \in {"sni"} : "host" \in l.query}
  <2>1. ImportedTls(l) = [enabled |-> secured, has |-> has]
      BY <1>2 DEF ImportedTls
  <2>2. "fp" \in has <=> "fp" \in given
      OBVIOUS
  <2>3. "sni" \in given => "sni" \in has
      OBVIOUS
  <2> HIDE DEF given, has, secured
  <2>4. ImportedTls(l).enabled = secured /\ ImportedTls(l).has = has
      BY <2>1
  <2> QED
    <3>1. ImportedTls(l).enabled \in BOOLEAN
        BY <1>bool, <2>4
    <3> QED
        BY <1>1, <1>2, <2>2, <2>3, <2>4, <3>1 DEF secured
<1>3. CASE l.scheme # "vmess"
  <2>1. ImportedTls(l) = IF secured \/ "sni" \in given
                           THEN [enabled |-> TRUE, has |-> given] ELSE NoTls
      BY <1>3 DEF ImportedTls
  <2> HIDE DEF given, secured
  <2>2. CASE secured \/ "sni" \in given
    <3>1. ImportedTls(l).enabled = TRUE /\ ImportedTls(l).has = given
        BY <2>1, <2>2
    <3> QED
        BY <1>1, <1>3, <2>2, <3>1 DEF secured
  <2>3. CASE ~(secured \/ "sni" \in given)
    <3>1. ImportedTls(l).enabled = FALSE
        BY <2>1, <2>3 DEF NoTls
    <3> QED
        BY <1>1, <1>3, <2>3, <3>1 DEF secured
  <2> QED
      BY <2>2, <2>3
<1> QED
    BY <1>2, <1>3

\* What the generator writes of TLS.
LEMMA OutboundTlsFields ==
    ASSUME NEW p, p.reality \in BOOLEAN, p.tls.enabled \in BOOLEAN
    PROVE  LET t == OutboundTls(p)
           IN  /\ t.enabled <=> p.reality \/ p.tls.enabled
               /\ t.reality <=> p.reality
               /\ t.enabled => ("sni" \in t.has <=> "sni" \in p.tls.has)
               /\ t.enabled => ("fp" \in t.has <=> /\ "fp" \in p.tls.has
                                                  /\ p.protocol \notin {"hysteria", "hysteria2", "tuic"})
<1> DEFINE utls == IF p.protocol \in {"hysteria", "hysteria2", "tuic"} THEN {}
                   ELSE p.tls.has \cap {"fp"}
           a == (p.tls.has \cap {"sni"}) \cup utls
           b == (p.tls.has \ {"fp"}) \cup utls
<1>1. /\ "fp" \in utls <=> /\ "fp" \in p.tls.has
                           /\ p.protocol \notin {"hysteria", "hysteria2", "tuic"}
      /\ "sni" \notin utls
    OBVIOUS
<1>2. OutboundTls(p) =
          CASE p.reality -> [enabled |-> TRUE, reality |-> TRUE, has |-> a]
            [] ~p.reality /\ p.tls.enabled -> [enabled |-> TRUE, reality |-> FALSE, has |-> b]
            [] OTHER -> [enabled |-> FALSE, reality |-> FALSE, has |-> {}]
    BY DEF OutboundTls
<1> HIDE DEF utls
<1>3. /\ "sni" \in a <=> "sni" \in p.tls.has
      /\ "sni" \in b <=> "sni" \in p.tls.has
      /\ "fp" \in a <=> "fp" \in utls
      /\ "fp" \in b <=> "fp" \in utls
    BY <1>1
<1> HIDE DEF a, b
<1>4. CASE p.reality
  <2>1. OutboundTls(p) = [enabled |-> TRUE, reality |-> TRUE, has |-> a]
      BY <1>2, <1>4
  <2> QED
      BY <1>1, <1>3, <1>4, <2>1
<1>5. CASE ~p.reality /\ p.tls.enabled
  <2>1. OutboundTls(p) = [enabled |-> TRUE, reality |-> FALSE, has |-> b]
      BY <1>2, <1>5
  <2> QED
      BY <1>1, <1>3, <1>5, <2>1
<1>6. CASE ~p.reality /\ ~p.tls.enabled
  <2>1. OutboundTls(p) = [enabled |-> FALSE, reality |-> FALSE, has |-> {}]
      BY <1>2, <1>6
  <2> QED
      BY <1>6, <2>1
<1> QED
    BY <1>4, <1>5, <1>6

\* The transport a link names is the one that is written, with its parameters.
LEMMA TransportKept ==
    ASSUME NEW l \in Links, l.scheme # "shadowsocks", NEW p,
           p.transport = ImportedTransport(l)
    PROVE  LET t == OutboundTransport(p)
               service == IF l.scheme = "vmess" THEN "path" ELSE "service"
           IN  /\ t.kind = IF l.type = "absent" THEN "tcp" ELSE l.type
               /\ t.kind = "ws" => t.has = {x \in {"path"} : x \in l.query}
               /\ t.kind = "grpc" => ("service" \in t.has <=> service \in l.query)
               /\ t.kind \in {"httpupgrade", "xhttp"} => t.has = l.query \cap {"path", "host"}
<1> DEFINE kind  == IF l.type = "absent" THEN "tcp" ELSE l.type
           given == l.query \cap TransportParameters
           has   == IF l.scheme # "vmess" THEN given
                    ELSE (given \ {"service"}) \cup {x \in {"service"} : "path" \in given}
           service == IF l.scheme = "vmess" THEN "path" ELSE "service"
           written == CASE kind = "ws" -> {"path"}
                        [] kind = "grpc" -> {"service"}
                        [] kind \in {"httpupgrade", "xhttp"} -> {"path", "host"}
                        [] OTHER -> {}
<1>1. l.type \in Kinds \cup {"absent"} /\ l.security \in {"absent", "tls", "reality"}
    BY LinkFields
<1>2. p.transport = [kind |-> kind, has |-> has]
  <2> DEFINE asked == IF l.scheme = "vmess" THEN l.type ELSE Or(l.type, l.security)
  <2>1. (IF asked \in Kinds THEN asked ELSE "tcp") = kind
      BY <1>1 DEF Or, Kinds
  <2>2. ImportedTransport(l) = [kind |-> IF asked \in Kinds THEN asked ELSE "tcp", has |-> has]
      BY DEF ImportedTransport
  <2> QED
      BY <2>1, <2>2
<1>3. OutboundTransport(p) = [kind |-> kind, has |-> has \cap written]
    BY <1>2 DEF OutboundTransport
<1>4. /\ has \cap {"path"} = {x \in {"path"} : x \in l.query}
      /\ "service" \in has <=> service \in l.query
      /\ has \cap {"path", "host"} = l.query \cap {"path", "host"}
    BY DEF TransportParameters
<1>5. /\ kind = "ws" => written = {"path"}
      /\ kind = "grpc" => written = {"service"}
      /\ kind \in {"httpupgrade", "xhttp"} => written = {"path", "host"}
    OBVIOUS
<1> HIDE DEF kind, has, written, service
<1>6. OutboundTransport(p).kind = kind /\ OutboundTransport(p).has = has \cap written
    BY <1>3
<1> QED
    BY <1>4, <1>5, <1>6 DEF kind, service

\* A link connects exactly if it carries what is asked of its scheme, and then
\* sing-box is told its credentials, but for those AuthKept names, and what it
\* says of the wire.
THEOREM ConfigLinkConnects == Spec => []LinkConnects
<1>1. ASSUME ConfigInv, link # NoLink PROVE stage = "error" => ~Carries(link)
    BY <1>1, ImportFailsNotCarries, CarriesConnects DEF ConfigInv, FromLink
<1>2. ASSUME ConfigInv, link # NoLink PROVE stage = "config" => Carries(link)
    BY <1>2, CarriesConnects DEF ConfigInv, FromLink
<1>3. ASSUME ConfigInv, link # NoLink, stage = "config", link.scheme # "shadowsocks"
      PROVE  WireKept(link)
  <2>1. /\ link \in Links /\ profile = Imported(link) /\ Valid(profile)
        /\ config.tls = OutboundTls(profile) /\ config.transport = OutboundTransport(profile)
      BY <1>3 DEF ConfigInv, FromLink, Generated
  <2>2. /\ profile.protocol = link.scheme /\ profile.reality = ImportedReality(link)
        /\ profile.tls = ImportedTls(link) /\ profile.transport = ImportedTransport(link)
      BY <2>1, ImportedFields
  <2>3. profile.reality <=> link.security = "reality" /\ link.scheme = "vless"
      BY <2>1, <2>2 DEF Valid, ImportedReality, OwnParser
  <2>4. profile.reality \in BOOLEAN
      BY <2>2 DEF ImportedReality
  <2>5. /\ profile.tls.enabled \in BOOLEAN
        /\ profile.tls.enabled <=> \/ link.security \in {"tls", "reality"}
                                   \/ "sni" \in link.query /\ link.scheme # "vmess"
        /\ profile.tls.enabled /\ "sni" \in link.query => "sni" \in profile.tls.has
        /\ profile.tls.enabled => ("fp" \in profile.tls.has <=> "fp" \in link.query)
      BY <1>3, <2>1, <2>2, ImportedTlsFields
  <2>7. /\ config.tls.enabled <=> profile.reality \/ profile.tls.enabled
        /\ config.tls.reality <=> profile.reality
        /\ config.tls.enabled => ("sni" \in config.tls.has <=> "sni" \in profile.tls.has)
        /\ config.tls.enabled =>
              ("fp" \in config.tls.has <=> /\ "fp" \in profile.tls.has
                                           /\ link.scheme \notin {"hysteria", "hysteria2", "tuic"})
      BY <2>1, <2>2, <2>4, <2>5, OutboundTlsFields
  <2>8. LET t == config.transport
            service == IF link.scheme = "vmess" THEN "path" ELSE "service"
        IN  /\ t.kind = IF link.type = "absent" THEN "tcp" ELSE link.type
            /\ t.kind = "ws" => t.has = {x \in {"path"} : x \in link.query}
            /\ t.kind = "grpc" => ("service" \in t.has <=> service \in link.query)
            /\ t.kind \in {"httpupgrade", "xhttp"} => t.has = link.query \cap {"path", "host"}
      BY <1>3, <2>1, <2>2, TransportKept
  <2> QED
      BY <2>3, <2>5, <2>7, <2>8 DEF WireKept
<1>4. ASSUME ConfigInv, link # NoLink, stage = "config" PROVE AuthKept(link)
  <2>1. link \in Links /\ config.auth = OutboundAuth(Imported(link))
      BY <1>4 DEF ConfigInv, FromLink, Generated
  <2> QED
      BY <1>2, <1>4, <2>1, AuthOfLink
<1>5. ConfigInv => LinkConnects
    BY <1>1, <1>2, <1>3, <1>4 DEF LinkConnects
<1> QED
    BY <1>5, ConfigInvariant, PTL

=============================================================================
