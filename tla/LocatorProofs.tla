--------------------------- MODULE LocatorProofs ---------------------------
(***************************************************************************)
(* Proofs about LocatorSession for every value of the constants: the      *)
(* type invariant, and the lemmas on the operators of NodeLocator,        *)
(* LocatorUrl and LocatorConvert it rests on.                             *)
(***************************************************************************)
EXTENDS LocatorSession, TLAPS



(* None fills no slot a value of the model may hold. *)
LEMMA NoneFacts ==
    /\ None \notin PubKeys /\ None \notin InetAddrs /\ None \notin IpAddrs
    /\ None \notin Ports /\ None \notin Paths /\ None \notin Names
BY LocatorAssumption DEF InetAddrs, IpAddrs

(* A key is no address. *)
LEMMA KeyFacts ==
    ASSUME NEW k \in PubKeys
    PROVE  k \notin InetAddrs /\ k \notin Ip6
<1>1. k \notin InetAddrs
  BY LocatorAssumption
<1>2. QED
  BY <1>1 DEF InetAddrs, IpAddrs

(* with_port keeps a locator a locator. *)
LEMMA WithPortType ==
    ASSUME NEW v \in Locators, NEW p \in Ports
    PROVE  WithPort(v, p) \in Locators
BY DEF WithPort, Locators, LocatorsOf, PortKinds, InetKinds, OptPort

(* A locator belongs to one of the eight variant record sets. *)
LEMMA LocatorCases ==
    ASSUME NEW v \in Locators
    PROVE  \/ v \in [kind: Kinds \cap InetKinds, id: PubKeys, addr: InetAddrs,
                     port: OptPort, path: {None}, api: {None}]
           \/ v \in [kind: Kinds \cap {"Udp"}, id: PubKeys, addr: IpAddrs,
                     port: OptPort, path: {None}, api: {None}]
           \/ v \in [kind: Kinds \cap {"Posix"}, id: {None}, addr: {None},
                     port: {None}, path: Paths, api: {None}]
           \/ v \in [kind: Kinds \cap {"ZmqIpc"}, id: {None}, addr: {None},
                     port: {None}, path: Paths, api: ApiTypes]
           \/ v \in [kind: Kinds \cap {"ZmqInproc"}, id: {None}, addr: {None},
                     port: {None}, path: Names, api: ApiTypes]
           \/ v \in [kind: Kinds \cap {"ZmqTcpEncrypted"}, id: PubKeys, addr: IpAddrs,
                     port: OptPort, path: {None}, api: ApiTypes]
           \/ v \in [kind: Kinds \cap {"ZmqTcpUnencrypted"}, id: {None}, addr: IpAddrs,
                     port: OptPort, path: {None}, api: ApiTypes]
           \/ v \in [kind: Kinds \cap {"Text"}, id: PubKeys, addr: {None},
                     port: {None}, path: {None}, api: {None}]
BY Zenon DEF Locators, LocatorsOf

(* The empty String is no other token of a text. *)
LEMMA EmptyFacts ==
    /\ Empty # None /\ Empty # "/" /\ Empty # "//"
    /\ Empty \notin PubKeys /\ Empty \notin InetAddrs
BY LocatorAssumption

(* to_url_string of a locator is a text from_str may be given. *)
LEMMA ToUrlStringType ==
    ASSUME NEW v \in Locators
    PROVE  ToUrlString(v) \in ParseableTexts
<1>1. CASE v \in [kind: Kinds \cap InetKinds, id: PubKeys, addr: InetAddrs,
                  port: OptPort, path: {None}, api: {None}]
  <2>1. ToUrlString(v) \in Texts
    BY <1>1 DEF ToUrlString, UrlScheme, ApiName, ApiTypes, Kinds, InetKinds,
       LocalKinds, Texts, HostTexts, Schemes, InTokens, ApiTokens, InetAddrs,
       IpAddrs, OptPort
  <2>2. QED
    BY <1>1, <2>1, EmptyFacts, NoneFacts DEF ToUrlString, ParseableTexts, Kinds, InetKinds,
       LocalKinds
<1>2. CASE v \in [kind: Kinds \cap {"Udp"}, id: PubKeys, addr: IpAddrs,
                  port: OptPort, path: {None}, api: {None}]
  <2>1. ToUrlString(v) \in Texts
    BY <1>2 DEF ToUrlString, UrlScheme, ApiName, ApiTypes, Kinds, InetKinds,
       LocalKinds, Texts, HostTexts, Schemes, InTokens, ApiTokens, InetAddrs,
       IpAddrs, OptPort
  <2>2. QED
    BY <1>2, <2>1, EmptyFacts, NoneFacts DEF ToUrlString, ParseableTexts, Kinds, InetKinds,
       LocalKinds
<1>3. CASE v \in [kind: Kinds \cap {"Posix"}, id: {None}, addr: {None},
                  port: {None}, path: Paths, api: {None}]
  <2>1. ToUrlString(v) \in Texts
    BY <1>3 DEF ToUrlString, UrlScheme, ApiName, ApiTypes, Kinds, InetKinds,
       LocalKinds, Texts, HostTexts, Schemes, InTokens, ApiTokens, InetAddrs,
       IpAddrs, OptPort
  <2>2. QED
    BY <1>3, <2>1, EmptyFacts, NoneFacts DEF ToUrlString, ParseableTexts, Kinds, InetKinds,
       LocalKinds
<1>4. CASE v \in [kind: Kinds \cap {"ZmqIpc"}, id: {None}, addr: {None},
                  port: {None}, path: Paths, api: ApiTypes]
  <2>1. ToUrlString(v) \in Texts
    BY <1>4 DEF ToUrlString, UrlScheme, ApiName, ApiTypes, Kinds, InetKinds,
       LocalKinds, Texts, HostTexts, Schemes, InTokens, ApiTokens, InetAddrs,
       IpAddrs, OptPort
  <2>2. QED
    BY <1>4, <2>1, EmptyFacts, NoneFacts DEF ToUrlString, ParseableTexts, Kinds, InetKinds,
       LocalKinds
<1>5. CASE v \in [kind: Kinds \cap {"ZmqInproc"}, id: {None}, addr: {None},
                  port: {None}, path: Names, api: ApiTypes]
  <2>1. ToUrlString(v) \in Texts
    BY <1>5 DEF ToUrlString, UrlScheme, ApiName, ApiTypes, Kinds, InetKinds,
       LocalKinds, Texts, HostTexts, Schemes, InTokens, ApiTokens, InetAddrs,
       IpAddrs, OptPort
  <2>2. QED
    BY <1>5, <2>1, EmptyFacts, NoneFacts DEF ToUrlString, ParseableTexts, Kinds, InetKinds,
       LocalKinds
<1>6. CASE v \in [kind: Kinds \cap {"ZmqTcpEncrypted"}, id: PubKeys, addr: IpAddrs,
                  port: OptPort, path: {None}, api: ApiTypes]
  <2>1. ToUrlString(v) \in Texts
    BY <1>6 DEF ToUrlString, UrlScheme, ApiName, ApiTypes, Kinds, InetKinds,
       LocalKinds, Texts, HostTexts, Schemes, InTokens, ApiTokens, InetAddrs,
       IpAddrs, OptPort
  <2>2. QED
    BY <1>6, <2>1, EmptyFacts, NoneFacts DEF ToUrlString, ParseableTexts, Kinds, InetKinds,
       LocalKinds
<1>7. CASE v \in [kind: Kinds \cap {"ZmqTcpUnencrypted"}, id: {None}, addr: IpAddrs,
                  port: OptPort, path: {None}, api: ApiTypes]
  <2>1. ToUrlString(v) \in Texts
    BY <1>7 DEF ToUrlString, UrlScheme, ApiName, ApiTypes, Kinds, InetKinds,
       LocalKinds, Texts, HostTexts, Schemes, InTokens, ApiTokens, InetAddrs,
       IpAddrs, OptPort
  <2>2. QED
    BY <1>7, <2>1, EmptyFacts, NoneFacts DEF ToUrlString, ParseableTexts, Kinds, InetKinds,
       LocalKinds
<1>8. CASE v \in [kind: Kinds \cap {"Text"}, id: PubKeys, addr: {None},
                  port: {None}, path: {None}, api: {None}]
  <2>1. ToUrlString(v) \in Texts
    BY <1>8 DEF ToUrlString, UrlScheme, ApiName, ApiTypes, Kinds, InetKinds,
       LocalKinds, Texts, HostTexts, Schemes, InTokens, ApiTokens, InetAddrs,
       IpAddrs, OptPort
  <2>2. QED
    BY <1>8, <2>1, EmptyFacts, NoneFacts DEF ToUrlString, ParseableTexts, Kinds, InetKinds,
       LocalKinds
<1>9. QED
  BY <1>1, <1>2, <1>3, <1>4, <1>5, <1>6, <1>7, <1>8, LocatorCases

(* The lnp, lnph and lnpws branch returns a locator or an error. *)
LEMMA InetUrlType ==
    ASSUME NEW u, u.scheme \in {"lnp", "lnph", "lnpws"}, u.port \in OptPort
    PROVE  FromInetUrl(u) \in Results(Locators, ParseErrors)
<1>1. CASE u.user \in PubKeys /\ u.host \in InetAddrs
  <2>1. KindOfScheme[u.scheme] \in Kinds \cap InetKinds
    BY DEF KindOfScheme, Kinds, InetKinds, LocalKinds
  <2>2. Locator(KindOfScheme[u.scheme], u.user, u.host, u.port, None, None) \in Locators
    BY <1>1, <2>1 DEF Locator, Locators, LocatorsOf
  <2>3. QED
    BY <1>1, <2>2, NoneFacts DEF FromInetUrl, Ok, Results
<1>2. CASE ~(u.user \in PubKeys /\ u.host \in InetAddrs)
  <2>1. FromInetUrl(u) \in {Err("InvalidPubkey"), Err("HostRequired"), Err("InvalidHost")}
    BY <1>2 DEF FromInetUrl
  <2>2. QED
    BY <2>1 DEF Err, Results, ParseErrors
<1>3. QED
  BY <1>1, <1>2

(* The lnpu branch returns a locator or an error. *)
LEMMA UdpUrlType ==
    ASSUME NEW u, u.port \in OptPort
    PROVE  FromUdpUrl(u) \in Results(Locators, ParseErrors)
<1>1. CASE u.user \in PubKeys /\ u.host \in IpAddrs
  <2>1. Locator("Udp", u.user, u.host, u.port, None, None) \in Locators
    BY <1>1 DEF Locator, Locators, LocatorsOf, Kinds, InetKinds, LocalKinds
  <2>2. QED
    BY <1>1, <2>1, NoneFacts DEF FromUdpUrl, Ok, Results
<1>2. CASE ~(u.user \in PubKeys /\ u.host \in IpAddrs)
  <2>1. FromUdpUrl(u) \in {Err("InvalidPubkey"), Err("HostRequired"), Err("InvalidHost")}
    BY <1>2 DEF FromUdpUrl
  <2>2. QED
    BY <2>1 DEF Err, Results, ParseErrors
<1>3. QED
  BY <1>1, <1>2

(* The lnpt branch returns a locator or an error. *)
LEMMA TextUrlType ==
    ASSUME NEW u
    PROVE  FromTextUrl(u) \in Results(Locators, ParseErrors)
<1>1. CASE u.user \notin PubKeys /\ u.port = None /\ u.host \in PubKeys
  <2>1. Locator("Text", u.host, None, None, None, None) \in Locators
    BY <1>1 DEF Locator, Locators, LocatorsOf, Kinds, InetKinds, LocalKinds
  <2>2. QED
    BY <1>1, <2>1 DEF FromTextUrl, Ok, Results
<1>2. CASE ~(u.user \notin PubKeys /\ u.port = None /\ u.host \in PubKeys)
  <2>1. FromTextUrl(u) \in {Err("HostPresent"), Err("PortPresent"), Err("InvalidPubkey")}
    BY <1>2 DEF FromTextUrl
  <2>2. QED
    BY <2>1 DEF Err, Results, ParseErrors
<1>3. QED
  BY <1>1, <1>2

(* The api token decodes to an ApiType. *)
LEMMA ParseApiType ==
    ASSUME NEW a \in InTokens, Lower[a] \in ApiTokens
    PROVE  ParseApi[Lower[a]] \in ApiTypes
BY DEF ParseApi, Lower, InTokens, ApiTokens, ApiTypes

(* The lnpz branch returns a locator or an error. *)
LEMMA ZmqUrlType ==
    ASSUME NEW u, u.port \in OptPort, u.api \in InTokens \cup {None},
           u.host = None => u.path \in Paths \cup {Empty}
    PROVE  FromZmqUrl(u) \in Results(Locators, ParseErrors)
<1>1. CASE u.api # None /\ Lower[u.api] \in ApiTokens
  <2> DEFINE api == ParseApi[Lower[u.api]]
  <2>1. api \in ApiTypes
    BY <1>1, ParseApiType
  <2>2. Locator("ZmqTcpEncrypted", u.user, u.host, u.port, None, api) \in Locators
        \/ ~(u.host \in IpAddrs /\ u.user \in PubKeys)
    BY <2>1 DEF Locator, Locators, LocatorsOf, Kinds, InetKinds, LocalKinds
  <2>3. Locator("ZmqTcpUnencrypted", None, u.host, u.port, None, api) \in Locators
        \/ u.host \notin IpAddrs
    BY <2>1 DEF Locator, Locators, LocatorsOf, Kinds, InetKinds, LocalKinds
  <2>4. Locator("ZmqIpc", None, None, None, u.path, api) \in Locators
        \/ u.path \notin Paths
    BY <2>1 DEF Locator, Locators, LocatorsOf, Kinds, InetKinds, LocalKinds
  <2>5. QED
    BY <1>1, <2>2, <2>3, <2>4, NoneFacts
    DEF FromZmqUrl, Ok, Err, Results, ParseErrors
<1>2. CASE ~(u.api # None /\ Lower[u.api] \in ApiTokens)
  BY <1>2 DEF FromZmqUrl, Err, Results, ParseErrors
<1>3. QED
  BY <1>1, <1>2

(* The URLs from_str parses keep the port, api and path of their text. *)
UrlLike(t) ==
    /\ t.port \in OptPort /\ t.api \in InTokens \cup {None}
    /\ t.host = None => t.path \in Paths \cup {Empty}

(* TryFrom<Url> returns a locator or an error. *)
LEMMA TryFromUrlType ==
    ASSUME NEW u, UrlLike(u)
    PROVE  TryFromUrl(u) \in Results(Locators, ParseErrors)
<1>1. CASE u.scheme \in {"lnp", "lnph", "lnpws"}
  BY <1>1, InetUrlType DEF TryFromUrl, UrlLike
<1>2. CASE u.scheme = "lnpu"
  BY <1>2, UdpUrlType DEF TryFromUrl, UrlLike
<1>3. CASE u.scheme = "lnpz"
  BY <1>3, ZmqUrlType DEF TryFromUrl, UrlLike
<1>4. CASE u.scheme = "lnpt"
  BY <1>4, TextUrlType DEF TryFromUrl
<1>5. CASE u.scheme \notin {"lnp", "lnph", "lnpws", "lnpu", "lnpz", "lnpt"}
  BY <1>5 DEF TryFromUrl, Err, Results, ParseErrors
<1>6. QED
  BY <1>1, <1>2, <1>3, <1>4, <1>5

(* Url::from_str then TryFrom<Url> returns a locator or an error. *)
LEMMA ParseUrlType ==
    ASSUME NEW t \in Texts, UrlLike(t)
    PROVE  ParseUrl(t) \in Results(Locators, ParseErrors)
<1>1. CASE IsOk(UrlParse(t))
  <2>1. UrlLike(UrlParse(t).val)
    BY <1>1 DEF UrlParse, IsOk, Ok, Err, UrlLike, Texts
  <2>2. QED
    BY <1>1, <2>1, TryFromUrlType DEF ParseUrl
<1>2. CASE ~IsOk(UrlParse(t))
  BY <1>2 DEF ParseUrl, UrlParse, IsOk, Ok, Err, Results, ParseErrors
<1>3. QED
  BY <1>1, <1>2

(* from_str returns a locator or an error for every text it may be given. *)
LEMMA FromStrType ==
    ASSUME NEW t \in ParseableTexts
    PROVE  FromStr(t) \in Results(Locators, ParseErrors)
<1>1. t \in Texts /\ UrlLike(t)
  <2>1. t \in Texts
    BY Zenon DEF ParseableTexts
  <2>2. t.host = None => t.path \in Paths \cup {Empty}
    BY DEF ParseableTexts
  <2>3. t.port \in OptPort /\ t.api \in InTokens \cup {None}
    BY <2>1 DEF Texts
  <2>4. QED
    BY <2>1, <2>2, <2>3 DEF UrlLike
<1>2. CASE t.scheme \in Schemes
  BY <1>1, <1>2, ParseUrlType DEF FromStr
<1>3. CASE t.scheme = None
  <2> DEFINE t2 == [t EXCEPT !.scheme = "lnp", !.auth = "//"]
  <2>1. t2 \in Texts
    <3>0. [t EXCEPT !.scheme = "lnp"] =
            [scheme |-> "lnp", auth |-> t.auth, user |-> t.user, host |-> t.host,
             port |-> t.port, path |-> t.path, api |-> t.api, frag |-> t.frag]
      BY <1>1 DEF Texts
    <3>1. t2 = [scheme |-> "lnp", auth |-> "//", user |-> t.user, host |-> t.host,
                port |-> t.port, path |-> t.path, api |-> t.api, frag |-> t.frag]
      <4>1. t2 = [[scheme |-> "lnp", auth |-> t.auth, user |-> t.user, host |-> t.host,
                   port |-> t.port, path |-> t.path, api |-> t.api, frag |-> t.frag]
                  EXCEPT !.auth = "//"]
        BY <3>0, Zenon
      <4>2. QED
        BY <4>1
    <3>2. /\ t.user \in PubKeys \cup {None, BadKey} /\ t.host \in HostTexts \cup {None}
          /\ t.port \in OptPort /\ t.path \in Paths \cup {Empty, "/"}
          /\ t.api \in InTokens \cup {None} /\ t.frag \in Names \cup {None}
      BY <1>1 DEF Texts
    <3>3. [scheme |-> "lnp", auth |-> "//", user |-> t.user, host |-> t.host,
           port |-> t.port, path |-> t.path, api |-> t.api, frag |-> t.frag] \in Texts
      BY <3>2 DEF Texts, Schemes
    <3>4. QED
      BY <3>1, <3>3, Zenon
  <2>3. UrlLike(t2)
    BY <1>1 DEF UrlLike, Texts
  <2>2. QED
    BY <1>3, <2>1, <2>3, ParseUrlType, UrlAssumption DEF FromStr
<1>4. CASE t.scheme \notin Schemes \cup {None}
  BY <1>4 DEF FromStr, Err, Results, ParseErrors
<1>5. QED
  BY <1>2, <1>3, <1>4

(* TryFrom<NodeLocator> for LocalAddr returns a LocalAddr or an error. *)
LEMMA ToLocalAddrType ==
    ASSUME NEW v \in Locators
    PROVE  ToLocalAddr(v) \in Results(LocalAddrs, ParseErrors)
<1>1. CASE v \in [kind: Kinds \cap InetKinds, id: PubKeys, addr: InetAddrs,
                  port: OptPort, path: {None}, api: {None}]
  BY <1>1, NoneFacts DEF ToLocalAddr, LocalAddrs, Ok, Err, Results, ParseErrors, Kinds,
     InetKinds, LocalKinds, OptPort, InetAddrs, IpAddrs
<1>2. CASE v \in [kind: Kinds \cap {"Udp"}, id: PubKeys, addr: IpAddrs,
                  port: OptPort, path: {None}, api: {None}]
  BY <1>2, NoneFacts DEF ToLocalAddr, LocalAddrs, Ok, Err, Results, ParseErrors, Kinds,
     InetKinds, LocalKinds, OptPort, InetAddrs, IpAddrs
<1>3. CASE v \in [kind: Kinds \cap {"Posix"}, id: {None}, addr: {None},
                  port: {None}, path: Paths, api: {None}]
  BY <1>3, NoneFacts DEF ToLocalAddr, LocalAddrs, Ok, Err, Results, ParseErrors, Kinds,
     InetKinds, LocalKinds, OptPort, InetAddrs, IpAddrs
<1>4. CASE v \in [kind: Kinds \cap {"ZmqIpc"}, id: {None}, addr: {None},
                  port: {None}, path: Paths, api: ApiTypes]
  BY <1>4, NoneFacts DEF ToLocalAddr, LocalAddrs, Ok, Err, Results, ParseErrors, Kinds,
     InetKinds, LocalKinds, OptPort, InetAddrs, IpAddrs
<1>5. CASE v \in [kind: Kinds \cap {"ZmqInproc"}, id: {None}, addr: {None},
                  port: {None}, path: Names, api: ApiTypes]
  BY <1>5, NoneFacts DEF ToLocalAddr, LocalAddrs, Ok, Err, Results, ParseErrors, Kinds,
     InetKinds, LocalKinds, OptPort, InetAddrs, IpAddrs
<1>6. CASE v \in [kind: Kinds \cap {"ZmqTcpEncrypted"}, id: PubKeys, addr: IpAddrs,
                  port: OptPort, path: {None}, api: ApiTypes]
  BY <1>6, NoneFacts DEF ToLocalAddr, LocalAddrs, Ok, Err, Results, ParseErrors, Kinds,
     InetKinds, LocalKinds, OptPort, InetAddrs, IpAddrs
<1>7. CASE v \in [kind: Kinds \cap {"ZmqTcpUnencrypted"}, id: {None}, addr: IpAddrs,
                  port: OptPort, path: {None}, api: ApiTypes]
  BY <1>7, NoneFacts DEF ToLocalAddr, LocalAddrs, Ok, Err, Results, ParseErrors, Kinds,
     InetKinds, LocalKinds, OptPort, InetAddrs, IpAddrs
<1>8. CASE v \in [kind: Kinds \cap {"Text"}, id: PubKeys, addr: {None},
                  port: {None}, path: {None}, api: {None}]
  BY <1>8, NoneFacts DEF ToLocalAddr, LocalAddrs, Ok, Err, Results, ParseErrors, Kinds,
     InetKinds, LocalKinds, OptPort, InetAddrs, IpAddrs
<1>9. QED
  BY <1>1, <1>2, <1>3, <1>4, <1>5, <1>6, <1>7, <1>8, LocatorCases

(* TryFrom<NodeLocator> for NodeAddr returns a NodeAddr or an error. *)
LEMMA ToNodeAddrType ==
    ASSUME NEW v \in Locators
    PROVE  ToNodeAddr(v) \in Results(NodeAddrs, NodeAddrErrors)
<1>1. CASE v \in [kind: Kinds \cap InetKinds, id: PubKeys, addr: InetAddrs,
                  port: OptPort, path: {None}, api: {None}]
  BY <1>1, NoneFacts DEF ToNodeAddr, NodeAddrs, NodeAddrErrors, Ok, Err, Results, Kinds,
     InetKinds, LocalKinds, OptPort, InetAddrs, IpAddrs
<1>2. CASE v \in [kind: Kinds \cap {"Udp"}, id: PubKeys, addr: IpAddrs,
                  port: OptPort, path: {None}, api: {None}]
  BY <1>2, NoneFacts DEF ToNodeAddr, NodeAddrs, NodeAddrErrors, Ok, Err, Results, Kinds,
     InetKinds, LocalKinds, OptPort, InetAddrs, IpAddrs
<1>3. CASE v \in [kind: Kinds \cap {"Posix"}, id: {None}, addr: {None},
                  port: {None}, path: Paths, api: {None}]
  BY <1>3, NoneFacts DEF ToNodeAddr, NodeAddrs, NodeAddrErrors, Ok, Err, Results, Kinds,
     InetKinds, LocalKinds, OptPort, InetAddrs, IpAddrs
<1>4. CASE v \in [kind: Kinds \cap {"ZmqIpc"}, id: {None}, addr: {None},
                  port: {None}, path: Paths, api: ApiTypes]
  BY <1>4, NoneFacts DEF ToNodeAddr, NodeAddrs, NodeAddrErrors, Ok, Err, Results, Kinds,
     InetKinds, LocalKinds, OptPort, InetAddrs, IpAddrs
<1>5. CASE v \in [kind: Kinds \cap {"ZmqInproc"}, id: {None}, addr: {None},
                  port: {None}, path: Names, api: ApiTypes]
  BY <1>5, NoneFacts DEF ToNodeAddr, NodeAddrs, NodeAddrErrors, Ok, Err, Results, Kinds,
     InetKinds, LocalKinds, OptPort, InetAddrs, IpAddrs
<1>6. CASE v \in [kind: Kinds \cap {"ZmqTcpEncrypted"}, id: PubKeys, addr: IpAddrs,
                  port: OptPort, path: {None}, api: ApiTypes]
  BY <1>6, NoneFacts DEF ToNodeAddr, NodeAddrs, NodeAddrErrors, Ok, Err, Results, Kinds,
     InetKinds, LocalKinds, OptPort, InetAddrs, IpAddrs
<1>7. CASE v \in [kind: Kinds \cap {"ZmqTcpUnencrypted"}, id: {None}, addr: IpAddrs,
                  port: OptPort, path: {None}, api: ApiTypes]
  BY <1>7, NoneFacts DEF ToNodeAddr, NodeAddrs, NodeAddrErrors, Ok, Err, Results, Kinds,
     InetKinds, LocalKinds, OptPort, InetAddrs, IpAddrs
<1>8. CASE v \in [kind: Kinds \cap {"Text"}, id: PubKeys, addr: {None},
                  port: {None}, path: {None}, api: {None}]
  BY <1>8, NoneFacts DEF ToNodeAddr, NodeAddrs, NodeAddrErrors, Ok, Err, Results, Kinds,
     InetKinds, LocalKinds, OptPort, InetAddrs, IpAddrs
<1>9. QED
  BY <1>1, <1>2, <1>3, <1>4, <1>5, <1>6, <1>7, <1>8, LocatorCases

(* From<NodeAddr> for NodeLocator returns a locator. *)
LEMMA FromNodeAddrType ==
    ASSUME NEW na \in NodeAddrs
    PROVE  FromNodeAddr(na) \in Locators
BY NodeAddrZmqApiAssumption
DEF FromNodeAddr, NodeAddrs, Locator, Locators, LocatorsOf, Kinds, InetKinds,
    LocalKinds, OptPort, InetAddrs, IpAddrs

(* The locators the caller builds are locators. *)
LEMMA BuiltLocators == LocatorsOf(Built, BuiltApis) \subseteq Locators
BY SessionAssumption DEF LocatorsOf, Locators

(***************************************************************************)
(* The type invariant.  Every result the caller keeps is the result type  *)
(* of its call: parse results are locators or ParseErrors, LocalAddr and  *)
(* NodeAddr results are addresses of their kind, and a locator rebuilt    *)
(* from a NodeAddr is again a locator.  TypeOK is inductive as it stands. *)
(***************************************************************************)
LEMMA InitTypeOK == Init => TypeOK
BY BuiltLocators DEF Init, TypeOK, NoOut

(* A parse result whose call was a parse keeps its locator type. *)
LEMMA OutParsed ==
    ASSUME TypeOK, out.op = "parse", IsOk(out.res)
    PROVE  out.res.val \in Locators
BY DEF TypeOK, NoOut, Results, IsOk

(* A NodeAddr result whose call was a conversion keeps its NodeAddr type. *)
LEMMA OutNodeAddr ==
    ASSUME TypeOK, out.op = "nodeaddr", IsOk(out.res)
    PROVE  out.res.val \in NodeAddrs
BY DEF TypeOK, NoOut, Results, IsOk

LEMMA NextTypeOK == TypeOK /\ [Next]_vars => TypeOK'
<1> SUFFICES ASSUME TypeOK, [Next]_vars PROVE TypeOK'
  OBVIOUS
<1>1. CASE \E v \in LocatorsOf(Built, BuiltApis) : Construct(v)
  BY <1>1, BuiltLocators DEF Construct, TypeOK
<1>2. CASE \E p \in Ports : SetPort(p)
  BY <1>2, WithPortType DEF SetPort, TypeOK
<1>3. CASE Serialize
  BY <1>3, ToUrlStringType DEF Serialize, TypeOK, NoOut
<1>4. CASE \E t \in Inputs : Receive(t)
  BY <1>4, SessionAssumption DEF Receive, TypeOK, NoOut
<1>5. CASE Parse
  <2>1. text \in ParseableTexts
    BY <1>5 DEF Parse, TypeOK
  <2>2. QED
    BY <1>5, <2>1, FromStrType DEF Parse, TypeOK
<1>6. CASE Adopt
  BY <1>6, OutParsed DEF Adopt, TypeOK
<1>7. CASE \E alt \in BOOLEAN : Display(alt)
  BY <1>7 DEF Display, TypeOK
<1>8. CASE IntoLocalAddr
  BY <1>8, ToLocalAddrType DEF IntoLocalAddr, TypeOK
<1>9. CASE IntoNodeAddr
  BY <1>9, ToNodeAddrType DEF IntoNodeAddr, TypeOK
<1>10. CASE OutOfNodeAddr
  BY <1>10, OutNodeAddr, FromNodeAddrType DEF OutOfNodeAddr, TypeOK
<1>11. CASE UNCHANGED vars
  BY <1>11 DEF vars, TypeOK
<1>12. QED
  BY <1>1, <1>2, <1>3, <1>4, <1>5, <1>6, <1>7, <1>8, <1>9, <1>10, <1>11 DEF Next

(* Type correctness of every call sequence of the caller. *)
THEOREM TypeCorrect == Spec => []TypeOK
BY InitTypeOK, NextTypeOK, PTL DEF Spec

(* Roles equal under PartialEq have the same api name. *)
LEMMA ApiEqName ==
    ASSUME NEW a \in ApiTypes \cup {None}, NEW b \in ApiTypes \cup {None}, ApiEq(a, b)
    PROVE  /\ ApiEq(b, a)
           /\ (IF a = None THEN None ELSE ApiName[a]) = (IF b = None THEN None ELSE ApiName[b])
<1>1. ApiEq(b, a)
  BY DEF ApiEq
<1>2. CASE a = b
  BY <1>1, <1>2
<1>3. CASE a # b
  <2>1. {a, b} = {"PeerListening", "PeerConnecting"}
    BY <1>3 DEF ApiEq
  <2>2. QED
    BY <1>1, <2>1, UrlAssumption DEF ApiName, ApiTypes
<1>4. QED
  BY <1>2, <1>3

(* The PartialEq/Hash contract of the locator type: Eq is symmetric and  *)
(* equal locators have the same to_url_string, hence the same hash.     *)
LEMMA EqHash ==
    ASSUME NEW a \in Locators, NEW b \in Locators, Eq(a, b)
    PROVE  Eq(b, a) /\ Hash(a) = Hash(b)
<1>1. a.api \in ApiTypes \cup {None} /\ b.api \in ApiTypes \cup {None}
  BY DEF Locators, LocatorsOf
<1>2. ApiEq(b.api, a.api)
      /\ (IF a.api = None THEN None ELSE ApiName[a.api])
         = (IF b.api = None THEN None ELSE ApiName[b.api])
  BY <1>1, ApiEqName DEF Eq
<1>3. QED
  BY <1>2 DEF Eq, Hash, ToUrlString, UrlScheme

(* The Eq/Hash contract holds of the locators of every run. *)
THEOREM EqHashContractTheorem == Spec => []EqHashContract
<1>1. TypeOK => EqHashContract
  BY EqHash DEF TypeOK, EqHashContract
<1>2. QED
  BY <1>1, TypeCorrect, PTL

(* with_port sets the port, and keeps the address, of exactly the        *)
(* locators that have an internet address, and returns any other as it   *)
(* is.                                                                     *)
LEMMA WithPortSetsPort ==
    ASSUME NEW v \in Locators, NEW p \in Ports
    PROVE  IF InetAddr(v) # None
           THEN Port(WithPort(v, p)) = p /\ InetAddr(WithPort(v, p)) = InetAddr(v)
           ELSE WithPort(v, p) = v
<1>1. InetAddr(v) # None <=> v.kind \in PortKinds
  BY LocatorCases, NoneFacts DEF InetAddr, Components, PortKinds, Kinds, InetKinds
<1>2. QED
  BY <1>1, LocatorCases DEF WithPort, InetAddr, Port, Components

(* with_port honours its contract on every locator the caller may hold,  *)
(* for every value of the constants: no variant with an internet address *)
(* falls through to the catch-all arm "me => me", and no other variant  *)
(* is changed.                                                            *)
THEOREM WithPortTakesPortTheorem == Spec => []WithPortTakesPort
<1>1. TypeOK => WithPortTakesPort
  BY WithPortSetsPort DEF TypeOK, WithPortTakesPort
<1>2. QED
  BY <1>1, TypeCorrect, PTL

=============================================================================
