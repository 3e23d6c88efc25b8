-------------------------- MODULE LocatorEndpoint --------------------------
(***************************************************************************)
(* Proof that the text to_url_string writes determines the locator up to  *)
(* its ZMQ role token: two locators with the same text (the same Hash)    *)
(* are the same variant with the same node id, address, port and socket, *)
(* and their roles share an api token.  With AllCanonical it gives        *)
(* AdoptKeepsEndpoint: re-reading a locator's own text never moves it.   *)
(***************************************************************************)
EXTENDS LocatorCanonical

(* The variant a text names: its scheme, then whether it has an          *)
(* authority, a fragment and a userinfo.                                   *)
TextKind(t) ==
    IF t.scheme = "lnp" THEN IF t.auth = "//" THEN "Native" ELSE "Posix"
    ELSE IF t.scheme = "lnpu" THEN "Udp"
    ELSE IF t.scheme = "lnph" THEN "Http"
    ELSE IF t.scheme = "lnpws" THEN "Websocket"
    ELSE IF t.scheme = "lnpt" THEN "Text"
    ELSE IF t.frag # None THEN "ZmqInproc"
    ELSE IF t.auth # "//" THEN "ZmqIpc"
    ELSE IF t.user = None THEN "ZmqTcpUnencrypted"
    ELSE "ZmqTcpEncrypted"

(* The text of a locator names its variant. *)
LEMMA KindFromText ==
    ASSUME NEW v \in Locators
    PROVE  TextKind(ToUrlString(v)) = v.kind
<1> USE DEF TextKind, ToUrlString, UrlScheme, Kinds, InetKinds, LocalKinds
<1>1. CASE v \in [kind: Kinds \cap InetKinds, id: PubKeys, addr: InetAddrs,
                  port: OptPort, path: {None}, api: {None}]
  BY <1>1
<1>2. CASE v \in [kind: Kinds \cap {"Udp"}, id: PubKeys, addr: IpAddrs,
                  port: OptPort, path: {None}, api: {None}]
  BY <1>2
<1>3. CASE v \in [kind: Kinds \cap {"Posix"}, id: {None}, addr: {None},
                  port: {None}, path: Paths, api: {None}]
  BY <1>3, EmptyFacts
<1>4. CASE v \in [kind: Kinds \cap {"ZmqIpc"}, id: {None}, addr: {None},
                  port: {None}, path: Paths, api: ApiTypes]
  BY <1>4, EmptyFacts
<1>5. CASE v \in [kind: Kinds \cap {"ZmqInproc"}, id: {None}, addr: {None},
                  port: {None}, path: Names, api: ApiTypes]
  BY <1>5, NoneFacts
<1>6. CASE v \in [kind: Kinds \cap {"ZmqTcpEncrypted"}, id: PubKeys, addr: IpAddrs,
                  port: OptPort, path: {None}, api: ApiTypes]
  BY <1>6, NoneFacts
<1>7. CASE v \in [kind: Kinds \cap {"ZmqTcpUnencrypted"}, id: {None}, addr: IpAddrs,
                  port: OptPort, path: {None}, api: ApiTypes]
  BY <1>7
<1>8. CASE v \in [kind: Kinds \cap {"Text"}, id: PubKeys, addr: {None},
                  port: {None}, path: {None}, api: {None}]
  BY <1>8
<1>9. QED
  BY <1>1, <1>2, <1>3, <1>4, <1>5, <1>6, <1>7, <1>8, LocatorCases

(* The fields two locators of one variant agree on when their texts are *)
(* equal: all of them, the role up to its api token.                     *)
SameUpToRole(v, w) ==
    /\ v.kind = w.kind /\ v.id = w.id /\ v.addr = w.addr
    /\ v.port = w.port /\ v.path = w.path
    /\ v.api = None <=> w.api = None
    /\ v.api # None => ApiName[v.api] = ApiName[w.api]

(* to_url_string is injective up to the role token: equal texts, equal  *)
(* locators but for roles written alike.                                 *)
LEMMA TextDeterminesLocator ==
    ASSUME NEW v \in Locators, NEW w \in Locators, ToUrlString(v) = ToUrlString(w)
    PROVE  SameUpToRole(v, w)
<1>1. v.kind = w.kind
  BY KindFromText
<1>2. None \notin ApiTypes
  BY UrlAssumption
<1> USE <1>1, <1>2 DEF SameUpToRole, ToUrlString, Kinds, InetKinds, LocalKinds
<1>3. CASE v \in [kind: Kinds \cap InetKinds, id: PubKeys, addr: InetAddrs,
                  port: OptPort, path: {None}, api: {None}]
  BY <1>3, LocatorCases
<1>4. CASE v \in [kind: Kinds \cap {"Udp"}, id: PubKeys, addr: IpAddrs,
                  port: OptPort, path: {None}, api: {None}]
  BY <1>4, LocatorCases
<1>5. CASE v \in [kind: Kinds \cap {"Posix"}, id: {None}, addr: {None},
                  port: {None}, path: Paths, api: {None}]
  BY <1>5, LocatorCases
<1>6. CASE v \in [kind: Kinds \cap {"ZmqIpc"}, id: {None}, addr: {None},
                  port: {None}, path: Paths, api: ApiTypes]
  BY <1>6, LocatorCases
<1>7. CASE v \in [kind: Kinds \cap {"ZmqInproc"}, id: {None}, addr: {None},
                  port: {None}, path: Names, api: ApiTypes]
  BY <1>7, LocatorCases
<1>8. CASE v \in [kind: Kinds \cap {"ZmqTcpEncrypted"}, id: PubKeys, addr: IpAddrs,
                  port: OptPort, path: {None}, api: ApiTypes]
  BY <1>8, LocatorCases
<1>9. CASE v \in [kind: Kinds \cap {"ZmqTcpUnencrypted"}, id: {None}, addr: IpAddrs,
                  port: OptPort, path: {None}, api: ApiTypes]
  BY <1>9, LocatorCases
<1>10. CASE v \in [kind: Kinds \cap {"Text"}, id: PubKeys, addr: {None},
                   port: {None}, path: {None}, api: {None}]
  BY <1>10, LocatorCases
<1>11. QED
  BY <1>3, <1>4, <1>5, <1>6, <1>7, <1>8, <1>9, <1>10, LocatorCases

(* Under the inductive invariant, an Adopt of the re-parse of the held   *)
(* locator's own text keeps it up to the role token.                     *)
LEMMA AdoptStep ==
    ASSUME IInv, Adopt, origin = loc
    PROVE  SameUpToRole(loc, loc')
<1>1. loc \in Locators /\ out.op = "parse" /\ IsOk(out.res)
      /\ out.res = FromStr(ToUrlString(loc)) /\ loc' = out.res.val
  BY NoneAssumption DEF IInv, TypeOK, CallResults, Adopt
<1>2. loc' \in Locators
  BY <1>1, OutParsed DEF IInv
<1>3. ToUrlString(loc') = ToUrlString(loc)
  BY <1>1, AllCanonical DEF Canonical
<1>4. QED
  BY <1>2, <1>3, <1>1, TextDeterminesLocator

(* Re-reading a locator's own text never moves it, in every run of the   *)
(* caller and for every value of the constants: the adopted locator is  *)
(* the same variant with the same node id, address, port and socket,    *)
(* and a role with the same api token.                                   *)
THEOREM AdoptKeepsEndpointTheorem == Spec => AdoptKeepsEndpoint
<1>1. Spec => []IInv
  BY InitIInv, NextIInv, PTL DEF Spec
<1>2. IInv => [Adopt /\ origin = loc =>
                  /\ loc'.kind = loc.kind
                  /\ NodeId(loc') = NodeId(loc) /\ InetAddr(loc') = InetAddr(loc)
                  /\ Port(loc') = Port(loc) /\ SocketName(loc') = SocketName(loc)
                  /\ ApiType(loc') = None <=> ApiType(loc) = None
                  /\ ApiType(loc) # None =>
                         ApiName[ApiType(loc')] = ApiName[ApiType(loc)]]_vars
  <2> SUFFICES ASSUME IInv, Adopt, origin = loc
               PROVE  /\ loc'.kind = loc.kind
                      /\ NodeId(loc') = NodeId(loc) /\ InetAddr(loc') = InetAddr(loc)
                      /\ Port(loc') = Port(loc) /\ SocketName(loc') = SocketName(loc)
                      /\ ApiType(loc') = None <=> ApiType(loc) = None
                      /\ ApiType(loc) # None =>
                             ApiName[ApiType(loc')] = ApiName[ApiType(loc)]
    OBVIOUS
  <2>1. SameUpToRole(loc, loc')
    BY AdoptStep
  <2>2. QED
    BY <2>1 DEF SameUpToRole, NodeId, InetAddr, Port, SocketName, ApiType, Components
<1>3. QED
  BY <1>1, <1>2, PTL DEF AdoptKeepsEndpoint
=============================================================================
