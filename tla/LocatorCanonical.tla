-------------------------- MODULE LocatorCanonical --------------------------
(***************************************************************************)
(* Proof that to_url_string is canonical for every value of the           *)
(* constants: whenever from_str accepts the text of a locator, the        *)
(* locator it returns has that same text (and so the same hash).  The     *)
(* proof goes variant by variant through FromStr, the URL parse and the   *)
(* branch of TryFrom<Url> the scheme selects.                              *)
(***************************************************************************)
EXTENDS LocatorProofs

(* The property of one locator: from_str of its text, when it succeeds,  *)
(* gives a locator that serializes to that text.                           *)
Canonical(v) ==
    LET r == FromStr(ToUrlString(v)) IN
    IsOk(r) => ToUrlString(r.val) = ToUrlString(v)

(* A text whose host is an address or a key is no bracketed host. *)
LEMMA NotBracketed ==
    ASSUME NEW h \in InetAddrs \cup PubKeys
    PROVE  ~\E a \in InetAddrs \ Ip6 : h = Bracketed(a)
BY UrlAssumption

(* Native, Http and Websocket locators parse back to themselves. *)
LEMMA InetCanonical ==
    ASSUME NEW v \in [kind: Kinds \cap InetKinds, id: PubKeys, addr: InetAddrs,
                      port: OptPort, path: {None}, api: {None}]
    PROVE  Canonical(v)
<1> DEFINE R == [scheme |-> UrlScheme(v), auth |-> "//", user |-> v.id,
                 host |-> v.addr, port |-> v.port, path |-> Empty, api |-> None,
                 frag |-> None]
<1>1. ToUrlString(v) = R
  BY DEF ToUrlString, Kinds, InetKinds, LocalKinds
<1>2. UrlScheme(v) \in {"lnp", "lnph", "lnpws"} /\ KindOfScheme[UrlScheme(v)] = v.kind
  BY DEF UrlScheme, KindOfScheme, Kinds, InetKinds, LocalKinds
<1>3. CASE v.addr \in Ip6
  BY <1>1, <1>2, <1>3 DEF Canonical, FromStr, Schemes, ParseUrl, UrlParse, IsOk, Err
<1>4. CASE v.addr \notin Ip6
  <2>1. UrlParse(R) = Ok(R)
    BY <1>4, NotBracketed, NoneFacts DEF UrlParse
  <2>2. FromStr(R) = Ok(v)
    BY <1>2, <2>1, NoneFacts
    DEF FromStr, Schemes, ParseUrl, IsOk, Ok, TryFromUrl, FromInetUrl, Locator
  <2>3. QED
    BY <1>1, <2>2 DEF Canonical, IsOk, Ok
<1>5. QED
  BY <1>3, <1>4

(* An api name is a lower-case token that decodes to a role of that name. *)
LEMMA ApiNameRoundTrip ==
    ASSUME NEW a \in ApiTypes
    PROVE  /\ ApiName[a] \in InTokens /\ Lower[ApiName[a]] = ApiName[a]
           /\ ApiName[a] \in ApiTokens
           /\ ParseApi[ApiName[a]] \in ApiTypes
           /\ ApiName[ParseApi[ApiName[a]]] = ApiName[a]
BY DEF ApiTypes, ApiName, InTokens, Lower, ApiTokens, ParseApi

(* Udp locators parse back to themselves. *)
LEMMA UdpCanonical ==
    ASSUME NEW v \in [kind: Kinds \cap {"Udp"}, id: PubKeys, addr: IpAddrs,
                      port: OptPort, path: {None}, api: {None}]
    PROVE  Canonical(v)
<1> DEFINE R == [scheme |-> "lnpu", auth |-> "//", user |-> v.id,
                 host |-> v.addr, port |-> v.port, path |-> Empty, api |-> None,
                 frag |-> None]
<1>1. ToUrlString(v) = R
  BY DEF ToUrlString, UrlScheme, Kinds, InetKinds, LocalKinds
<1>2. CASE v.addr \in Ip6
  BY <1>1, <1>2 DEF Canonical, FromStr, Schemes, ParseUrl, UrlParse, IsOk, Err
<1>3. CASE v.addr \notin Ip6
  <2>1. UrlParse(R) = Ok(R)
    BY <1>3, NotBracketed, NoneFacts DEF UrlParse, InetAddrs, IpAddrs
  <2>2. FromStr(R) = Ok(v)
    BY <2>1, NoneFacts
    DEF FromStr, Schemes, ParseUrl, IsOk, Ok, TryFromUrl, FromUdpUrl, Locator, Kinds
  <2>3. QED
    BY <1>1, <2>2 DEF Canonical, IsOk, Ok
<1>4. QED
  BY <1>2, <1>3

(* Text locators parse back to themselves. *)
LEMMA TextCanonical ==
    ASSUME NEW v \in [kind: Kinds \cap {"Text"}, id: PubKeys, addr: {None},
                      port: {None}, path: {None}, api: {None}]
    PROVE  Canonical(v)
<1> DEFINE R == [scheme |-> "lnpt", auth |-> "//", user |-> None,
                 host |-> v.id, port |-> None, path |-> Empty, api |-> None,
                 frag |-> None]
<1>1. ToUrlString(v) = R
  BY DEF ToUrlString, UrlScheme, Kinds, InetKinds, LocalKinds
<1>2. UrlParse(R) = Ok([R EXCEPT !.user = Empty])
  <2>1. v.id \notin Ip6
    BY KeyFacts
  <2>2. ~\E a \in InetAddrs \ Ip6 : v.id = Bracketed(a)
    BY NotBracketed
  <2>3. QED
    BY <2>1, <2>2 DEF UrlParse
<1>3. FromStr(R) = FromTextUrl([R EXCEPT !.user = Empty])
  BY <1>2 DEF FromStr, Schemes, ParseUrl, IsOk, Ok, TryFromUrl
<1>4. FromTextUrl([R EXCEPT !.user = Empty]) = Ok(v)
  BY EmptyFacts DEF FromTextUrl, Locator, Kinds
<1>5. QED
  BY <1>1, <1>3, <1>4 DEF Canonical, IsOk, Ok

(* Encrypted ZMQ TCP locators parse back to a locator of the same text:  *)
(* the role may come back as the other role of its api name.             *)
LEMMA ZmqTcpEncryptedCanonical ==
    ASSUME NEW v \in [kind: Kinds \cap {"ZmqTcpEncrypted"}, id: PubKeys, addr: IpAddrs,
                      port: OptPort, path: {None}, api: ApiTypes]
    PROVE  Canonical(v)
<1> DEFINE R == [scheme |-> "lnpz", auth |-> "//", user |-> v.id,
                 host |-> v.addr, port |-> v.port, path |-> "/",
                 api |-> ApiName[v.api], frag |-> None]
           w == Locator("ZmqTcpEncrypted", v.id, v.addr, v.port, None,
                        ParseApi[ApiName[v.api]])
<1>1. ToUrlString(v) = R
  BY UrlAssumption DEF ToUrlString, UrlScheme, Kinds, InetKinds, LocalKinds
<1>2. CASE v.addr \in Ip6
  BY <1>1, <1>2 DEF Canonical, FromStr, Schemes, ParseUrl, UrlParse, IsOk, Err
<1>3. CASE v.addr \notin Ip6
  <2>1. UrlParse(R) = Ok(R)
    BY <1>3, NotBracketed, NoneFacts DEF UrlParse, InetAddrs, IpAddrs
  <2>2. /\ ParseApi[ApiName[v.api]] # None
        /\ ApiName[v.api] # None /\ Lower[ApiName[v.api]] = ApiName[v.api]
        /\ ApiName[v.api] \in ApiTokens
        /\ ApiName[ParseApi[ApiName[v.api]]] = ApiName[v.api]
    BY ApiNameRoundTrip, UrlAssumption
  <2>3. FromZmqUrl(R) = Ok(w)
    BY <2>2, NoneFacts DEF FromZmqUrl
  <2>4. FromStr(R) = Ok(w)
    BY <2>1, <2>3 DEF FromStr, Schemes, ParseUrl, IsOk, Ok, TryFromUrl
  <2>5. ToUrlString(w) = R
    BY <2>2 DEF ToUrlString, UrlScheme, Locator, LocalKinds
  <2>6. QED
    BY <1>1, <2>4, <2>5 DEF Canonical, IsOk, Ok
<1>4. QED
  BY <1>2, <1>3

(* Unencrypted ZMQ TCP locators parse back to a locator of the same text. *)
LEMMA ZmqTcpUnencryptedCanonical ==
    ASSUME NEW v \in [kind: Kinds \cap {"ZmqTcpUnencrypted"}, id: {None}, addr: IpAddrs,
                      port: OptPort, path: {None}, api: ApiTypes]
    PROVE  Canonical(v)
<1> DEFINE R == [scheme |-> "lnpz", auth |-> "//", user |-> None,
                 host |-> v.addr, port |-> v.port, path |-> "/",
                 api |-> ApiName[v.api], frag |-> None]
           w == Locator("ZmqTcpUnencrypted", None, v.addr, v.port, None,
                        ParseApi[ApiName[v.api]])
<1>1. ToUrlString(v) = R
  BY UrlAssumption DEF ToUrlString, UrlScheme, Kinds, InetKinds, LocalKinds
<1>2. CASE v.addr \in Ip6
  BY <1>1, <1>2 DEF Canonical, FromStr, Schemes, ParseUrl, UrlParse, IsOk, Err
<1>3. CASE v.addr \notin Ip6
  <2>1. UrlParse(R) = Ok([R EXCEPT !.user = Empty])
    BY <1>3, NotBracketed, NoneFacts DEF UrlParse, InetAddrs, IpAddrs
  <2>2. /\ ParseApi[ApiName[v.api]] # None
        /\ ApiName[v.api] # None /\ Lower[ApiName[v.api]] = ApiName[v.api]
        /\ ApiName[v.api] \in ApiTokens
        /\ ApiName[ParseApi[ApiName[v.api]]] = ApiName[v.api]
    BY ApiNameRoundTrip, UrlAssumption
  <2>3. FromZmqUrl([R EXCEPT !.user = Empty]) = Ok(w)
    BY <2>2, NoneFacts, EmptyFacts DEF FromZmqUrl
  <2>4. FromStr(R) = Ok(w)
    BY <2>1, <2>3 DEF FromStr, Schemes, ParseUrl, IsOk, Ok, TryFromUrl
  <2>5. ToUrlString(w) = R
    BY <2>2 DEF ToUrlString, UrlScheme, Locator, LocalKinds
  <2>6. QED
    BY <1>1, <2>4, <2>5 DEF Canonical, IsOk, Ok
<1>4. QED
  BY <1>2, <1>3

(* ZMQ IPC locators with a path parse back to a locator of the same text; *)
(* one with the empty path is refused.                                    *)
LEMMA ZmqIpcCanonical ==
    ASSUME NEW v \in [kind: Kinds \cap {"ZmqIpc"}, id: {None}, addr: {None},
                      port: {None}, path: Paths, api: ApiTypes]
    PROVE  Canonical(v)
<1> DEFINE R == [scheme |-> "lnpz", auth |-> Empty, user |-> None,
                 host |-> None, port |-> None, path |-> v.path,
                 api |-> ApiName[v.api], frag |-> None]
           w == Locator("ZmqIpc", None, None, None, v.path, ParseApi[ApiName[v.api]])
<1>1. ToUrlString(v) = R
  BY UrlAssumption DEF ToUrlString, UrlScheme, Kinds, InetKinds, LocalKinds
<1>2. UrlParse(R) = Ok([R EXCEPT !.user = Empty])
  BY UrlAssumption, EmptyFacts DEF UrlParse
<1>3. /\ ParseApi[ApiName[v.api]] # None
      /\ ApiName[v.api] # None /\ Lower[ApiName[v.api]] = ApiName[v.api]
      /\ ApiName[v.api] \in ApiTokens
      /\ ApiName[ParseApi[ApiName[v.api]]] = ApiName[v.api]
  BY ApiNameRoundTrip, UrlAssumption
<1>4. CASE v.path = Empty
  <2>1. FromZmqUrl([R EXCEPT !.user = Empty]) = Err("InprocRequireZmqContext")
    BY <1>3, <1>4, NoneFacts DEF FromZmqUrl
  <2>2. QED
    BY <1>1, <1>2, <2>1 DEF Canonical, FromStr, Schemes, ParseUrl, IsOk, Ok, Err,
       TryFromUrl
<1>5. CASE v.path # Empty
  <2>1. FromZmqUrl([R EXCEPT !.user = Empty]) = Ok(w)
    BY <1>3, <1>5, NoneFacts DEF FromZmqUrl
  <2>2. FromStr(R) = Ok(w)
    BY <1>2, <2>1 DEF FromStr, Schemes, ParseUrl, IsOk, Ok, TryFromUrl
  <2>3. ToUrlString(w) = R
    BY <1>3 DEF ToUrlString, UrlScheme, Locator, LocalKinds
  <2>4. QED
    BY <1>1, <2>2, <2>3 DEF Canonical, IsOk, Ok
<1>6. QED
  BY <1>4, <1>5

(* ZMQ in-process locators are refused: their text has no path. *)
LEMMA ZmqInprocCanonical ==
    ASSUME NEW v \in [kind: Kinds \cap {"ZmqInproc"}, id: {None}, addr: {None},
                      port: {None}, path: Names, api: ApiTypes]
    PROVE  Canonical(v)
<1> DEFINE R == [scheme |-> "lnpz", auth |-> Empty, user |-> None,
                 host |-> None, port |-> None, path |-> Empty,
                 api |-> ApiName[v.api], frag |-> v.path]
<1>1. ToUrlString(v) = R
  BY UrlAssumption DEF ToUrlString, UrlScheme, Kinds, InetKinds, LocalKinds
<1>2. UrlParse(R) = Ok([R EXCEPT !.user = Empty])
  BY UrlAssumption, EmptyFacts DEF UrlParse
<1>3. /\ ApiName[v.api] # None /\ Lower[ApiName[v.api]] = ApiName[v.api]
      /\ ApiName[v.api] \in ApiTokens
  BY ApiNameRoundTrip, UrlAssumption
<1>4. FromZmqUrl([R EXCEPT !.user = Empty]) = Err("InprocRequireZmqContext")
  BY <1>3 DEF FromZmqUrl
<1>5. QED
  BY <1>1, <1>2, <1>4 DEF Canonical, FromStr, Schemes, ParseUrl, IsOk, Ok, Err,
     TryFromUrl

(* POSIX socket locators are refused: their text has no node id. *)
LEMMA PosixCanonical ==
    ASSUME NEW v \in [kind: Kinds \cap {"Posix"}, id: {None}, addr: {None},
                      port: {None}, path: Paths, api: {None}]
    PROVE  Canonical(v)
<1> DEFINE R == [scheme |-> "lnp", auth |-> Empty, user |-> None,
                 host |-> None, port |-> None, path |-> v.path,
                 api |-> None, frag |-> None]
<1>1. ToUrlString(v) = R
  BY DEF ToUrlString, UrlScheme, Kinds, InetKinds, LocalKinds
<1>2. UrlParse(R) = Ok([R EXCEPT !.user = Empty])
  BY UrlAssumption, EmptyFacts DEF UrlParse
<1>3. FromInetUrl([R EXCEPT !.user = Empty]) = Err("InvalidPubkey")
  BY EmptyFacts DEF FromInetUrl
<1>4. QED
  BY <1>1, <1>2, <1>3 DEF Canonical, FromStr, Schemes, ParseUrl, IsOk, Ok, Err,
     TryFromUrl

(* Every locator is canonical. *)
LEMMA AllCanonical ==
    ASSUME NEW v \in Locators
    PROVE  Canonical(v)
BY LocatorCases, InetCanonical, UdpCanonical, PosixCanonical, ZmqIpcCanonical,
   ZmqInprocCanonical, ZmqTcpEncryptedCanonical, ZmqTcpUnencryptedCanonical,
   TextCanonical

(***************************************************************************)
(* The inductive invariant: the type invariant and CallResults, which     *)
(* ties the text held to the locator it was serialized from and a parse  *)
(* result to the text held.  ParsedCanonical alone is not inductive: a    *)
(* Parse step needs to know that text is the serialization of origin.    *)
(***************************************************************************)
IInv == TypeOK /\ CallResults

LEMMA InitIInv == Init => IInv
BY InitTypeOK DEF Init, IInv, CallResults, NoOut

LEMMA NextIInv == IInv /\ [Next]_vars => IInv'
<1> SUFFICES ASSUME IInv, [Next]_vars PROVE CallResults'
  BY NextTypeOK DEF IInv
<1> USE DEF IInv, CallResults
<1>1. CASE \E v \in LocatorsOf(Built, BuiltApis) : Construct(v)
  BY <1>1 DEF Construct
<1>2. CASE \E p \in Ports : SetPort(p)
  BY <1>2 DEF SetPort
<1>3. CASE Serialize
  BY <1>3 DEF Serialize, NoOut
<1>4. CASE \E t \in Inputs : Receive(t)
  BY <1>4 DEF Receive, NoOut
<1>5. CASE Parse
  BY <1>5 DEF Parse
<1>6. CASE Adopt
  BY <1>6 DEF Adopt
<1>7. CASE \E alt \in BOOLEAN : Display(alt)
  BY <1>7 DEF Display
<1>8. CASE IntoLocalAddr
  BY <1>8 DEF IntoLocalAddr
<1>9. CASE IntoNodeAddr
  BY <1>9 DEF IntoNodeAddr
<1>10. CASE OutOfNodeAddr
  BY <1>10 DEF OutOfNodeAddr
<1>11. CASE UNCHANGED vars
  BY <1>11 DEF vars
<1>12. QED
  BY <1>1, <1>2, <1>3, <1>4, <1>5, <1>6, <1>7, <1>8, <1>9, <1>10, <1>11 DEF Next

LEMMA IInvCanonical == IInv => ParsedCanonical
<1> SUFFICES ASSUME IInv, ParsedOk, origin # None
             PROVE  Hash(out.res.val) = text
  BY DEF ParsedCanonical
<1>1. origin \in Locators /\ text = ToUrlString(origin)
      /\ out.res = FromStr(ToUrlString(origin))
  BY DEF IInv, TypeOK, CallResults, ParsedOk
<1>2. QED
  BY <1>1, AllCanonical DEF Canonical, ParsedOk, Hash

(* to_url_string is canonical in every run of the caller, for every value *)
(* of the constants: a locator from_str returns for a serialized text     *)
(* serializes, and hashes, to that text.                                   *)
THEOREM ParsedCanonicalTheorem == Spec => []ParsedCanonical
BY InitIInv, NextIInv, IInvCanonical, PTL DEF Spec

=============================================================================
