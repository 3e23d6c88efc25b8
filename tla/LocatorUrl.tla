---------------------------- MODULE LocatorUrl ----------------------------
(***************************************************************************)
(* The URL codec of node_locator.rs: FromStr (prefixing a bare string     *)
(* with "lnp://"), the url crate's parse of the string, and               *)
(* TryFrom<Url> for NodeLocator with its error paths in the order the     *)
(* code takes them.                                                        *)
(*                                                                         *)
(* A text is the record to_url_string produces (see NodeLocator); texts   *)
(* received from outside may in addition carry a key that is not a valid *)
(* public key (BadKey), a host that is no address (BadHost), a bracketed  *)
(* IPv6 host (Bracketed(a)), an api token in any case, no scheme at all   *)
(* (a bare "<node-id>@<host>[:<port>]") or an unknown scheme.             *)
(***************************************************************************)
EXTENDS NodeLocator

CONSTANTS
    BadKey,      \* a userinfo / host text that is no public key
    BadHost,     \* a host text that is neither an IP nor an onion address
    OtherScheme  \* a scheme token none of the known prefixes matches

Schemes   == {"lnp", "lnpu", "lnpz", "lnph", "lnpws", "lnpt"}
ApiTokens == {"p2p", "rpc", "sub", "esb"}

(* A host written between brackets, as an IPv6 literal must be in a URL. *)
Bracketed(a) == <<"[", a>>

(* No scheme or api token is None, and no bracketed text is None, an     *)
(* address or a key.                                                      *)
ASSUME UrlAssumption ==
    /\ None \notin Schemes /\ None \notin ApiTokens /\ None \notin ApiTypes
    /\ \A a \in InetAddrs : Bracketed(a) \notin InetAddrs \cup PubKeys \cup {None}

(* to_ascii_lowercase() on the api tokens received texts may carry. *)
InTokens == ApiTokens \cup {"P2P", "xyz"}
Lower == [t \in InTokens |-> IF t = "P2P" THEN "p2p" ELSE t]

(* ParseError, the variants without their token payload. *)
ParseErrors == {"UnsupportedForLocalAddr", "MalformedUrl", "UnknownUrlScheme",
                "HostRequired", "InvalidPubkey", "InvalidHost", "HostPresent",
                "PortPresent", "InvalidIp", "InvalidZmqType", "ApiTypeRequired",
                "InprocRequireZmqContext"}

Ok(v)  == [tag |-> "Ok", val |-> v]
Err(e) == [tag |-> "Err", val |-> e]
IsOk(r) == r.tag = "Ok"

(***************************************************************************)
(* Url::from_str (the url crate).  The host of an authority ends at the   *)
(* first ':' outside brackets, so an unbracketed IPv6 host leaves an      *)
(* empty host and an invalid port: the string is rejected.  Brackets     *)
(* around anything but an IPv6 address are rejected as well, and so is   *)
(* an authority with a userinfo or a port but an empty host.  host_str()  *)
(* keeps the brackets of an IPv6 host; username() is "" when absent.      *)
(***************************************************************************)
UrlParse(t) ==
    IF \/ t.auth = "//" /\ t.host \in Ip6
       \/ \E a \in InetAddrs \ Ip6 : t.host = Bracketed(a)
       \/ t.auth = "//" /\ t.host = None /\ (t.user # None \/ t.port # None)
    THEN Err("MalformedUrl")
    ELSE Ok([t EXCEPT !.user = IF t.user = None THEN Empty ELSE t.user])

(* The variant each authority scheme of lnp/lnph/lnpws/lnpu builds. *)
KindOfScheme == [lnp |-> "Native", lnph |-> "Http", lnpws |-> "Websocket",
                 lnpu |-> "Udp"]

(* Mutant: "sub" decoded as the service-bus role. *)
ParseApiSubAsEsb == [p2p |-> "PeerConnecting", rpc |-> "Client",
                     sub |-> "EsbService", esb |-> "EsbService"]

(* The api query value mapped to an ApiType: "p2p" always gives          *)
(* PeerConnecting, never PeerListening.                                   *)
ParseApi == [p2p |-> "PeerConnecting", rpc |-> "Client",
             sub |-> "Subscribe", esb |-> "EsbService"]

(***************************************************************************)
(* TryFrom<Url> for NodeLocator, branch by branch.                         *)
(***************************************************************************)
(* "lnp", "lnph", "lnpws": node id, then a host, then an InetAddr host. *)
FromInetUrl(u) ==
    IF u.user \notin PubKeys THEN Err("InvalidPubkey")
    ELSE IF u.host = None THEN Err("HostRequired")
    ELSE IF u.host \notin InetAddrs THEN Err("InvalidHost")
    ELSE Ok(Locator(KindOfScheme[u.scheme], u.user, u.host, u.port, None, None))

(* "lnpu": node id, then a host that parses as an IpAddr. *)
FromUdpUrl(u) ==
    IF u.user \notin PubKeys THEN Err("InvalidPubkey")
    ELSE IF u.host = None THEN Err("HostRequired")
    ELSE IF u.host \notin IpAddrs THEN Err("InvalidHost")
    ELSE Ok(Locator("Udp", u.user, u.host, u.port, None, None))

(* Mutant: the arm refusing a non-empty username that is no public key  *)
(* dropped, so such a URL with a host falls to the unencrypted arm.       *)
FromZmqUrlNoUserCheck(u) ==
    IF u.api = None THEN Err("ApiTypeRequired")
    ELSE IF Lower[u.api] \notin ApiTokens THEN Err("InvalidZmqType")
    ELSE LET api == ParseApi[Lower[u.api]] IN
         IF u.host # None /\ u.host \notin IpAddrs THEN Err("InvalidIp")
         ELSE IF u.host # None /\ u.user \in PubKeys
              THEN Ok(Locator("ZmqTcpEncrypted", u.user, u.host, u.port, None, api))
         ELSE IF u.host # None
              THEN Ok(Locator("ZmqTcpUnencrypted", None, u.host, u.port, None, api))
         ELSE IF u.path = Empty THEN Err("InprocRequireZmqContext")
         ELSE Ok(Locator("ZmqIpc", None, None, None, u.path, api))

(* Mutant: the arms of the match in another order, the unencrypted TCP  *)
(* arm before the encrypted one.                                          *)
FromZmqUrlPlainFirst(u) ==
    IF u.api = None THEN Err("ApiTypeRequired")
    ELSE IF Lower[u.api] \notin ApiTokens THEN Err("InvalidZmqType")
    ELSE LET api == ParseApi[Lower[u.api]] IN
         IF u.host # None /\ u.host \notin IpAddrs THEN Err("InvalidIp")
         ELSE IF u.user \notin PubKeys /\ u.user # Empty THEN Err("InvalidIp")
         ELSE IF u.host # None
              THEN Ok(Locator("ZmqTcpUnencrypted", None, u.host, u.port, None, api))
         ELSE IF u.path = Empty THEN Err("InprocRequireZmqContext")
         ELSE Ok(Locator("ZmqIpc", None, None, None, u.path, api))

(* "lnpz": the api query first, then the match on (ip, pubkey) in order. *)
FromZmqUrl(u) ==
    IF u.api = None THEN Err("ApiTypeRequired")
    ELSE IF Lower[u.api] \notin ApiTokens THEN Err("InvalidZmqType")
    ELSE LET api == ParseApi[Lower[u.api]] IN
         IF u.host # None /\ u.host \notin IpAddrs THEN Err("InvalidIp")
         ELSE IF u.user \notin PubKeys /\ u.user # Empty THEN Err("InvalidIp")
         ELSE IF u.host # None /\ u.user \in PubKeys
              THEN Ok(Locator("ZmqTcpEncrypted", u.user, u.host, u.port, None, api))
         ELSE IF u.host # None
              THEN Ok(Locator("ZmqTcpUnencrypted", None, u.host, u.port, None, api))
         ELSE IF u.path = Empty THEN Err("InprocRequireZmqContext")
         ELSE Ok(Locator("ZmqIpc", None, None, None, u.path, api))

(* "lnpt": a valid userinfo key is a host, a port is refused, the node id *)
(* is the host.                                                           *)
FromTextUrl(u) ==
    IF u.user \in PubKeys THEN Err("HostPresent")
    ELSE IF u.port # None THEN Err("PortPresent")
    ELSE IF u.host \in PubKeys THEN Ok(Locator("Text", u.host, None, None, None, None))
    ELSE Err("InvalidPubkey")

TryFromUrl(u) ==
    IF u.scheme \in {"lnp", "lnph", "lnpws"} THEN FromInetUrl(u)
    ELSE IF u.scheme = "lnpu" THEN FromUdpUrl(u)
    ELSE IF u.scheme = "lnpz" THEN FromZmqUrl(u)
    ELSE IF u.scheme = "lnpt" THEN FromTextUrl(u)
    ELSE Err("UnknownUrlScheme")

(* Url::from_str, mapping its error to MalformedUrl, then try_into. *)
ParseUrl(t) ==
    LET u == UrlParse(t) IN IF IsOk(u) THEN TryFromUrl(u.val) ELSE u

(***************************************************************************)
(* FromStr: a string that starts with none of the known "<scheme>:"       *)
(* prefixes is parsed as "lnp://" followed by the whole string.  For a    *)
(* bare "<node-id>@<host>" that is the intended lnp URL.  For a string    *)
(* with another scheme, its "<scheme>:" becomes the host and port of the  *)
(* new authority: with "//" after it the port is empty and the username   *)
(* is empty (an invalid public key), otherwise the rest of the string is *)
(* an invalid port unless it is empty.                                     *)
(***************************************************************************)
FromStr(t) ==
    IF t.scheme \in Schemes THEN ParseUrl(t)
    ELSE IF t.scheme = None THEN ParseUrl([t EXCEPT !.scheme = "lnp", !.auth = "//"])
    ELSE IF t.auth = "//" \/ t.path = Empty THEN Err("InvalidPubkey")
    ELSE Err("MalformedUrl")

=============================================================================
