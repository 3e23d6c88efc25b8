--------------------------- MODULE LocatorSession ---------------------------
(***************************************************************************)
(* A caller of the NodeLocator API: it holds a locator and a text and     *)
(* calls the operations of node_locator.rs on them in any order: the      *)
(* constructors, with_port, to_url_string, FromStr on its own text or on *)
(* a text received from outside, Display, and the conversions to         *)
(* LocalAddr and NodeAddr and back.  Locators are immutable values, so a  *)
(* call's result is kept until the caller uses it.                         *)
(***************************************************************************)
EXTENDS LocatorConvert

CONSTANTS
    Built,    \* the variants the caller constructs
    BuiltApis, \* the ApiTypes of the ZMQ locators it constructs
    Inputs    \* the texts the caller receives from outside

HostTexts == InetAddrs \cup PubKeys \cup {BadHost} \cup {Bracketed(a) : a \in InetAddrs}

Texts == [scheme: Schemes \cup {None, OtherScheme}, auth: {"//", Empty},
          user: PubKeys \cup {None, BadKey}, host: HostTexts \cup {None},
          port: OptPort, path: Paths \cup {Empty, "/"},
          api: InTokens \cup {None}, frag: Names \cup {None}]

(* The texts from_str may be given: one without "//" has no authority,  *)
(* and one without a host has a socket path.                             *)
ParseableTexts ==
    {t \in Texts :
        /\ t.auth = Empty => t.user = None /\ t.host = None /\ t.port = None
        /\ t.host = None => t.path \in Paths \cup {Empty}}

ASSUME SessionAssumption ==
    /\ Built \subseteq Kinds /\ Built # {}
    /\ BuiltApis \subseteq ApiTypes /\ BuiltApis # {}
    /\ Inputs \subseteq ParseableTexts
    /\ {BadKey, BadHost} \cap (PubKeys \cup InetAddrs \cup {None, Empty}) = {}
    /\ OtherScheme \notin Schemes \cup {None}

VARIABLES
    loc,      \* the locator the caller holds
    text,     \* the text the caller holds: serialized or received
    origin,   \* the locator text was serialized from, None if received
    out       \* the result of the last call: [op, res]

vars == <<loc, text, origin, out>>

NoOut == [op |-> "none", res |-> None]

Results(S, E) == [tag: {"Ok"}, val: S] \cup [tag: {"Err"}, val: E]

(* NodeAddr: a TCP address of any InetAddr, a ZMQ one of an IpAddr. *)
NodeAddrs == [node_id: PubKeys, transport: {"Ftcp"}, addr: InetAddrs, port: Ports]
      \cup [node_id: PubKeys, transport: {"Zmq"}, addr: IpAddrs, port: Ports]

TypeOK ==
    /\ loc \in Locators
    /\ text \in ParseableTexts \cup {None}
    /\ origin \in Locators \cup {None}
    /\ out \in {NoOut}
          \cup [op: {"parse"}, res: Results(Locators, ParseErrors)]
          \cup [op: {"local"}, res: Results(LocalAddrs, ParseErrors)]
          \cup [op: {"nodeaddr"}, res: Results(NodeAddrs, NodeAddrErrors)]
          \cup [op: {"display"}, res: {"ok", "panic"}]

Init ==
    /\ loc \in LocatorsOf(Built, BuiltApis)
    /\ text = None
    /\ origin = None
    /\ out = NoOut

(* A variant constructor: the caller builds a new locator. *)
Construct(v) ==
    /\ loc' = v
    /\ UNCHANGED <<text, origin, out>>

(* with_port(port) on the held locator. *)
SetPort(p) ==
    /\ loc' = WithPort(loc, p)
    /\ UNCHANGED <<text, origin, out>>

(* to_url_string() of the held locator. *)
Serialize ==
    /\ text' = ToUrlString(loc)
    /\ origin' = loc
    /\ out' = NoOut
    /\ UNCHANGED loc

(* A string received from outside (a config file, a command line). *)
Receive(t) ==
    /\ text' = t
    /\ origin' = None
    /\ out' = NoOut
    /\ UNCHANGED loc

(* NodeLocator::from_str(text). *)
Parse ==
    /\ text # None
    /\ out' = [op |-> "parse", res |-> FromStr(text)]
    /\ UNCHANGED <<loc, text, origin>>

(* The caller keeps the locator a successful parse returned. *)
Adopt ==
    /\ out.op = "parse" /\ IsOk(out.res)
    /\ loc' = out.res.val
    /\ UNCHANGED <<text, origin, out>>

(* Url::from(&locator): Url::parse of to_url_string, which the code      *)
(* expects to succeed.                                                     *)
UrlFrom(v) == UrlParse(ToUrlString(v))

(* Display: "{:#}" writes node id, address or socket name, port and api; *)
(* "{}" writes Url::from(self), which expects to_url_string to be a URL. *)
Display(alt) ==
    /\ out' = [op |-> "display",
               res |-> IF alt THEN IF InetAddr(loc) = None /\ SocketName(loc) = None
                                   THEN "panic" ELSE "ok"
                              ELSE IF IsOk(UrlFrom(loc))
                                   THEN "ok" ELSE "panic"]
    /\ UNCHANGED <<loc, text, origin>>

(* LocalAddr::try_from(locator). *)
IntoLocalAddr ==
    /\ out' = [op |-> "local", res |-> ToLocalAddr(loc)]
    /\ UNCHANGED <<loc, text, origin>>

(* NodeAddr::try_from(locator). *)
IntoNodeAddr ==
    /\ out' = [op |-> "nodeaddr", res |-> ToNodeAddr(loc)]
    /\ UNCHANGED <<loc, text, origin>>

(* NodeLocator::from(node_addr): the caller goes back to a locator. *)
OutOfNodeAddr ==
    /\ out.op = "nodeaddr" /\ IsOk(out.res)
    /\ loc' = FromNodeAddr(out.res.val)
    /\ UNCHANGED <<text, origin, out>>

Next ==
    \/ \E v \in LocatorsOf(Built, BuiltApis) : Construct(v)
    \/ \E p \in Ports : SetPort(p)
    \/ Serialize
    \/ \E t \in Inputs : Receive(t)
    \/ Parse
    \/ Adopt
    \/ \E alt \in BOOLEAN : Display(alt)
    \/ IntoLocalAddr
    \/ IntoNodeAddr
    \/ OutOfNodeAddr

Spec == Init /\ [][Next]_vars

(***************************************************************************)
(* Properties                                                              *)
(***************************************************************************)
(* What the caller holds is what its calls returned: the text of an      *)
(* origin is that locator's to_url_string, and a parse result is from_str *)
(* of the text held.  The strengthening the proof of ParsedCanonical     *)
(* rests on.                                                              *)
CallResults ==
    /\ origin # None => text = ToUrlString(origin)
    /\ out.op = "parse" => text # None /\ out.res = FromStr(text)

(* The text the caller holds was parsed, successfully. *)
ParsedOk == out.op = "parse" /\ IsOk(out.res)

(* The Eq/Hash contract HashMap relies on, for the custom PartialEq and   *)
(* the Hash impl over to_url_string: equal locators (a listening and a    *)
(* connecting ZMQ role included) are equal both ways round and hash to    *)
(* the same bytes.                                                         *)
EqHashContract ==
    origin # None /\ Eq(loc, origin) =>
        /\ Eq(origin, loc)
        /\ Hash(loc) = Hash(origin)

(* to_url_string is canonical: when from_str accepts the text a locator   *)
(* was serialized to, the locator it returns serializes to that same text *)
(* and so has the same hash.                                               *)
ParsedCanonical ==
    ParsedOk /\ origin # None => Hash(out.res.val) = text

(* from_str never drops the authority of a URL: when it accepts a text    *)
(* with a userinfo under any scheme but lnpt (which names its node by the *)
(* host), the locator's node id is that userinfo, and when the text has a *)
(* port, the locator has that port.  A URL that names a node id, valid or *)
(* not, can not become a locator without one (an unauthenticated          *)
(* connection), whatever the order of try_from's checks.                  *)
ParsedKeepsAuthority ==
    ParsedOk =>
        /\ text.user # None /\ text.scheme # "lnpt" => NodeId(out.res.val) = text.user
        /\ text.port # None => Port(out.res.val) = text.port

(* Re-reading a locator's own text never moves it: when the caller adopts *)
(* what from_str returned for the text of the locator it holds, the new    *)
(* locator is the same variant with the same node id, address, port and   *)
(* socket; only the ZMQ role may be decoded as another role written with  *)
(* the same api token (Server as Client, PeerListening as PeerConnecting). *)
AdoptKeepsEndpoint ==
    [][Adopt /\ origin = loc =>
        /\ loc'.kind = loc.kind
        /\ NodeId(loc') = NodeId(loc) /\ InetAddr(loc') = InetAddr(loc)
        /\ Port(loc') = Port(loc) /\ SocketName(loc') = SocketName(loc)
        /\ ApiType(loc') = None <=> ApiType(loc) = None
        /\ ApiType(loc) # None => ApiName[ApiType(loc')] = ApiName[ApiType(loc)]]_vars

(* with_port "adds port information to the node locator, if it can       *)
(* contain port.  In case if it does not, performs no action": with_port *)
(* of any locator the caller may hold sets the port of one with an        *)
(* internet address (the variants whose URL has a host and a port), none *)
(* of them falling through to the catch-all arm "me => me", and returns  *)
(* any other unchanged.                                                    *)
WithPortTakesPort ==
    \A p \in Ports :
        IF InetAddr(loc) # None
        THEN Port(WithPort(loc, p)) = p /\ InetAddr(WithPort(loc, p)) = InetAddr(loc)
        ELSE WithPort(loc, p) = loc

(* Spec 8, round trip: parsing the text a locator was serialized to gives *)
(* back an equal locator, for every variant but ZmqInproc.                *)
RoundTrip ==
    out.op = "parse" /\ origin # None /\ origin.kind # "ZmqInproc" =>
        IsOk(out.res) /\ Eq(out.res.val, origin)

(* Spec 4.2: a scheme token that is none of the known ones is reported as *)
(* UnknownUrlScheme by from_str.                                           *)
UnknownSchemeReported ==
    out.op = "parse" /\ text.scheme = OtherScheme =>
        out.res = Err("UnknownUrlScheme")

(* Spec 6: a host of the lnp, lnph, lnpws and lnpu grammars may be an    *)
(* IPv6 literal in brackets; from_str accepts such a text.                 *)
BracketedIpv6Accepted ==
    out.op = "parse" /\ text.user \in PubKeys /\ text.host \in {Bracketed(a) : a \in Ip6}
        /\ text.scheme \in {"lnp", "lnpu", "lnph", "lnpws"} => IsOk(out.res)

(* Spec 7: no operation of the locator faults; the serializer and the URL *)
(* parser never disagree in a deployed path.  Display is such an          *)
(* operation.                                                              *)
NoPanic == out.op = "display" => out.res = "ok"


=============================================================================
