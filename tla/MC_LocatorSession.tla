------------------------- MODULE MC_LocatorSession -------------------------
(***************************************************************************)
(* Small instances of LocatorSession for TLC: one key, one address of     *)
(* each kind, one path, one name, one port, and received texts that      *)
(* exercise every branch of from_str.                                      *)
(***************************************************************************)
EXTENDS LocatorSession

CONSTANTS k1, a4, a6, o1, p1, n1

MCPubKeys == {k1}
MCIp4     == {a4}
MCIp6     == {a6}
MCOnions  == {o1}
MCPaths   == {p1}
MCPathsWithEmpty == {p1, Empty}
MCNames   == {n1}
MCPorts   == {24}
MCNoIp6   == {}

(* A received text without fragment. *)
T(s, auth, user, host, port, path, api) ==
    [scheme |-> s, auth |-> auth, user |-> user, host |-> host, port |-> port,
     path |-> path, api |-> api, frag |-> None]

MCInputs ==
    { T(None, "//", k1, a4, 24, Empty, None),               \* k1@a4:24
      T("lnp", "//", k1, BadHost, None, Empty, None),       \* lnp://k1@dns.name
      T("lnp", Empty, None, None, None, p1, None),      \* lnp:p1
      T("lnpu", "//", k1, o1, None, Empty, None),          \* lnpu://k1@onion
      T("lnpz", "//", BadKey, a4, None, "/", "p2p"),     \* lnpz://bad@a4/?api=p2p
      T("lnpz", "//", None, a4, 24, "/", "P2P"),         \* lnpz://a4:24/?api=P2P
      T("lnpz", "//", None, a4, None, "/", "xyz"),       \* lnpz://a4/?api=xyz
      T("lnpz", "//", None, a4, None, "/", None),        \* lnpz://a4
      T("lnpz", Empty, None, None, None, Empty, "rpc"),     \* lnpz:?api=rpc
      T("lnpt", "//", k1, a4, None, Empty, None),           \* lnpt://k1@a4
      T("lnpt", "//", None, k1, 24, Empty, None),           \* lnpt://k1:24
      T("lnpt", "//", None, BadHost, None, Empty, None),    \* lnpt://dns.name
      T("lnpt", "//", BadKey, k1, None, Empty, None),       \* lnpt://bad@k1
      T("lnpz", "//", k1, None, None, p1, "p2p"),           \* lnpz://k1@/p1?api=p2p
      T("lnp", "//", None, None, 24, Empty, None),          \* lnp://:24
      T(OtherScheme, "//", k1, a4, None, Empty, None),      \* lnpx://k1@a4
      T(OtherScheme, Empty, None, None, None, p1, None) } \* lnpx:p1

(* Texts with a bracketed IPv6 host, for the instances with IPv6. *)
MCInputsIp6 ==
    { T("lnpu", "//", k1, Bracketed(a6), None, Empty, None),  \* lnpu://k1@[a6]
      T("lnp", "//", k1, Bracketed(a6), 24, Empty, None) }    \* lnp://k1@[a6]:24

MCAllKinds == Kinds
MCPosix    == {"Posix"}
MCUdp      == {"Udp"}
MCNative   == {"Native"}
MCZmqTcp   == {"ZmqTcpUnencrypted"}
MCZmqIpc   == {"ZmqIpc"}
MCText     == {"Text"}
MCNoInputs == {}
MCAllApis  == ApiTypes
MCListening == {"PeerListening"}

=============================================================================
