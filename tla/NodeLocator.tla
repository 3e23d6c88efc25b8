---------------------------- MODULE NodeLocator ----------------------------
(***************************************************************************)
(* The NodeLocator value type of src/src/lnp/session/node_locator.rs:      *)
(* its variants, the accessors over them, with_port, url_scheme, the       *)
(* custom PartialEq (listening/connecting roles merged), the Hash impl and *)
(* to_url_string.                                                          *)
(*                                                                         *)
(* A locator is a record with one field per slot of the enum payloads;    *)
(* the slots a variant does not have hold None.  Keys, addresses, paths   *)
(* and names are opaque values: the properties only tell them apart.      *)
(***************************************************************************)
EXTENDS Naturals

CONSTANTS
    PubKeys,    \* valid compressed secp256k1 public keys (node ids)
    Ip4,        \* IPv4 addresses
    Ip6,        \* IPv6 addresses
    Onions,     \* Tor onion addresses (InetAddr only, never IpAddr)
    Paths,      \* file paths of POSIX / ZMQ IPC sockets (may hold Empty)
    Names,      \* names of ZMQ in-process sockets
    Ports,      \* u16 port numbers used by with_port and in URLs
    None,       \* Option::None, and the empty slot of a variant
    Empty       \* the empty String

IpAddrs   == Ip4 \cup Ip6
InetAddrs == IpAddrs \cup Onions
OptPort   == Ports \cup {None}

ASSUME LocatorAssumption ==
    /\ Ports \subseteq Nat /\ \A p \in Ports : p < 65536
    /\ \A k \in PubKeys : k \notin InetAddrs
    /\ \A a \in Ip4 : a \notin Ip6
    /\ \A a \in IpAddrs : a \notin Onions
    /\ None \notin PubKeys /\ None \notin InetAddrs /\ None \notin Ports
    /\ None \notin Paths /\ None \notin Names
    /\ Empty \notin {None, "/", "//"} /\ Empty \notin PubKeys /\ Empty \notin InetAddrs

(***************************************************************************)
(* zmqsocket::ApiType and its api_name().  The transport module is not in *)
(* src/: the six roles and their URL tokens are those of the spec (3, 4.2).*)
(***************************************************************************)
ApiTypes == {"PeerListening", "PeerConnecting", "Client", "Server",
             "Subscribe", "EsbService"}

ApiName == [PeerListening |-> "p2p", PeerConnecting |-> "p2p",
            Client |-> "rpc", Server |-> "rpc",
            Subscribe |-> "sub", EsbService |-> "esb"]

(***************************************************************************)
(* The enum NodeLocator: one set of records per variant.                  *)
(***************************************************************************)
InetKinds  == {"Native", "Http", "Websocket"}
LocalKinds == {"Posix", "ZmqIpc", "ZmqInproc"}
Kinds == InetKinds \cup LocalKinds \cup
         {"Udp", "ZmqTcpEncrypted", "ZmqTcpUnencrypted", "Text"}

Locator(k, id, addr, port, path, api) ==
    [kind |-> k, id |-> id, addr |-> addr, port |-> port, path |-> path, api |-> api]

LocatorsOf(K, R) ==
       [kind: K \cap InetKinds, id: PubKeys, addr: InetAddrs, port: OptPort,
        path: {None}, api: {None}]
  \cup [kind: K \cap {"Udp"}, id: PubKeys, addr: IpAddrs, port: OptPort,
        path: {None}, api: {None}]
  \cup [kind: K \cap {"Posix"}, id: {None}, addr: {None}, port: {None},
        path: Paths, api: {None}]
  \cup [kind: K \cap {"ZmqIpc"}, id: {None}, addr: {None}, port: {None},
        path: Paths, api: R]
  \cup [kind: K \cap {"ZmqInproc"}, id: {None}, addr: {None}, port: {None},
        path: Names, api: R]
  \cup [kind: K \cap {"ZmqTcpEncrypted"}, id: PubKeys, addr: IpAddrs,
        port: OptPort, path: {None}, api: R]
  \cup [kind: K \cap {"ZmqTcpUnencrypted"}, id: {None}, addr: IpAddrs,
        port: OptPort, path: {None}, api: R]
  \cup [kind: K \cap {"Text"}, id: PubKeys, addr: {None}, port: {None},
        path: {None}, api: {None}]

Locators == LocatorsOf(Kinds, ApiTypes)

(* Option::None is no locator. *)
ASSUME NoneAssumption == None \notin Locators

(* The variants that have a port slot (the arms of with_port that set it). *)
PortKinds == InetKinds \cup {"Udp", "ZmqTcpEncrypted", "ZmqTcpUnencrypted"}

(***************************************************************************)
(* with_port: sets the port of the variants that have one, else a no-op.  *)
(***************************************************************************)
(* Mutant: the Udp arm dropped, so a Udp locator falls to "me => me". *)
WithPortNoUdp(v, p) ==
    IF v.kind \in PortKinds \ {"Udp"} THEN [v EXCEPT !.port = p] ELSE v

WithPort(v, p) == IF v.kind \in PortKinds THEN [v EXCEPT !.port = p] ELSE v

(***************************************************************************)
(* components() and the accessors node_id, inet_addr, port, socket_name,  *)
(* api_type over it.  Udp's and the ZMQ TCP variants' IpAddr is lifted    *)
(* into InetAddr, which here is the same value.                            *)
(***************************************************************************)
Components(v) == <<v.id, v.addr, v.port, v.path, v.api>>
NodeId(v)     == Components(v)[1]
InetAddr(v)   == Components(v)[2]
Port(v)       == Components(v)[3]
SocketName(v) == Components(v)[4]
ApiType(v)    == Components(v)[5]

(***************************************************************************)
(* url_scheme()                                                            *)
(***************************************************************************)
UrlScheme(v) ==
    CASE v.kind \in {"Native", "Posix"}                       -> "lnp"
      [] v.kind = "Udp"                                       -> "lnpu"
      [] v.kind \in {"ZmqIpc", "ZmqInproc", "ZmqTcpEncrypted",
                     "ZmqTcpUnencrypted"}                     -> "lnpz"
      [] v.kind = "Http"                                      -> "lnph"
      [] v.kind = "Websocket"                                 -> "lnpws"
      [] v.kind = "Text"                                      -> "lnpt"

(***************************************************************************)
(* PartialEq: the same variant and equal fields, where two ApiTypes are   *)
(* also equal when one is PeerListening and the other PeerConnecting.     *)
(***************************************************************************)
(* Mutant: the listening/connecting merge written in one direction only. *)
ApiEqOneWay(a, b) ==
    \/ a = b
    \/ a = "PeerListening" /\ b = "PeerConnecting"

ApiEq(a, b) ==
    \/ a = b
    \/ a = "PeerListening" /\ b = "PeerConnecting"
    \/ b = "PeerListening" /\ a = "PeerConnecting"

Eq(a, b) ==
    /\ a.kind = b.kind /\ a.id = b.id /\ a.addr = b.addr
    /\ a.port = b.port /\ a.path = b.path
    /\ ApiEq(a.api, b.api)

(***************************************************************************)
(* to_url_string().  The string is kept as the parts format! writes, in   *)
(* order: scheme, "//" (auth), userinfo "<node-id>@", host, ":<port>",    *)
(* path, "?api=<name>", "#<name>".  The host is written with Display, so  *)
(* an IPv6 address is written without brackets.                            *)
(***************************************************************************)
ToUrlString(v) ==
    [scheme |-> UrlScheme(v),
     auth   |-> IF v.kind \in LocalKinds THEN Empty ELSE "//",
     user   |-> IF v.kind \in {"Text", "ZmqTcpUnencrypted"} THEN None ELSE v.id,
     host   |-> IF v.kind = "Text" THEN v.id ELSE v.addr,
     port   |-> v.port,
     path   |-> IF v.kind \in {"Posix", "ZmqIpc"} THEN v.path
                ELSE IF v.kind \in {"ZmqTcpEncrypted", "ZmqTcpUnencrypted"} THEN "/"
                ELSE Empty,
     api    |-> IF v.api = None THEN None ELSE ApiName[v.api],
     frag   |-> IF v.kind = "ZmqInproc" THEN v.path ELSE None]

(***************************************************************************)
(* Hash: the bytes of to_url_string() are fed to the hasher.               *)
(***************************************************************************)
Hash(v) == ToUrlString(v)

=============================================================================
