--------------------------- MODULE LocatorConvert ---------------------------
(***************************************************************************)
(* The conversions of a NodeLocator into the stricter address types:      *)
(* TryFrom<NodeLocator> for LocalAddr (node_locator.rs), and the          *)
(* conversions to and from NodeAddr, whose code (node_addr.rs) is not in  *)
(* src/: they follow the spec (4.4) and the tests of node_locator.rs.     *)
(***************************************************************************)
EXTENDS LocatorUrl

CONSTANT
    NodeAddrZmqApi   \* the ApiType From<NodeAddr> gives a ZMQ remote address

ASSUME NodeAddrZmqApiAssumption == NodeAddrZmqApi \in ApiTypes

(***************************************************************************)
(* TryFrom<NodeLocator> for LocalAddr: POSIX and ZMQ IPC / inproc sockets *)
(* by their path or name, unencrypted ZMQ TCP only with a port.           *)
(***************************************************************************)
LocalAddrs ==
         [kind: LocalKinds, addr: {None}, port: {None}, path: Paths \cup Names]
    \cup [kind: {"ZmqTcp"}, addr: IpAddrs, port: Ports, path: {None}]

ToLocalAddr(v) ==
    IF v.kind \in {"Posix", "ZmqIpc", "ZmqInproc"}
    THEN Ok([kind |-> v.kind, addr |-> None, port |-> None, path |-> v.path])
    ELSE IF v.kind = "ZmqTcpUnencrypted" /\ v.port # None
    THEN Ok([kind |-> "ZmqTcp", addr |-> v.addr, port |-> v.port, path |-> None])
    ELSE Err("UnsupportedForLocalAddr")

(***************************************************************************)
(* TryFrom<NodeLocator> for NodeAddr: Native becomes an Ftcp remote       *)
(* address and ZmqTcpEncrypted a Zmq one, both only with a port; every    *)
(* other variant is UnsupportedType.  The ApiType is not kept.            *)
(***************************************************************************)
ToNodeAddr(v) ==
    IF v.kind \notin {"Native", "ZmqTcpEncrypted"} THEN Err("UnsupportedType")
    ELSE IF v.port = None THEN Err("NoPort")
    ELSE Ok([node_id |-> v.id,
             transport |-> IF v.kind = "Native" THEN "Ftcp" ELSE "Zmq",
             addr |-> v.addr, port |-> v.port])

(* The errors of TryFrom<NodeLocator> for NodeAddr. *)
NodeAddrErrors == {"UnsupportedType", "NoPort"}

(* From<NodeAddr> for NodeLocator. *)
FromNodeAddr(na) ==
    IF na.transport = "Ftcp"
    THEN Locator("Native", na.node_id, na.addr, na.port, None, None)
    ELSE Locator("ZmqTcpEncrypted", na.node_id, na.addr, na.port, None, NodeAddrZmqApi)

=============================================================================
