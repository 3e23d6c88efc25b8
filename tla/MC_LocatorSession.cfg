\* Every variant, IPv4 and onion addresses, the received texts.
CONSTANTS
    k1 = k1  a4 = a4  a6 = a6  o1 = o1  p1 = p1  n1 = n1
    None = None  Empty = Empty  BadKey = BadKey  BadHost = BadHost  OtherScheme = lnpx
    NodeAddrZmqApi = "PeerConnecting"
    PubKeys <- MCPubKeys
    Ip4 <- MCIp4
    Ip6 <- MCNoIp6
    Onions <- MCOnions
    Paths <- MCPaths
    Names <- MCNames
    Ports <- MCPorts
    Built <- MCAllKinds
    BuiltApis <- MCAllApis
    Inputs <- MCInputs
SPECIFICATION Spec
INVARIANT EqHashContract
INVARIANT ParsedCanonical
INVARIANT ParsedKeepsAuthority
INVARIANT WithPortTakesPort
PROPERTY AdoptKeepsEndpoint
