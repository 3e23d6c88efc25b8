\* UDP locators with an IPv6 address: their text is no URL.
CONSTANTS
    k1 = k1  a4 = a4  a6 = a6  o1 = o1  p1 = p1  n1 = n1
    None = None  Empty = Empty  BadKey = BadKey  BadHost = BadHost  OtherScheme = lnpx
    NodeAddrZmqApi = "PeerConnecting"
    PubKeys <- MCPubKeys
    Ip4 <- MCIp4
    Ip6 <- MCIp6
    Onions <- MCOnions
    Paths <- MCPaths
    Names <- MCNames
    Ports <- MCPorts
    Built <- MCUdp
    BuiltApis <- MCAllApis
    Inputs <- MCNoInputs
SPECIFICATION Spec
INVARIANT RoundTrip
