SPECIFICATION MCSpec
CONSTANTS
    c1 = c1
    c2 = c2
    c3 = c3
    ip1 = ip1
    ip2 = ip2
    NoIp = NoIp
    Hacker = Hacker
    Conns <- ThreeConns
    IPs <- MCIPs
    IpOf <- ThreeIpOf
    InitialList <- MCInitialList
    Lists <- MCLists
    WhitelistMode = TRUE
    BlacklistMode = TRUE
    MaxUpdates = 1
    FreeFails = 1
    AuthFailLimit = 3
CHECK_DEADLOCK FALSE
INVARIANTS TypeOK ListedFirst DockerLetIn  FailuresCounted
