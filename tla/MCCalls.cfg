CONSTANTS
    Servers = {"main", "side"}
    Main = "main"
    Proxy = "proxy"
    ProxyTarget = "side"
    MaxRequests = 2
    Profiles <- MCProfiles
    PeerProfiles <- MCPeerProfiles
    Methods <- MCMethods
    Registered <- MCRegistered
    Mounts <- MCMounts
    Middlewares = {"side"}
    RouteMiddlewares = {"main"}
    EHandlers <- MCEHandlers
    RouteEHandlers <- MCRouteEHandlers
    NamePrefixes <- MCPrefixes
    Proto = "compliant"
    MaxBatches = 1
    MaxChanges = 1
    None = None
SPECIFICATION Spec
INVARIANTS
    TypeOK
    Accounted
    BatchHolds
    OwnContext
    RejectedStaysRejected
    RoutedByName
