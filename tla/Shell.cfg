SPECIFICATION FairSpec
CONSTANTS
    main = main quit = quit web = web
    Gateways = {g1, g2, g3}
    Ports = {p1, p2}
    Policy = "hide"
    MaxAsked = 1 MaxLeft = 1 MaxDied = 1
    Checkers = {"web", "gateway"}
    Methods = {"pip", "exe", "docker"}
    Tries = 2 MaxChecks = 3
    Keys = {"update"} NoKey = "plain"
    MaxItems = 2 Cooldown = 2 MaxNow = 5 MaxIds = 4
CHECK_DEADLOCK FALSE
INVARIANTS OneGateway NoStrayGateway KnownUpdateStays
PROPERTIES DropsTheOldest QuitEnds
