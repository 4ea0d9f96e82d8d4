CONSTANTS
    Gateway   <- MCGateway
    RouteSpec <- MCRouteSpec
    Services  <- MCServices
    World     <- MCWorld
    MaxEdits  = 2
    MaxFaults = 1
SPECIFICATION Spec
\* When nobody changes anything any more, the controller rests.
CHECK_DEADLOCK FALSE
INVARIANTS
    TypeOK
    NothingBorrowed
    AcceptedMeansServed
PROPERTIES
    RoutesArrive
    StatusFollows
    Settles
