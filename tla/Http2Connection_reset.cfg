\* Two requests on one connection, one of them with a body.
SPECIFICATION Http2Spec
CONSTANTS
    Gets = {g}
    Posts = {p}
    Tunnels = {}
    PostLength = 1
    InitialWindow = 2
    MaxStreams = 2
    MaxLink = 2
    MaxGrants = 0
    NoStream = NoStream
    g = g
    p = p
INVARIANT ResetStaysWithItsStream
\* A connection that was closed stops.
CHECK_DEADLOCK FALSE
