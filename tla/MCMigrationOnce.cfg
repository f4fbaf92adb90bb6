SPECIFICATION Spec
CONSTANTS
    ops = ops
    lab = lab
    night = night
    day = day
    xo = xo
    url1 = url1
    url2 = url2
    Outputs <- MCOutputs
    Routing <- MCRouting
    OutputOf <- MCOutputOf
    RouteOf <- MCRouteOf
    OlderOutput = OlderOutput
    OlderRoute = OlderRoute
    OtherSource = OtherSource
    Payloads <- MCPayloads
    Ids = {1, 2, 3, 4, 5}
    Administrator = Administrator
    User = User
    None = None
    MaxStops = 2
    MaxFailures = 1
PROPERTY MigratesOnce
CHECK_DEADLOCK FALSE
