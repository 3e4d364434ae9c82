SPECIFICATION FairSpec
CHECK_DEADLOCK FALSE
CONSTANT
    Clients = {c1}
PROPERTY
    GatewayFollowsRuntime
