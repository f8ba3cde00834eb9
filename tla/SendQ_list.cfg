\* A compressed link, an operator and a client that lists channels.
SPECIFICATION FairSpec
CONSTANTS
    Link = {"s", "u"}
    Server = {"s"}
    Zip = {"s"}
    Oper = {"u"}
    Order <- MCOrder
    Limit <- MCLimit
    K = 2
    Slack = 1
    ZipMin = 2
    ZipMax = 5
    MaxLine = 2
    Channel = {"#a", "#b", "#c"}
    Chains <- MCChains
    Hash <- MCHash
    Hidden = {}
    Lister = {"u"}
    Traffic <- MCTraffic
    MaxOps = 3
INVARIANTS QueueRight ListComplete
PROPERTIES PipeSpec Settles
CHECK_DEADLOCK FALSE
