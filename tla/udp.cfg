SPECIFICATION ProxyFairSpec
CONSTANTS
    Clients = {c1, c2}
    Payloads <- MCPayloads
    Key <- MCKey
    CLIENT_TIMEOUT = 1
    MaxSent = 3
    MaxTime = 2
INVARIANTS ClientInv ReplyToOwner
PROPERTIES RepliesForwarded
CHECK_DEADLOCK FALSE
