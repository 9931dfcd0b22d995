SPECIFICATION ProxyFairSpec
CONSTANTS
    Clients = {c1}
    Payloads <- MCPayloads
    Key <- MCKey
    CLIENT_TIMEOUT = 1
    MaxSent = 2
    MaxTime = 0
PROPERTY Bidirectional
CHECK_DEADLOCK FALSE
