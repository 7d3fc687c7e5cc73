SPECIFICATION BridgeSpec
CONSTANTS
    v1 = v1
    v2 = v2
    b1 = b1
    b2 = b2
    Bridges = {b1, b2}
    VMs = {v1, v2}
    Uses <- MCUses
    Choices <- MCChoices
    NoBridge = NoBridge
    Off = Off
    None = None
    MaxRestarts = 2
    MaxFailures = 2
INVARIANTS
    ForwardingRecoverable
    RulesRecoverable
    ActiveBridgesAreServed
    NothingLeftBehind
    PreparedGuestsAreServed
    ServicesHaveUsers
