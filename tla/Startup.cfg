SPECIFICATION StartupSpec
CONSTANTS
    Deployed = {"order-service", "payment-service", "bridge-service"}
    FaultKinds = {"call_failed", "crash", "backend_down", "streams_lost"}
    MaxFaults = 1
INVARIANTS
    SubscriptionsStand
