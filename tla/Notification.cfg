SPECIFICATION FairSpec
CONSTANTS
    e1 = e1  e2 = e2
    NoEvent = NoEvent
    Events <- MCEvents
    StreamFor <- MCStreamFor
    StreamOf <- MCStreamOf
    FaultKinds = {"unconfirmed", "ack_lost", "smtp_error", "db_error", "bridge_restart",
                  "notifier_restart", "broker_restart"}
    MaxFaults = 3
INVARIANTS
    HandedOn
    RepeatsNeedFailures
PROPERTIES
    EventuallyMailed
