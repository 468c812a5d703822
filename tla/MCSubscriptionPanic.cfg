SPECIFICATION SubscriptionSafety
CONSTANTS
    e1 = e1
    e2 = e2
    NoEvent = NoEvent
    SubEvents = {e1, e2}
    SubInWindow = {e1, e2}
    HasTimer = TRUE
    MaxClosed = 1
INVARIANTS
    NoSendOnClosed
CHECK_DEADLOCK FALSE
