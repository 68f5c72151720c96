SPECIFICATION SubscriptionSpec
INVARIANTS
    SubscriptionIsRefreshed
PROPERTIES
    WaitEnds
CHECK_DEADLOCK FALSE
