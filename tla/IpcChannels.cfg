SPECIFICATION FairSpec
CONSTANTS
    Calls = {"c1"}
    Events = {"e"}
    Channels = {"ch"}
    ChannelOf <- OneChannel
    MaxListens = 2
    MaxFires = 2
CHECK_DEADLOCK FALSE
INVARIANTS TypeOK NoHandlerLeak SubscriptionsMatch EventsInOrder
PROPERTIES ImplementsCalls CallsSettle ListenersServed
