SPECIFICATION FairSpec
CONSTANTS
    Clients = {1, 2}
    Messages = {"get", "options", "hangup"}
    QueueMax = 2
    PurgeRetries = 0
    PurgeSurely = 2
    MaxStarts = 2
    RecvRetries = 2
INVARIANTS NoStrayClose OneOwner RequestHasConnection StoppedClean
PROPERTIES ConnectionsEnd StopReturns
