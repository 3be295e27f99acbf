CONSTANTS
    t1 = t1
    t2 = t2
    f1 = f1
    f2 = f2
    f3 = f3
    NoFd = NoFd
    Threads <- MCThreads
    Fds <- MCFdsLive
    PoolLimit = 1
    MaxAddrs = 2
    MaxPeerEvents = 2
    AuthEnabled = TRUE
SPECIFICATION Spec
PROPERTY AcquireCompletes
\* After as_node_destroy nothing uses the node again: the system stops.
CHECK_DEADLOCK FALSE
