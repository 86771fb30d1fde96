SPECIFICATION Spec
CONSTANTS
    MaxRequests <- MCMaxRequests
    OrderIds <- MCOrderIds
\* Threads may end blocked in recv or finished (see MCConnection.cfg).
CHECK_DEADLOCK FALSE
INVARIANT
    ServerEndsCleanly
