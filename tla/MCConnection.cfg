SPECIFICATION Spec
CONSTANTS
    MaxRequests <- MCMaxRequests
    OrderIds <- MCOrderIds
\* Every thread may end blocked or finished: a client that never quits
\* leaves both recv loops waiting forever.
CHECK_DEADLOCK FALSE
PROPERTY
    ClientCloseEndsHandler
    ServerCloseEndsReceiver
    
