\* The same cluster, with clients that may never finish their request,
\* on Linux: no ACK is ever sent.  No datagram is lost.
SPECIFICATION FairSpec
CONSTANTS
    Servers <- MCServers
    Names <- MCNames
    FullName <- MCFullName
    Requests <- MCRequests
    None = 0
    Putter = 1
    Capacity = 2
    Mute = {1, 2, 3, 4}
    MaxClients = 2
    MaxFaults = 0
CHECK_DEADLOCK FALSE
PROPERTY
    ReadsHandleUdp
