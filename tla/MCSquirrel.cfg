\* Four servers: two put blocks, and each needs two others.  The second is on Linux
\* and sends no ACK: those that can answer the first are just two, and it asks the
\* second, too, which may hang in a put of its own.
SPECIFICATION FairClients
CONSTANTS
    Servers <- MCServers
    Names <- MCNames
    FullName <- MCFullName
    Requests <- MCRequests
    None = 0
    Putter = 1
    Capacity = 2
    Mute = {2}
    MaxClients = 2
    MaxFaults = 1
\* All servers may have died, or hang, or be without clients.
CHECK_DEADLOCK FALSE
INVARIANT
    Consistent
PROPERTIES
    BlocksServed
    ClientsServed
