\* The loader with both perf readers, a channel of one slot and two records
\* per buffer, so that a reader blocks on the full channel; the signal may
\* come at any point, and Start may fail.
CONSTANTS
    conn = conn
    http = http
    connObj = connObj
    httpObj = httpObj
    dnsObj = dnsObj
    Objects = {connObj, httpObj}
    ObjReaders <- MCObjReaders
    ObjProgs <- MCObjProgs
    Readers = {conn, http}
    ChanCap = 1
    MaxRecords = 2
SPECIFICATION FairSpec
INVARIANT TypeOK ConvertedAccounted
PROPERTY AgentStops
