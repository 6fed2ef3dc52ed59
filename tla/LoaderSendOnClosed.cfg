\* Loader shutdown: the signal cancels the context while a reader holds a
\* converted record; Close closes the events channel.
CONSTANTS
    conn = conn
    http = http
    connObj = connObj
    httpObj = httpObj
    dnsObj = dnsObj
    Objects = {connObj, httpObj, dnsObj}
    ObjReaders <- MCObjReaders
    ObjProgs <- MCObjProgs
    Readers = {conn, http}
    ChanCap = 1
    MaxRecords = 1
SPECIFICATION Spec
INVARIANT NoSendOnClosed
