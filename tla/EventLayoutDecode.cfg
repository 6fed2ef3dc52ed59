\* The probes write a connection record and the two HTTP records; the
\* reader goroutines check, decode and convert them.
CONSTANTS
    ConnRecords <- MCConnRecords
    HttpRecords <- MCHttpRecords
SPECIFICATION Spec
INVARIANT DecodedAsWritten
