\* No item errors: a document acknowledged to one writer is lost when
\* another flusher (the ticker or another writer) has its Bulk request fail.
SPECIFICATION Spec
CONSTANTS
    Writers = {w1, w2}
    Loop = Loop
    Closer = Closer
    BatchSize = 2
    MaxDocs = 4
    MaxCallDocs = 2
    MaxBulkFailures = 1
    ItemErrors = FALSE
SYMMETRY WriterSymmetry
INVARIANT AckedDocsSurvive
