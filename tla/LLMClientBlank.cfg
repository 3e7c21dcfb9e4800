SPECIFICATION Spec
CONSTANTS
    MaxRetries = 2
    Timeout = 1
    Backoff = 1
INVARIANT
    ReportIsNeverBlank
