SPECIFICATION TlsReportsSpec
PROPERTIES
    KeptOnTemporaryError
CHECK_DEADLOCK FALSE
