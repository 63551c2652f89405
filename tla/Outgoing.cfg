SPECIFICATION Spec
INVARIANTS
    DeliveredExactly
    PolicyHonoured
    HooksSound
    PolicyFresh
PROPERTIES
    ReportsAccounted
CHECK_DEADLOCK FALSE
