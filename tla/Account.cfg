SPECIFICATION SpecAccount
CONSTANTS
    b1 = b1
    b2 = b2
    b3 = b3
    NoBody = NoBody
    Bodies = {b1, b2, b3}
    MaxID = 4
    FilesPerDir = 1
    MaxCrashes = 2
SYMMETRY Symmetric
INVARIANTS
    ReadableUnlessMoved
    FilesAccounted
    MailboxesConsistent
    UpgradesSound
    BackupComplete
PROPERTIES
    SyncComplete
